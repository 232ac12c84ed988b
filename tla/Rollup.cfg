SPECIFICATION FairSpec
CONSTANTS
    t1 = t1
    t2 = t2
    Accounts = {a1, a2}
    Tokens = {t1}
    TokenOrder <- MCTokenOrder
    Amounts = {1}
    Nonces = {0, 1}
    BlockSize = 2
    FraudFlags = {TRUE, FALSE}
    Failures = {"retry"}
    MaxTx = 4
    MaxRejected = 0
    MaxRestarts = 0
INVARIANTS
    ReplayReachesAggregator
    NoFalseAlarm
    NothingLostOrRepeated
    FirstAlarmAnchored
PROPERTIES
    FraudEventuallyProven
CHECK_DEADLOCK FALSE
