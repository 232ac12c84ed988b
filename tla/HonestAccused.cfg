SPECIFICATION Spec
CONSTANTS
    t1 = t1
    t2 = t2
    Accounts = {a1, a2}
    Tokens = {t1}
    TokenOrder <- MCTokenOrder
    Amounts = {1}
    Nonces = {0, 1}
    BlockSize = 1
    FraudFlags = {FALSE}
    Failures = {}
    MaxTx = 3
    MaxRejected = 1
    MaxRestarts = 0
INVARIANTS
    HonestNeverAccused
CHECK_DEADLOCK FALSE
