SPECIFICATION Spec
CONSTANTS
    t1 = t1
    t2 = t2
    Accounts = {a1, a2}
    Tokens = {t1}
    TokenOrder <- MCTokenOrder
    Amounts = {1}
    Nonces = {0, 1}
    BlockSize = 2
    FraudFlags = {TRUE}
    Failures = {}
    MaxTx = 3
    MaxRejected = 0
    MaxRestarts = 0
INVARIANTS
    ValidatorNeverPanics
CHECK_DEADLOCK FALSE
