SPECIFICATION Spec
CONSTANTS
    t1 = t1
    t2 = t2
    Accounts = {a1}
    Tokens = {t1, t2}
    TokenOrder <- MCTokenOrder2
    Amounts = {1}
    Nonces = {0}
    BlockSize = 1
    FraudFlags = {FALSE}
    Failures = {"retry", "repeated", "dropped", "lost", "submit", "restart", "missed"}
    MaxTx = 3
    MaxRejected = 1
    MaxRestarts = 1
INVARIANTS
    TypeOK
    GapsAreNumbered
CHECK_DEADLOCK FALSE
