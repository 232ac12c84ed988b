SPECIFICATION Spec
CONSTANTS
    Accounts = {a1, a2}
    Tokens = {t1, t2}
    Amounts = {1}
    Nonces = {0, 1}
    MaxTx = 3
    MaxRestarts = 1
INVARIANTS
    NeverPanics
CHECK_DEADLOCK FALSE
