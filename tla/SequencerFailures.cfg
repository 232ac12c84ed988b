SPECIFICATION Spec
CONSTANTS
    t1 = t1
    t2 = t2
    Accounts = {a1, a2}
    Tokens = {t1}
    TokenOrder <- MCOneToken
    Amounts = {0, 1}
    QueueSize = 1
    Failures = {"missed", "remapped", "self", "late", "closed", "nothing", "restart"}
    MaxEvents = 2
    MaxWatchers = 2
    MaxClosed = 1
    MaxRestarts = 1
SYMMETRY Symmetry
INVARIANTS
    StreamsConveyed
    SpendsOnce
CHECK_DEADLOCK FALSE
