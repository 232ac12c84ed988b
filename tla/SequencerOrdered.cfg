SPECIFICATION FairSpec
CONSTANTS
    t1 = t1
    t2 = t2
    Accounts = {a1, a2}
    Tokens = {t1, t2}
    TokenOrder <- MCTokenOrder
    Amounts = {1, 2}
    QueueSize = 1
    Failures = {}
    MaxEvents = 3
    MaxWatchers = 2
    MaxClosed = 0
    MaxRestarts = 0
INVARIANTS
    InOrderAccepted
    CaughtUpAgrees
PROPERTIES
    EventuallyProcessed
CHECK_DEADLOCK FALSE
