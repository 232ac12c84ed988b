CONSTANTS
    Nodes = {n1, n2}
    Committer = n1
    DistinctKeys = {n2}
    Quorum = 2
    Failures = {"call", "replaced", "receipt", "lookup", "reverted",
                "superseded", "rotated", "dropped", "restart"}
    MaxTx = 2
    MaxDisturbances = 1
SPECIFICATION FairSpec
CHECK_DEADLOCK FALSE
INVARIANTS
    TypeOK
    CommittedInOrder
    NoNumberSkipped
PROPERTIES
    EventuallyCommitted
    EveryCallReturns
