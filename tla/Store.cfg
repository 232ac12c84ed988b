SPECIFICATION Spec
CONSTANTS
    Clients = {"opener", "writer"}
    Opener = "opener"
    Engines = {"memorydb", "badgerdb"}
    Keys = {0, 1, 2, 3, 4}
    Values = {"v"}
    NoValue = "none"
    Defaults <- DefaultNodes
    Marker = 2
    BatchSize = 2
    MaxCalls = 6
    MaxFailures = 1
INVARIANTS
    MarkerMeansDefaults
    ScansAgree
PROPERTIES
    KeepsPromise
CHECK_DEADLOCK FALSE
