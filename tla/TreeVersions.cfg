SPECIFICATION Spec
CONSTANTS
    Keys = {0, 1, 6}
    Values = {v1}
    DefaultValue = empty
    Height = 4
    HashSize = 1
    HashedKey <- MCHashedKey
    MaxUpdates = 3
    MaxBranches = 2
INVARIANTS
    TypeOK
    OldRootsReadable
    RootsCanonical
    ProofsDecide
    CompactionLossless
    SubtreeFaithful
CHECK_DEADLOCK FALSE
