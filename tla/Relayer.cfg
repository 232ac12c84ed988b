SPECIFICATION FairSpec
CONSTANTS
    Accounts = {a1}
    Tokens = {t1}
    Handlers = {h1, h2}
    BlockContents <- MCBlockContents
    RequestNumbers <- MCRequestNumbers
    RequestIndexes <- MCRequestIndexes
    KeyBits = 2
    Failures = {"send", "receipt", "replaced", "reverted", "store", "dropped", "renumbered", "restart"}
    MaxDeposits = 2
    MaxBlocks = 2
    MaxRequests = 2
    MaxEvents = 3
    MaxDisturbances = 2
INVARIANTS
    MintedOnce
    OutcomeTrue
    ProofsFit
    AnsweredIsPaid
CHECK_DEADLOCK FALSE
PROPERTIES
    EventuallyMinted
    EventuallyFiled
    EveryRequestAnswered
