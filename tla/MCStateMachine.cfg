SPECIFICATION Spec
CONSTANTS
    Accounts = {a1, a2}
    Tokens = {t1, t2}
    Amounts = {1, 2}
    Nonces = {0, 1, 2}
    MaxTx = 4
    MaxRestarts = 1
SYMMETRY Symmetry
INVARIANTS
    TypeOK
    DirectoryConsistent
    TrieCommitsStore
    UnmappedSlotsEmpty
    SpentNoncesPassed
    SupplyAccounted
PROPERTIES
    RefinesLedger
CHECK_DEADLOCK FALSE
