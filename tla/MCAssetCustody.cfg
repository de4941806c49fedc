SPECIFICATION CustodySpec
CONSTANTS
    Assets = {a1}
    Hashes = {h1, h2}
    Keys = {k1, k2}
    Signers = {s1}
    NoHash = NoHash
    NoAsset = NoAsset
    MaxSequence = 2
    Requests = {r1, r2}
    RequestStatuses = {"RECEIVED", "INSPECTED"}
    MaxAttempts = 2
    MaxRows = 3
    MaxLost = 1
SYMMETRY Symmetry
INVARIANTS
    LedgerFollowsDatabase
    
PROPERTY ImplementsCustodyLog
CHECK_DEADLOCK FALSE
