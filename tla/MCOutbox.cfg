SPECIFICATION MCFairSpec
CONSTANTS
    TxnIds = {t1}
    Users = {u1, u2}
    Hashes = {h1}
    Keys = {k1, k2}
    NoHash = NoHash
    None = None
    MaxSequence = 2
    Workers = {w1, w2}
    First = w1
    Creator = u1
    k1 = k1
    k2 = k2
    BatchSize = 2
    MaxAttempts = 2
    RequestStatuses = {"VERIFIED"}
    MaxRows = 3
    MaxFaults = 2
    PairRows = 3
    PairFaults = 0
INVARIANTS
    SentMeansCommitted
    NoSilentLoss
    RecordedMeansComplete
    LedgerIsPrefixOfDatabase
PROPERTIES
    
    EveryRowSettles
CHECK_DEADLOCK FALSE
