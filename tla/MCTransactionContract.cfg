SPECIFICATION Spec
CONSTANTS
    TxnIds = {t1, t2}
    Users = {u1, u2}
    Hashes = {h1, h2}
    Keys = {k1, k2, k3}
    NoHash = NoHash
    None = None
    MaxSequence = 2
SYMMETRY Symmetry
INVARIANTS
    HistoryIsChain
    IdempotencyOnce
    StatusFollowsFromRecords
PROPERTY AppendOnly
CHECK_DEADLOCK FALSE
