SPECIFICATION OfficeSpec
CONSTANTS
    TxnIds = {t1, t2}
    Users = {admin, clerk}
    Admins = {admin}
    Documents = {d1, d2}
    Signatures = {s1}
    Roles = {"requester", "approver"}
    Hashes <- MCHashes
    Keys <- MCHashes
    NoHash = NoHash
    None = None
    MaxSequence = 4
    MaxInFlight = 1
SYMMETRY Symmetry
INVARIANTS
    
    ReadModelIsLedger
    
CHECK_DEADLOCK FALSE
