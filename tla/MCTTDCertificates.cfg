SPECIFICATION Spec
CONSTANTS
    a1 = a1
    Accounts = {a1}
    Devices = {d1, d2}
    Owner <- MCOwner
    Serials = {s1, s2}
    Commands = {p1, p2}
    None = None
    MaxEvents = 4
    FaultKinds = {"issue", "insert", "row", "revoke", "crl", "crash"}
SYMMETRY Symmetry
INVARIANTS
    CascadeIsComplete
    
    NewestCRLIsComplete
CHECK_DEADLOCK FALSE
