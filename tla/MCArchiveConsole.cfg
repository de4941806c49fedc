CONSTANTS
    r1 = r1
    r2 = r2
    i1 = i1
    m1 = m1
    m2 = m2
    a1 = a1
    o1 = o1
    o2 = o2
    None = None
    Requests <- MCRequests
    Verifiers <- MCVerifiers
    Items <- MCItems
    Admins <- MCAdmins
    Accounts <- MCAccounts
    Offices <- MCOffices
    Deep <- MCDeep
    TicketTTL = 1
    MaxNow = 1
    MaxWork = 5
SPECIFICATION MCSpec
SYMMETRY Symmetry
CHECK_DEADLOCK FALSE
INVARIANTS
    
    AccessIsTrailed
    MemberHasOneOffice
