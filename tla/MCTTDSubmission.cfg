SPECIFICATION SubmissionSpec
CONSTANTS
    c1 = c1
    c2 = c2
    good1 = good1
    good2 = good2
    damaged = damaged
    huge = huge
    Submissions = {p1, p2}
    Bodies <- MCBodies
    Large = {huge}
    Valid = {good1, good2, huge}
    Certs <- MCCerts
    SignedWith <- MCSignedWith
    None = None
    MaxStarts = 3
    MaxFailures = 1
SYMMETRY Symmetry
INVARIANTS
    AcceptedIsVerified
    AcksAgree
CHECK_DEADLOCK FALSE
