CONSTANTS
    q1 = q1
    q2 = q2
    Requests <- MCRequests
    saMaxFailures = 2
    saLockFor = 1
    saStepTTL = 1
    AccessTTL = 1
    Drift = 0
    MaxSecrets = 2
    MaxNow = 2
    MaxFaults = 1
    MaxRequests = 5
SPECIFICATION Spec
INVARIANTS  CodeOpensOneSession 
SYMMETRY Symmetry
CHECK_DEADLOCK FALSE
