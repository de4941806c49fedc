SPECIFICATION FairSpec
CONSTANTS
    r1 = r1
    r2 = r2
    Requests = {r1, r2}
    None = None
    Size = 2
    MaxStarts = 4
    MaxFaults = 2
    FaultKinds = {"body", "update", "lostUpdate", "commit", "lostCommit", "delete", "corrupt", "store", "janitor", "crash"}
INVARIANTS
    CanResume
    ArchivedIsWhatWasSent
    AckedIsDurable
    OneItemPerUpload
    
PROPERTY EveryRequestIsAnswered
CHECK_DEADLOCK FALSE
