SPECIFICATION Spec
CONSTANTS
    Requests = {r1, r2}
    Uploads = {u1}
    DocLengths = {1, 2, 4}
    MaxStamp = 1
    MaxVerify = 1
    MaxUpload = 2
    None = None
    MaxStarts = 5
    MaxFaults = 1
SYMMETRY Symmetry
INVARIANTS
    UploadIsPrefix
    RecordIsAnUpload
    ObjectIsRecorded
CHECK_DEADLOCK FALSE
