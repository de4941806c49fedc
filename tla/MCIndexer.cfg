SPECIFICATION FairIndexerSpec
CONSTANTS
    EventKeys = {k1, k2, k3}
    Other = Other
    Blocks <- SmallBlocks
    MaxEvents = 4
    MaxFaults = 2
    FaultKinds = {"subscribe", "close", "apply", "save", "crash"}
INVARIANTS
    NoGap
PROPERTIES
    EventuallyApplied
CHECK_DEADLOCK FALSE
