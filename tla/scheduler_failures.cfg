CONSTANTS
    j1 = j1
    j2 = j2
    j3 = j3
    Jobs = {j1}
    TotalGpus = 2
    MinProc <- MinOne
    MaxProc <- MaxTwo
    Unqueued = {j1}
    MaxCrashes = 2
    MaxFaults = 2
    MaxNotices = 1
SPECIFICATION Spec
CHECK_DEADLOCK FALSE
INVARIANTS
    MemoryIsDurable
    NoRequestForgotten
    PanicNeedsLateNotice
    RunningIsBacked
    StatusMatchesAllocation
PROPERTIES
    ImplementsLifecycle
