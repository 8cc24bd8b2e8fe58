CONSTANTS
    j1 = j1
    j2 = j2
    j3 = j3
    Jobs = {j1}
    TotalGpus = 1
    MinProc <- MinOne
    MaxProc <- MaxTwo
    Unqueued = {j1}
    MaxCrashes = 1
    MaxFaults = 1
    MaxNotices = 1
SPECIFICATION FairSpec
CHECK_DEADLOCK FALSE
PROPERTIES
    RequestsAreServed
    FinishedLeavesReady
    AllocationIsRetried
