CONSTANTS
    j1 = j1
    j2 = j2
    j3 = j3
    Jobs = {j1}
    TotalGpus = 1
    MinProc <- MinOne
    MaxProc <- MaxTwo
    Unqueued = {}
    MaxCrashes = 1
    MaxFaults = 0
    MaxNotices = 1
SPECIFICATION Spec
CHECK_DEADLOCK FALSE
INVARIANTS
    StatusAlwaysMatches
