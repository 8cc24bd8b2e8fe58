CONSTANTS
    j1 = j1
    j2 = j2
    j3 = j3
    Jobs = {j1, j2}
    TotalGpus = 3
    MinProc <- MinOne
    MaxProc <- MaxTwo
    Unqueued = {j1, j2}
    MaxCrashes = 1
    MaxFaults = 0
    MaxNotices = 1
SPECIFICATION Spec
CHECK_DEADLOCK FALSE
SYMMETRY JobSymmetry
INVARIANTS
    TypeOK
    MapsConsistent
    ActiveIsAccounted
    WithinCapacity
