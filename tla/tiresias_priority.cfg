CONSTANTS
    j1 = j1
    j2 = j2
    Jobs = {j1, j2}
    NumProc <- TwoEach
    TotalGpus = 2
    Threshold = 2
    PromoteKnob = 2
    UserPriorities = {0, 2}
    Interval = 1
    MaxTime = 8
    MaxCrashes = 1
SPECIFICATION Spec
CHECK_DEADLOCK FALSE
SYMMETRY JobSymmetry
INVARIANTS
    TimeIsAccounted
    StarvationIsBounded
PROPERTIES
    DemotionIsEarned
