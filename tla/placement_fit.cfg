CONSTANTS
    j1 = j1
    j2 = j2
    j3 = j3
    n1 = n1
    n2 = n2
    Jobs = {j1, j2}
    Nodes = {n1, n2}
    Gpus <- TwoEach
    MaxWorkers = 2
    MaxNodeChanges = 0
    MaxRestarts = 0
SPECIFICATION Spec
CHECK_DEADLOCK FALSE
SYMMETRY NodeSymmetry
INVARIANTS
    OvercommittedOnlyIfSplit
    PlacedAsRequested
