CONSTANTS
    j1 = j1
    j2 = j2
    j3 = j3
    n1 = n1
    n2 = n2
    Jobs = {j1}
    Nodes = {n1, n2}
    Gpus <- OneEach
    MaxWorkers = 2
    MaxNodeChanges = 2
    MaxRestarts = 1
SPECIFICATION FairSpec
CHECK_DEADLOCK FALSE
INVARIANTS
    TypeOK
    PerspectivesAgree
    SlotsSumUp
    PodsFollowTable
PROPERTIES
    PlaceEnds
