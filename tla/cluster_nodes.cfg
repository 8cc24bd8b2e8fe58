CONSTANTS
    n1 = n1
    n2 = n2
    Nodes = {n1, n2}
    Sizes = {1, 2}
    MaxChanges = 3
    MaxDisconnects = 1
    MaxFailures = 1
    MaxRestarts = 1
SPECIFICATION FairSpec
CHECK_DEADLOCK FALSE
INVARIANTS
    CountIsExact
    NegativeIsExplained
PROPERTIES
    CountSettles
