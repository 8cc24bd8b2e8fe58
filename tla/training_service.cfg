CONSTANTS
    r1 = r1
    r2 = r2
    d1 = d1
    d2 = d2
    Creations = {r1, r2}
    Deletions = {d1, d2}
    Categories = {"mnist", "bert"}
    GpuTypes = {"V100", "T4"}
    HalfDay = 1
    MaxTime = 2
    MaxFailures = 2
SPECIFICATION Spec
CHECK_DEADLOCK FALSE
SYMMETRY RequestSymmetry
INVARIANTS
    CreatedIsServed
    RefusedLeavesNothing
    DeletedIsDropped
