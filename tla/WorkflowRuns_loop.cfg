SPECIFICATION Spec
CONSTANTS
    j1 = j1
    j2 = j2
    Jobs = {j1, j2}
    Sweep = sweep
    None = none
    Flow <- Loop
    Ceiling = FALSE
    MaxCrashes = 0
CHECK_DEADLOCK FALSE
INVARIANTS
    OwnOutput
