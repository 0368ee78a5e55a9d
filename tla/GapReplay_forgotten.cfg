SPECIFICATION Spec
CONSTANTS
    Events = {1, 2}
    Guards = {g1, g2}
    None = None
    Batch = 1
    Skew = 2
    MaxAppends = 3
    MaxTrims = 1
    MaxFaults = 1
CHECK_DEADLOCK FALSE
INVARIANTS
    NothingForgotten
