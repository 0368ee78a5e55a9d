SPECIFICATION Spec
CONSTANTS
    Occurrences = {o1, o2, o3}
    Workers = {w1}
    OneShot = FALSE
    MaxAttempts = 1
    Threshold = 2
    MaxFaults = 0
    MaxLost = 0
    MaxByHand = 1
SYMMETRY MCSymmetry
CHECK_DEADLOCK FALSE
PROPERTIES
    FreshAfterReactivation
