SPECIFICATION Spec
CONSTANTS
    Occurrences = {o1}
    Workers = {w1, w2}
    OneShot = FALSE
    MaxAttempts = 2
    Threshold = 2
    MaxFaults = 0
    MaxLost = 0
    MaxByHand = 1
CHECK_DEADLOCK FALSE
INVARIANTS
    FirstEndCounts
