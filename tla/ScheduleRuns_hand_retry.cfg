SPECIFICATION FairSpec
CONSTANTS
    Occurrences = {o1}
    Workers = {w1}
    OneShot = TRUE
    MaxAttempts = 2
    Threshold = 2
    MaxFaults = 1
    MaxLost = 0
    MaxByHand = 1
CHECK_DEADLOCK FALSE
PROPERTIES
    HandRetryRuns
