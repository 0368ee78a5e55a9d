SPECIFICATION FairSpec
CONSTANTS
    Events = {1, 2}
    Guards = {g1}
    None = None
    Batch = 1
    Skew = 2
    MaxAppends = 3
    MaxTrims = 1
    MaxFaults = 1
CHECK_DEADLOCK FALSE
PROPERTIES
    HandledWithoutTraffic
