SPECIFICATION FairSpec
CONSTANTS
    Events = {1}
    Dispatchers = {d1, d2}
    NoOwner = NoOwner
    BatchSize = 1
    MaxAttempts = 2
    MaxCrashes = 0
    MaxFaults = 0
    MaxOverruns = 0
    MaxReplays = 0
    MaxPauses = 0
    SlowBus = TRUE
PROPERTIES
    EventuallySettled
