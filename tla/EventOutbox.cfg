SPECIFICATION FairSpec
CONSTANTS
    Events = {1}
    Dispatchers = {d1, d2}
    NoOwner = NoOwner
    BatchSize = 2
    MaxAttempts = 2
    MaxCrashes = 1
    MaxFaults = 1
    MaxOverruns = 2
    MaxReplays = 2
    MaxPauses = 1
    SlowBus = FALSE
INVARIANTS
    TypeOK
    DuplicatesExplained
    DeadLetterIsEarned
PROPERTIES
    EventuallySettled
    KeepsPromise
