SPECIFICATION FairSpec
CONSTANTS
    j1 = j1
    j2 = j2
    Jobs = {j1, j2}
    Sweep = sweep
    None = none
    Flow <- Chain
    Ceiling = TRUE
    MaxCrashes = 1
CHECK_DEADLOCK FALSE
INVARIANTS
    TypeOK
    OneLiveWait
    OwnOutput
    DispatchedOnce
    EndedOnce
PROPERTIES
    EveryRunEnds
