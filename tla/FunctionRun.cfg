SPECIFICATION FairSpec
CONSTANTS
    Dispatchers = {d1, d2}
    MaxCrashes = 1
\* A run that ended is left alone.
CHECK_DEADLOCK FALSE
INVARIANTS
    TypeOK
    StartedOnce
    EndedOnce
    CompletedRan
PROPERTIES
    EveryRunEnds
