SPECIFICATION FairSpec
CONSTANTS
    Occurrences = {o1}
    Workers = {w1, w2}
    OneShot = FALSE
    MaxAttempts = 2
    Threshold = 2
    MaxFaults = 2
    MaxLost = 1
    MaxByHand = 1
CHECK_DEADLOCK FALSE
INVARIANTS
    TypeOK
    StartedOnce
    OutcomeIsTruth
    NoneStranded
    BreakerTracksLedger
PROPERTIES
    EveryFireConcludes
