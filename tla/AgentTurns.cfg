SPECIFICATION FairSpec
CONSTANTS
    m1 = m1  m2 = m2
    Messages = {m1, m2}
    MaxRuns = 3
    MaxStops = 1
    MaxPauses = 1
    MaxMishaps = 1
INVARIANTS
    TypeOK
    OneActiveRun
    NoneStranded
PROPERTIES
    EveryTurnSettles
CHECK_DEADLOCK FALSE
