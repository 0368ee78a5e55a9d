SPECIFICATION FairSpec
CONSTANTS
    m1 = m1  m2 = m2
    Messages = {m1, m2}
    MaxRuns = 3
    MaxStops = 0
    MaxPauses = 1
    MaxMishaps = 0
PROPERTIES
    WaitingLosesNothing
CHECK_DEADLOCK FALSE
