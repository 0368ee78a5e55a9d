SPECIFICATION Spec
CONSTANTS
    m1 = m1  m2 = m2
    Messages = {m1, m2}
    MaxRuns = 3
    MaxStops = 1
    MaxPauses = 0
    MaxMishaps = 1
INVARIANTS
    ActiveRunShows
CHECK_DEADLOCK FALSE
