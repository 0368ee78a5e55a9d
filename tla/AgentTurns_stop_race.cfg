SPECIFICATION Spec
CONSTANTS
    m1 = m1  m2 = m2
    Messages = {m1}
    MaxRuns = 3
    MaxStops = 1
    MaxPauses = 0
    MaxMishaps = 0
PROPERTIES
    StopIsHonoured
CHECK_DEADLOCK FALSE
