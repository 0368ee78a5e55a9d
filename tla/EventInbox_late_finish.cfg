SPECIFICATION Spec
CONSTANTS
    g1 = g1  g2 = g2  r1 = r1  r2 = r2  c1 = c1  c2 = c2
    Groups = {g1}
    Messages = {m1}
    Malformed = {}
    EventIds = {e1}
    EventOf <- MCOneEvent
    Readers = {r1}
    Reclaimers = {c1}
    GroupOf <- MCOneGroup
    None = None
    MaxAttempts = 2
    MaxDeliveries = 2
    MinIdle = 1
    AbandonAfter = 1
    HandlerTimeout = 1
    MaxFaults = 0
PROPERTIES
    SettledIsFinal
