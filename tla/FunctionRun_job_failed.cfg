SPECIFICATION Spec
CONSTANTS
    Dispatchers = {d1}
    MaxCrashes = 0
CHECK_DEADLOCK FALSE
INVARIANTS
    JobSettledByRuntime
