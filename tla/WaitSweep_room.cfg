SPECIFICATION SweepSpec
CONSTANTS
    t1 = t1  t2 = t2  f = f  m = m
    Waits = {t1, t2, f, m}
    KindOf <- MCKindOf
    Batch = 2
    After = 1
    MachineCeiling = 2
    HumanCeiling = 3
    Horizon = 5
SYMMETRY MCSymmetry
CHECK_DEADLOCK FALSE
INVARIANTS
    NoneOverstays
    LostWakeIsRecovered
