CONSTANTS
    Threads = {t1, t2, t3}
    Slots = {s1, s2}
    Keys = {k1, k2}
    Abis = {v1}
    Ops = {o1, o2}
    NULL = NULL
    SIZE_MAX = 2
    ExclusiveUnregister = FALSE
    ExclusiveReset = TRUE
SPECIFICATION Spec
SYMMETRY FullSymmetry
INVARIANTS
    ClosedBeforeWaiting
CHECK_DEADLOCK FALSE
