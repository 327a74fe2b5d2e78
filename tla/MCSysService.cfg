CONSTANTS
    Threads = {t1, t2, t3, t4}
    Slots = {s1, s2}
    Keys = {k1, k2}
    Abis = {v1, v2}
    Ops = {o1, o2}
    NULL = NULL
    SIZE_MAX = 2
    ExclusiveUnregister = TRUE
    ExclusiveReset = TRUE
SPECIFICATION LiveSpec
INVARIANTS
    TypeOK
    NoDanglingReference
    ReferencesExact
    KeysUnique
    NoLostWakeup
    ClosedBeforeWaiting
PROPERTIES
    TeardownReturns
CHECK_DEADLOCK FALSE
