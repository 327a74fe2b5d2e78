CONSTANTS
    Threads = {t1, t2, t3}
    Worker = worker
    Subscriptions = {s1, s2}
    Events = {e1}
    NULL = NULL
    MaxSubscribers = 2
    QueueCapacity = 1
    MaxPublishes = 2
    ExclusiveStart = FALSE
SPECIFICATION Spec
SYMMETRY FullSymmetry
INVARIANTS
    StoppedIsDrained
CHECK_DEADLOCK FALSE
