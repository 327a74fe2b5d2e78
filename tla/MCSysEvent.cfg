CONSTANTS
    Threads = {t1, t2, t3}
    Worker = worker
    Subscriptions = {s1, s2}
    Events = {e1}
    NULL = NULL
    MaxSubscribers = 2
    QueueCapacity = 2
    MaxPublishes = 3
    ExclusiveStart = TRUE
SPECIFICATION LiveSpec
INVARIANTS
    TypeOK
    InFlightExact
    NoUseAfterFree
    NoLostWakeup
    StoppedIsQuiet
PROPERTIES
    WaitsReturn
CHECK_DEADLOCK FALSE
