CONSTANTS
    Threads = {t1, t2, t3}
    Buffers = {b1, b2}
    NULL = NULL
    SIZE_MAX = 3
    UINT_MAX = 9
    Timeouts = {"timed"}
    Configs <- FailAndDrop
    MaxCalls = 4
SPECIFICATION Spec
SYMMETRY ThreadAndBufferSymmetry
INVARIANTS
    TypeOK
    MessagesConserved
    ReferenceCountsExact
    NoLostWakeup
    NoUseAfterFree
PROPERTIES
    ImplementsFifo
CHECK_DEADLOCK FALSE
