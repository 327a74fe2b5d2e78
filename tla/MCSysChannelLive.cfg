CONSTANTS
    Threads = {t1, t2}
    Buffers = {b1, b2}
    NULL = NULL
    SIZE_MAX = 9
    UINT_MAX = 9
    Timeouts = {"zero", "timed", "forever"}
    Configs <- Fail
    MaxCalls = 3
SPECIFICATION LiveSpec
PROPERTIES
    CallsReturn
CHECK_DEADLOCK FALSE
