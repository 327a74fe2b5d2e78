CONSTANTS
    Threads = {t1, t2}
    BufferCount = 2
    MaxStreams = 2
    MaxBoots = 2
SPECIFICATION ShutdownSpec
INVARIANTS
    ThreadsJoined
CHECK_DEADLOCK FALSE
