CONSTANTS
    Threads = {t1, t2}
    BufferCount = 2
    MaxStreams = 2
    MaxBoots = 2
SPECIFICATION StreamSpec
INVARIANTS
    TypeOK
    NoUseAfterFree
    StoppedIsClean
PROPERTIES
    CallsReturn
CHECK_DEADLOCK FALSE
