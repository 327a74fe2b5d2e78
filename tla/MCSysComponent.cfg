CONSTANTS
    Components = {1, 2, 3}
    LastPhase = 1
    Images <- MCImages
    NULL = NULL
SPECIFICATION LiveSpec
INVARIANTS
    TypeOK
    DependenciesRunning
    RequiredDependenciesAlive
    TakenDownOnce
    UpIsComplete
PROPERTIES
    FailuresKept
    LifecycleReturns
