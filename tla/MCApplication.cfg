CONSTANTS
    Main = main
    Helper = helper
    Threads = {main, helper}
    Worker = worker
    Components = {1, 2}
    LastPhase = 0
    Images <- MCImages
    Providers = {1}
    Subscribers = {2}
    Producers = {1}
    Camera = 1
    Checked = {1}
    Handles = {1, worker}
    Tasks = {main, helper, worker, 1}
    Signals = {SIGTERM}
    NULL = NULL
    MaxStops = 1
    MaxStarts = 1
    MaxPublishes = 1
SPECIFICATION LiveSpec
INVARIANTS
    TypeOK
    CoreStateTruthful
    FrameworkKeepsTheRules
    EntriesIntoAlive
    ThreadsAccounted
    EndsInOrder
PROPERTIES
    ProcessEnds
