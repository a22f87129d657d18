SPECIFICATION FairSpec
CONSTANTS
    MAX_PIDS = 4
    KBD_CAPACITY = 2
    TICKS_PER_SWITCH = 2
    HEAP_ZEROED = TRUE
PROPERTIES
    ImplementsLifecycle
    RunnableRuns
    KilledStops
    ReaderServed
CHECK_DEADLOCK FALSE
