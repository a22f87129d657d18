SPECIFICATION Spec
CONSTANTS
    MAX_PIDS = 3
    KBD_CAPACITY = 1
    TICKS_PER_SWITCH = 1
    HEAP_ZEROED = FALSE
INVARIANT QueueMemoryValid
CHECK_DEADLOCK FALSE
