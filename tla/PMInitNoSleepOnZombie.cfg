SPECIFICATION Spec
CONSTANTS
    MAX_PIDS = 5
    KBD_CAPACITY = 1
    TICKS_PER_SWITCH = 1
    HEAP_ZEROED = TRUE
INVARIANT InitNoSleepOnZombie
CHECK_DEADLOCK FALSE
