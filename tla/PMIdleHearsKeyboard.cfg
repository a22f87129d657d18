SPECIFICATION FairSpec
CONSTANTS
    MAX_PIDS = 3
    KBD_CAPACITY = 1
    TICKS_PER_SWITCH = 1
    HEAP_ZEROED = TRUE
PROPERTY IdleHearsKeyboard
CHECK_DEADLOCK FALSE
