SPECIFICATION Spec
CONSTANTS
    MAX_PIDS = 5
    KBD_CAPACITY = 1
    TICKS_PER_SWITCH = 1
    HEAP_ZEROED = TRUE
INVARIANTS
    TypeOK
    NoProcessLost
    QueueLinksExact
    FamilyTree
    NoSleepOnInput
    NoSleepOnZombie
PROPERTY ZombieFinal
CHECK_DEADLOCK FALSE
