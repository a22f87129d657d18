SPECIFICATION Spec
CONSTANTS
    FRAMES = 13
    RESERVED = {0, 3}
    Procs = {p1, p2, p3}
    InitProc = p1
    VPAGES = 5
    FANOUT = 3
    Images = {}
    InitImage <- MCInitImage
INVARIANT EveryPageBacked
CHECK_DEADLOCK FALSE
