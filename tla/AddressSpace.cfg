SPECIFICATION Spec
CONSTANTS
    FRAMES = 13
    RESERVED = {0, 3}
    Procs = {p1, p2}
    InitProc = p1
    VPAGES = 5
    FANOUT = 3
    Images <- MCImages
    InitImage <- MCInitImage
INVARIANTS
    TypeOK
    FramesExclusive
    FramesAccounted
    Cr3Held
    HeapMapped
CHECK_DEADLOCK FALSE
