SPECIFICATION Spec
CONSTANTS
    Procs = {p1, p2}
    InitProc = p1
    Files = {tty, f1, f2}
    Tty = tty
    NULL = NULL
    MAX_FDS = 4
    FILE_SIZE = 2
    WORD = 6
    COUNTS = {1, 2, 5}
    OFFSETS <- SmallOffsets
CONSTRAINT MovedAlone
SYMMETRY FileSymmetry
INVARIANTS
    TypeOK
    RefCountExact
    LiveWhileUsed
    PositionInFile
CHECK_DEADLOCK FALSE
