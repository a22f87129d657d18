SPECIFICATION Spec
CONSTANTS
    FRAMES = 4
    PAGE = 6
    RESERVED = {0}
    SIZES = {1, 2, 4, 6, 24}
VIEW HeapView
INVARIANTS
    TypeOK
    ListsIntact
    BlocksTile
PROPERTY ImplementsAllocator
CHECK_DEADLOCK FALSE
