SPECIFICATION Spec
CONSTANTS
    Procs = {p1, p2}
    First = p1
INVARIANT RegistersKept
CHECK_DEADLOCK FALSE
