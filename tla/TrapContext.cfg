SPECIFICATION Spec
CONSTANTS
    Procs = {p1, p2, p3}
    First = p1
INVARIANTS
    TypeOK
    GsMatches
    BlockedRestarts
    NoSwitchInRing0
CHECK_DEADLOCK FALSE
