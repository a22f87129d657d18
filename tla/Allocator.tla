------------------------------ MODULE Allocator ------------------------------
(***************************************************************************)
(* What kmalloc and kfree promise to the rest of the kernel: a caller that *)
(* asks for memory owns a piece of at least that size until it frees it,   *)
(* and what two callers own never overlaps.  Where the pieces are, and     *)
(* what is kept between them, is left open.                                *)
(***************************************************************************)
EXTENDS Integers

CONSTANTS
    MEMORY,    \* units of memory
    REQUESTS   \* sizes that are asked for

VARIABLES
    owned,     \* the pieces of the callers
    stopped    \* the kernel ran out of memory and has stopped

vars == <<owned, stopped>>

Piece == [at : 0 .. (MEMORY - 1), size : 0 .. MEMORY]
Units(p) == p.at .. (p.at + p.size - 1)

Init == owned = {} /\ stopped = FALSE

(* The caller comes to own one piece more, wherever it is. *)
Allocate(size) ==
    /\ ~ stopped
    /\ \E p \in owned' :
          /\ owned' = owned \cup {p}
          /\ p \in Piece /\ p.size >= size
          /\ Units(p) \subseteq 0 .. (MEMORY - 1)
          /\ \A q \in owned : Units(p) \cap Units(q) = {}
    /\ UNCHANGED stopped

Stop == ~ stopped /\ stopped' = TRUE /\ UNCHANGED owned

Release(p) == ~ stopped /\ owned' = owned \ {p} /\ UNCHANGED stopped

Next == \/ \E size \in REQUESTS : Allocate(size)
        \/ \E p \in owned : Release(p)
        \/ Stop

Spec == Init /\ [][Next]_vars

=============================================================================
