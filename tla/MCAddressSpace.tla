--------------------------- MODULE MCAddressSpace ---------------------------
(* Address spaces of five pages on a small physical memory.                  *)
EXTENDS AddressSpace

Seg(start, count) == [start |-> start, count |-> count]

(* One segment, two segments, one that reaches into the stack page, and two *)
(* that overlap.                                                            *)
MCImages == {<<Seg(1, 1)>>, <<Seg(0, 1), Seg(1, 1)>>,
             <<Seg(4, 1)>>, <<Seg(1, 2), Seg(2, 1)>>}
MCInitImage == <<Seg(1, 1)>>
=============================================================================
