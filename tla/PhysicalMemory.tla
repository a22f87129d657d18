--------------------------- MODULE PhysicalMemory ---------------------------
(***************************************************************************)
(* The physical page allocator, kernel/mm/pmm/pmm_bitmap.c.  The bitmap is *)
(* the set of the frames whose bit is set; frame i is physical address     *)
(* i * REGULAR_PAGE_SIZE, so that frame 0 and NULL are the same address.   *)
(***************************************************************************)
EXTENDS Integers, FiniteSetsExt

CONSTANT FRAMES      \* g_bitmap.bit_count

ASSUME FramesAssumption == FRAMES \in Nat \ {0}

NULL  == 0
NEVER == -1          \* no answer
Frame == 0 .. (FRAMES - 1)

(* bitmap_get_bit_value is -1, hence true, for a frame out of range. *)
IsUsed(used, i) == i \notin Frame \/ i \in used

(* What an allocation returns and leaves in the bitmap. *)
Grant(used, i, count) == [frame |-> i, used |-> used \cup (i .. (i + count - 1))]
Refusal(used)         == [frame |-> NULL, used |-> used]
Endless(used)         == [frame |-> NEVER, used |-> used]

AllocPastEnd(used) ==                                               \* mutant
    IF (0 .. FRAMES) \subseteq used THEN Refusal(used)
    ELSE Grant(used, Min((0 .. FRAMES) \ used), 1)
pmm_alloc_page(used) ==
    IF Frame \subseteq used THEN Refusal(used)
    ELSE Grant(used, Min(Frame \ used), 1)

(* The outer loop resumes behind the used frame the inner loop met.  With a *)
(* count above bit_count its bound wraps around, and as every frame behind  *)
(* the last counts as used, it goes on over some 2^64 of them.              *)
SkipWholeRun(used, count) ==                                        \* mutant
    LET free(i) == \A j \in i .. (i + count - 1) : ~ IsUsed(used, j)
        from[i \in 0 .. (FRAMES + count)] ==
            IF i > FRAMES - count THEN Refusal(used)
            ELSE IF free(i) THEN Grant(used, i, count)
            ELSE from[i + count]
    IN from[0]
pmm_alloc_pages(used, count) ==
    LET run(i)  == i .. (i + count - 1)
        busy(i) == {j \in run(i) : IsUsed(used, j)}
        from[i \in 0 .. (FRAMES + 1)] ==
            IF i > FRAMES - count THEN Refusal(used)
            ELSE IF busy(i) = {} THEN Grant(used, i, count)
            ELSE from[Min(busy(i)) + 1]
    IN IF count > FRAMES THEN Endless(used) ELSE from[0]

pmm_free_pages(used, i, count) == used \ (i .. (i + count - 1))

=============================================================================
