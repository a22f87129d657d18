----------------------------- MODULE KernelHeap -----------------------------
(***************************************************************************)
(* The kernel heap, kernel/mm/heap/heap.c, down to its linked lists.       *)
(*                                                                         *)
(* Memory is counted in units of sizeof(struct memory_block), 32 bytes: a  *)
(* header takes one unit and ALIGN_UP makes every request a whole number   *)
(* of them.  A block is named by the unit its header is in; unit           *)
(* f * PAGE is the first of frame f.                                       *)
(***************************************************************************)
EXTENDS PhysicalMemory

CONSTANTS
    PAGE,      \* units of a page (REGULAR_PAGE_SIZE / 32)
    RESERVED,  \* frames that are not usable when the kernel starts
    SIZES      \* sizes the kernel asks for, in units

ASSUME PageAssumption     == PAGE \in Nat /\ PAGE >= 2
ASSUME ReservedAssumption == RESERVED \subseteq Frame /\ 0 \in RESERVED
                             /\ RESERVED # Frame
ASSUME SizesAssumption    == SIZES \subseteq Nat \ {0}

VARIABLES
    used,            \* the PMM's bitmap
    block_size,      \* the fields of the header in each unit
    next,
    prev,
    g_super_blocks,
    g_free_blocks,
    g_free_block_tail,
    allocated,       \* blocks the callers of kmalloc own
    kernel           \* "up"; "oom" and "unknown block": panicked; "stuck": in
                     \* a search for pages that does not end

vars == <<used, block_size, next, prev, g_super_blocks, g_free_blocks,
          g_free_block_tail, allocated, kernel>>

Unit  == 0 .. (FRAMES * PAGE - 1)
MAX_SMALL == PAGE - 1        \* REGULAR_PAGE_SIZE - sizeof(struct memory_block)

TypeOK ==
    /\ used \in SUBSET Frame
    /\ block_size \in [Unit -> 0 .. (FRAMES * PAGE)]
    /\ next \in [Unit -> Unit] /\ prev \in [Unit -> Unit]
    /\ {g_super_blocks, g_free_blocks, g_free_block_tail} \subseteq Unit
    /\ allocated \in SUBSET Unit
    /\ kernel \in {"up", "oom", "stuck", "unknown block"}

(* init_kernel_heap *)
Init ==
    LET got == pmm_alloc_page(RESERVED) IN
    /\ used = got.used
    /\ block_size = [u \in Unit |-> IF u = got.frame * PAGE THEN MAX_SMALL ELSE 0]
    /\ next = [u \in Unit |-> NULL]
    /\ prev = [u \in Unit |-> NULL]
    /\ g_super_blocks = got.frame * PAGE
    /\ g_free_blocks = NULL
    /\ g_free_block_tail = NULL
    /\ allocated = {}
    /\ kernel = "up"

-----------------------------------------------------------------------------
(* The lists, as a record of the memory they live in. *)
Heap == [size |-> block_size, next |-> next, prev |-> prev,
         super |-> g_super_blocks, free |-> g_free_blocks,
         tail |-> g_free_block_tail, state |-> kernel]

Store(h) ==
    /\ block_size' = h.size /\ next' = h.next /\ prev' = h.prev
    /\ g_super_blocks' = h.super /\ g_free_blocks' = h.free
    /\ g_free_block_tail' = h.tail /\ kernel' = h.state

(* p->field = v, where p may be NULL: then nothing is written. *)
Set(f, p, v) == IF p = NULL THEN f ELSE [f EXCEPT ![p] = v]

(* The loop over a list, which has at most one block per unit. *)
find_big_enough_block(blocks, size) ==
    LET curr_block[n \in 0 .. (FRAMES * PAGE)] ==
            IF n = 0 THEN blocks
            ELSE LET b == curr_block[n - 1] IN
                 IF b = NULL \/ block_size[b] >= size THEN b ELSE next[b]
    IN curr_block[FRAMES * PAGE]

KeepTail(h, b) ==                                                   \* mutant
    IF h.prev[b] = NULL THEN
        [h EXCEPT !.free  = IF b = h.free THEN h.next[b] ELSE @,
                  !.super = IF b = h.super THEN h.next[b] ELSE @,
                  !.prev  = Set(h.prev, h.next[b], NULL)]
    ELSE [h EXCEPT !.next = Set(@, h.prev[b], h.next[b]),
                   !.prev = Set(@, h.next[b], h.prev[b])]
remove_memory_block_from_list(h, b) ==
    IF h.prev[b] = NULL THEN
        IF b = h.free THEN
            [h EXCEPT !.free = h.next[b], !.prev = Set(h.prev, h.next[b], NULL),
                      !.tail = IF h.next[b] = NULL THEN NULL ELSE @]
        ELSE IF b = h.super THEN
            [h EXCEPT !.super = h.next[b], !.prev = Set(h.prev, h.next[b], NULL)]
        ELSE [h EXCEPT !.state = "unknown block"]
    ELSE [h EXCEPT !.next = Set(@, h.prev[b], h.next[b]),
                   !.prev = Set(@, h.next[b], h.prev[b]),
                   !.tail = IF h.next[b] = NULL /\ b = h.tail THEN h.prev[b] ELSE @]

replace_memory_block_in_list(h, old, new) ==
    LET linked == [h EXCEPT
            !.next = Set([h.next EXCEPT ![new] = h.next[old]], h.prev[old], new),
            !.prev = Set([h.prev EXCEPT ![new] = h.prev[old]], h.next[old], new),
            !.tail = IF h.next[old] = NULL /\ old = h.tail THEN new ELSE @]
    IN IF h.prev[old] # NULL THEN linked
       ELSE IF old = h.free THEN [linked EXCEPT !.free = new]
       ELSE IF old = h.super THEN [linked EXCEPT !.super = new]
       ELSE [h EXCEPT !.state = "unknown block"]

(* A block is split unless the rest would be hardly more than a header. *)
Split(h, b, size, left) ==
    LET rest == b + 1 + size IN
    replace_memory_block_in_list(
        [h EXCEPT !.size = [@ EXCEPT ![rest] = left, ![b] = size]], b, rest)

AlwaysSplit(h, b, size) == Split(h, b, size, h.size[b] - (size + 1)) \* mutant
ForgetHeader(h, b, size) ==                                         \* mutant
    IF h.size[b] <= size + 2 THEN remove_memory_block_from_list(h, b)
    ELSE Split(h, b, size, h.size[b] - size)
malloc_from_block(h, b, size) ==
    IF h.size[b] <= size + 2 THEN remove_memory_block_from_list(h, b)
    ELSE Split(h, b, size, h.size[b] - (size + 1))

(* A page of its own, at the head of the super blocks. *)
NewSuperBlock(h, b) ==
    [h EXCEPT !.size[b] = MAX_SMALL, !.next[b] = h.super,
              !.prev = Set([h.prev EXCEPT ![b] = NULL], h.super, b),
              !.super = b]

-----------------------------------------------------------------------------
OutOfMemory(got) ==
    /\ kernel' = (IF got.frame = NULL THEN "oom" ELSE "stuck") /\ used' = got.used
    /\ UNCHANGED <<block_size, next, prev, g_super_blocks, g_free_blocks,
                   g_free_block_tail, allocated>>

Carve(h, b, size) ==
    /\ Store(malloc_from_block(h, b, size))
    /\ allocated' = allocated \cup {b}

(* kmalloc of at most a page less its header: freed blocks first, then the  *)
(* super blocks, then a new page.                                           *)
kmalloc(size) ==
    LET inFree  == find_big_enough_block(g_free_blocks, size)
        inSuper == find_big_enough_block(g_super_blocks, size)
        got     == pmm_alloc_pages(used, 1)
    IN
    /\ kernel = "up" /\ size <= MAX_SMALL
    /\ \/ /\ inFree # NULL
          /\ Carve(Heap, inFree, size)
          /\ UNCHANGED used
       \/ /\ inFree = NULL /\ inSuper # NULL
          /\ Carve(Heap, inSuper, size)
          /\ UNCHANGED used
       \/ /\ inFree = NULL /\ inSuper = NULL /\ got.frame # NULL
          /\ Carve(NewSuperBlock(Heap, got.frame * PAGE), got.frame * PAGE, size)
          /\ used' = got.used
       \/ /\ inFree = NULL /\ inSuper = NULL /\ got.frame = NULL
          /\ OutOfMemory(got)

(* Whole pages, straight from the PMM. *)
PagesFor(size) == (size + 1 + PAGE - 1) \div PAGE

malloc_largeblock(size) ==
    LET got == pmm_alloc_pages(used, PagesFor(size))
        b   == got.frame * PAGE
    IN
    /\ kernel = "up" /\ size > MAX_SMALL
    /\ \/ /\ got.frame \notin {NULL, NEVER}
          /\ block_size' = [block_size EXCEPT ![b] = PagesFor(size) * PAGE - 1]
          /\ next' = [next EXCEPT ![b] = NULL]
          /\ prev' = [prev EXCEPT ![b] = NULL]
          /\ used' = got.used
          /\ allocated' = allocated \cup {b}
          /\ UNCHANGED <<g_super_blocks, g_free_blocks, g_free_block_tail, kernel>>
       \/ /\ got.frame \in {NULL, NEVER}
          /\ OutOfMemory(got)

(* kfree tells the two kinds apart by the size in the header, and puts a    *)
(* small block behind the tail of the freed ones.                           *)
kfree(b) ==
    /\ kernel = "up" /\ b \in allocated /\ block_size[b] <= MAX_SMALL
    /\ next' = Set([next EXCEPT ![b] = NULL],
                   IF g_free_blocks = NULL THEN NULL ELSE g_free_block_tail, b)
    /\ prev' = [prev EXCEPT ![b] = IF g_free_blocks = NULL THEN NULL ELSE g_free_block_tail]
    /\ g_free_blocks' = IF g_free_blocks = NULL THEN b ELSE g_free_blocks
    /\ g_free_block_tail' = b
    /\ allocated' = allocated \ {b}
    /\ UNCHANGED <<used, block_size, g_super_blocks, kernel>>

free_largeblock(b) ==
    /\ kernel = "up" /\ b \in allocated /\ block_size[b] > MAX_SMALL
    /\ used' = pmm_free_pages(used, b \div PAGE, (block_size[b] + 1) \div PAGE)
    /\ allocated' = allocated \ {b}
    /\ UNCHANGED <<block_size, next, prev, g_super_blocks, g_free_blocks,
                   g_free_block_tail, kernel>>

Next ==
    \/ \E size \in SIZES : kmalloc(size) \/ malloc_largeblock(size)
    \/ \E b \in allocated : kfree(b) \/ free_largeblock(b)

Spec == Init /\ [][Next]_vars

-----------------------------------------------------------------------------
(* Properties. *)

(* The blocks from h on. *)
Chain(h) ==
    LET reach[n \in 0 .. (FRAMES * PAGE)] ==
            IF n = 0 THEN {h} \ {NULL}
            ELSE LET near == reach[n - 1] IN near \cup ({next[b] : b \in near} \ {NULL})
    IN reach[FRAMES * PAGE]

Supers == Chain(g_super_blocks)
Frees  == Chain(g_free_blocks)

DoublyLinked(h) ==
    /\ h # NULL => prev[h] = NULL
    /\ \A b \in Chain(h) : next[b] # NULL => prev[next[b]] = b

(* Removing, replacing and appending blocks, in any order and at any place, *)
(* keep both lists doubly linked and apart, and the tail at the last freed  *)
(* block; so the "Unknown memory block" panics are out of reach.            *)
ListsIntact ==
    /\ kernel # "unknown block"
    /\ DoublyLinked(g_super_blocks) /\ DoublyLinked(g_free_blocks)
    /\ Supers \cap Frees = {} /\ (Supers \cup Frees) \cap allocated = {}
    /\ g_free_blocks # NULL => g_free_block_tail \in Frees /\ next[g_free_block_tail] = NULL

Extent(b) == b .. (b + block_size[b])

(* Live blocks, on a list or with a caller, never overlap, and together     *)
(* they fill exactly the pages the heap has taken from the PMM: nothing is  *)
(* handed out twice and no unit is lost.                                    *)
BlocksTile ==
    LET blocks == Supers \cup Frees \cup allocated
        pages  == used \ RESERVED
    IN kernel = "up" =>
       /\ \A a, b \in blocks : a # b => Extent(a) \cap Extent(b) = {}
       /\ UNION {Extent(b) : b \in blocks} = {u \in Unit : u \div PAGE \in pages}

=============================================================================
