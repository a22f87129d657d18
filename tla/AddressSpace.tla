---------------------------- MODULE AddressSpace ----------------------------
(***************************************************************************)
(* The address spaces of processes and the frames behind them:             *)
(* kernel/mm/vmm/vmm.c and its users pm_fork, pm_execve and pm_wait        *)
(* (process_manager.c), the ELF loader and sys_brk (syscall_memops.c).     *)
(*                                                                         *)
(* The four levels of x86-64 page tables are folded into two: a root and   *)
(* tables of FANOUT pages.  Page contents are left out; what matters is    *)
(* which frame an entry holds, and who else holds it.                      *)
(***************************************************************************)
EXTENDS PhysicalMemory, Sequences

CONSTANTS
    Procs,
    InitProc,    \* the process the kernel starts
    RESERVED,    \* frames in use before the first process
    VPAGES,      \* user pages of an address space; the last one is the stack
    FANOUT,      \* pages a table maps
    Images,      \* ELF files: sequences of segments [start, count]
    InitImage    \* /sbin/init

NONE   == -1     \* an entry whose raw value is 0
VPage  == 0 .. (VPAGES - 1)
Stack  == VPAGES - 1
Tables == 0 .. ((VPAGES - 1) \div FANOUT)
TableOf(v) == v \div FANOUT

ASSUME ProcsAssumption  == InitProc \in Procs
ASSUME ReservedAssumption == RESERVED \subseteq Frame /\ NULL \in RESERVED
ASSUME LayoutAssumption == VPAGES \in Nat /\ VPAGES > 1 /\ FANOUT \in Nat \ {0}
(* find_heap_start asserts that a program has a segment to load. *)
ASSUME ImagesAssumption ==
    \A im \in Images \cup {InitImage} :
        /\ im \in Seq([start : VPage, count : VPage \ {0}]) /\ im # <<>>
        /\ \A k \in DOMAIN im : im[k].start + im[k].count <= VPAGES
(* /sbin/init is linked far below its stack. *)
ASSUME InitImageAssumption ==
    \A k \in DOMAIN InitImage : InitImage[k].start + InitImage[k].count <= Stack

VARIABLES
    used,     \* the PMM's bitmap
    life,     \* "none", "live" or "zombie", for each process
    space,    \* its page tables
    brk,      \* process_heap_ptr, in half pages
    cr3,      \* the root the CPU uses
    lost,     \* frames in use that nothing leads to any more
    kernel    \* "up"; "stopped": panicked, or in a search for frames that does
              \* not end; "starved": the frame NULL was used as memory

vars == <<used, life, space, brk, cr3, lost, kernel>>

EmptySpace(root) == [root |-> root, table |-> [t \in Tables |-> NONE],
                     page |-> [v \in VPage |-> NONE]]

(* What an entry may point at: load_segment, when it is given the frame     *)
(* NULL, maps the frames from there on, and memory may end before them.     *)
PhysPage == 0 .. (FRAMES + VPAGES)

TypeOK ==
    /\ used \in SUBSET Frame
    /\ life \in [Procs -> {"none", "live", "zombie"}]
    /\ space \in [Procs -> [root : Frame, table : [Tables -> Frame \cup {NONE}],
                            page : [VPage -> PhysPage \cup {NONE}]]]
    /\ brk \in [Procs -> 0 .. (2 * VPAGES)]
    /\ cr3 \in Frame
    /\ lost \in SUBSET Frame
    /\ kernel \in {"up", "stopped", "starved"}

-----------------------------------------------------------------------------
(* A build of page tables: the space so far, the bitmap, and whether a      *)
(* check failed, an assertion did or an unchecked allocation returned NULL. *)
Build(u, s) == [used |-> u, space |-> s, result |-> "ok", starved |-> FALSE]

(* allocate_page_table_page asserts that it got a frame. *)
WithTable(b, v) ==
    LET got == pmm_alloc_page(b.used) IN
    IF b.space.table[TableOf(v)] # NONE THEN b
    ELSE IF got.frame = NULL THEN [b EXCEPT !.result = "stopped"]
    ELSE [b EXCEPT !.used = got.used, !.space.table[TableOf(v)] = got.frame]

vmm_map_page(b, v, frame, override) ==
    LET tabled == WithTable(b, v) IN
    IF tabled.result = "stopped" THEN tabled
    ELSE IF ~ override /\ b.space.page[v] # NONE THEN [tabled EXCEPT !.result = "taken"]
    ELSE [tabled EXCEPT !.space.page[v] = frame]

(* load_segment: a run of frames, not checked for NULL, mapped page by      *)
(* page; an overlap with an earlier segment is an assertion failure, and    *)
(* more pages than the memory has keep pmm_alloc_pages searching.           *)
load_segment(b, seg) ==
    LET got == pmm_alloc_pages(b.used, seg.count)
        start == [b EXCEPT !.used = got.used, !.starved = @ \/ got.frame = NULL]
        mapped[i \in 0 .. seg.count] ==
            IF i = 0 THEN start
            ELSE LET before == mapped[i - 1] IN
                 IF before.result # "ok" THEN before
                 ELSE vmm_map_page(before, seg.start + i - 1, got.frame + i - 1, FALSE)
        loaded == mapped[seg.count]
    IN IF got.frame = NEVER THEN [b EXCEPT !.result = "stopped"]
       ELSE [loaded EXCEPT !.result = IF @ = "taken" THEN "stopped" ELSE @]

load_binary_segments(b, image) ==
    LET loaded[k \in 0 .. Len(image)] ==
            IF k = 0 THEN b
            ELSE IF loaded[k - 1].result # "ok" THEN loaded[k - 1]
            ELSE load_segment(loaded[k - 1], image[k])
    IN loaded[Len(image)]

find_heap_start(image) == 2 * Max({image[k].start + image[k].count : k \in DOMAIN image})

(* vmm_create_new_pagemap, the segments, and a stack page that is not       *)
(* checked for NULL.                                                        *)
LoadProgram(u, image, override) ==
    LET root   == pmm_alloc_page(u)
        loaded == load_binary_segments(Build(root.used, EmptySpace(root.frame)), image)
        stack  == pmm_alloc_page(loaded.used)
    IN IF root.frame = NULL
       THEN [Build(root.used, EmptySpace(NULL)) EXCEPT !.result = "stopped"]
       ELSE IF loaded.result # "ok" THEN loaded
       ELSE vmm_map_page([loaded EXCEPT !.used = stack.used,
                                        !.starved = @ \/ stack.frame = NULL],
                         Stack, stack.frame, override)

(* Every frame a space holds: what recursive_pagemap_delete frees. *)
FramesOf(s) == {s.root} \cup ((Range(s.table) \cup Range(s.page)) \ {NONE})

DeleteKeepsTables(u, s) == u \ ({s.root} \cup Range(s.page))         \* mutant
vmm_delete_pagemap(u, s) == u \ FramesOf(s)

-----------------------------------------------------------------------------
(* recursive_pagemap_clone takes a frame for every entry, a table before    *)
(* its pages, and does not check for NULL.  Allocations are first fit, so   *)
(* they return the free frames in order until there are none.               *)
Nodes(s) == {<<t, NONE>> : t \in {x \in Tables : s.table[x] # NONE}}
            \cup {<<TableOf(v), v>> : v \in {x \in VPage : s.page[x] # NONE}}

Rank(s, n) == Cardinality({m \in Nodes(s) : m[1] < n[1] \/ (m[1] = n[1] /\ m[2] <= n[2])})

NthFree(u, k) ==
    IF k > Cardinality(Frame \ u) THEN NULL
    ELSE CHOOSE f \in Frame \ u : Cardinality({g \in Frame \ u : g <= f}) = k

CloneShares(u, s) ==                                                \* mutant
    LET root == pmm_alloc_page(u)
    IN IF root.frame = NULL
       THEN [Build(root.used, s) EXCEPT !.result = "stopped"]
       ELSE Build(root.used, [s EXCEPT !.root = root.frame])
vmm_clone_pagemap(u, s) ==
    LET root  == pmm_alloc_page(u)
        copy(n) == NthFree(root.used, Rank(s, n))
        new   == [root |-> root.frame,
                  table |-> [t \in Tables |-> IF s.table[t] = NONE THEN NONE
                                              ELSE copy(<<t, NONE>>)],
                  page  |-> [v \in VPage |-> IF s.page[v] = NONE THEN NONE
                                             ELSE copy(<<TableOf(v), v>>)]]
    IN IF root.frame = NULL
       THEN [Build(root.used, new) EXCEPT !.result = "stopped"]
       ELSE [Build(root.used \cup (FramesOf(new) \ {NULL}), new)
                EXCEPT !.starved = NULL \in FramesOf(new)]

State(b) == IF b.result = "stopped" THEN "stopped"
            ELSE IF b.starved THEN "starved" ELSE "up"

-----------------------------------------------------------------------------
(* init_process_manager *)
Init ==
    LET b == LoadProgram(RESERVED, InitImage, TRUE) IN
    /\ State(b) = "up"
    /\ used = b.used
    /\ life = [p \in Procs |-> IF p = InitProc THEN "live" ELSE "none"]
    /\ space = [p \in Procs |-> IF p = InitProc THEN b.space ELSE EmptySpace(NULL)]
    /\ brk = [p \in Procs |-> IF p = InitProc THEN find_heap_start(InitImage) ELSE 0]
    /\ cr3 = b.space.root
    /\ lost = {}
    /\ kernel = "up"

Running(p) == kernel = "up" /\ life[p] = "live" /\ cr3 = space[p].root

(* The switch to a process: vmm_reload_cr3 in pm_load_next_ready_process. *)
Run(p) ==
    /\ kernel = "up" /\ life[p] = "live"
    /\ cr3' = space[p].root
    /\ UNCHANGED <<used, life, space, brk, lost, kernel>>

Fork(p, c) ==
    LET b == vmm_clone_pagemap(used, space[p]) IN
    /\ Running(p) /\ life[c] = "none"
    /\ life'  = [life EXCEPT ![c] = "live"]
    /\ space' = [space EXCEPT ![c] = b.space]
    /\ brk'   = [brk EXCEPT ![c] = brk[p]]
    /\ used'  = b.used
    /\ kernel' = State(b)
    /\ UNCHANGED <<cr3, lost>>

(* pm_execve of an ELF file.  When the stack page is taken, the new tables  *)
(* are deleted and the frame meant for the stack is not given back.         *)
ExecveKeepsCr3(p, image) ==                                         \* mutant
    LET b == LoadProgram(used, image, FALSE) IN
    /\ Running(p) /\ b.result = "ok"
    /\ kernel' = State(b)
    /\ space' = [space EXCEPT ![p] = b.space]
    /\ used'  = vmm_delete_pagemap(b.used, space[p])
    /\ brk'   = [brk EXCEPT ![p] = find_heap_start(image)]
    /\ UNCHANGED <<life, cr3, lost>>
Execve(p, image) ==
    LET b == LoadProgram(used, image, FALSE) IN
    /\ Running(p)
    /\ kernel' = State(b)
    /\ \/ /\ b.result = "ok"
          /\ space' = [space EXCEPT ![p] = b.space]
          /\ used'  = vmm_delete_pagemap(b.used, space[p])
          /\ brk'   = [brk EXCEPT ![p] = find_heap_start(image)]
          /\ cr3'   = b.space.root
          /\ UNCHANGED <<life, lost>>
       \/ /\ b.result = "taken"
          /\ used' = vmm_delete_pagemap(b.used, b.space)
          /\ lost' = lost \cup (used' \ used)
          /\ UNCHANGED <<life, space, brk, cr3>>
       \/ /\ b.result = "stopped"
          /\ used' = b.used
          /\ UNCHANGED <<life, space, brk, cr3, lost>>

(* pm_execve of a file that is not an ELF: its own clean-up calls kfree on   *)
(* the NULL that load_elf_to_memory returned, and faults on the header      *)
(* before it.                                                               *)
ExecveNotElf(p) ==
    LET b == LoadProgram(used, <<>>, FALSE) IN
    /\ Running(p)
    /\ kernel' = "stopped"
    /\ used' = IF b.result = "ok" THEN vmm_delete_pagemap(b.used, b.space) ELSE b.used
    /\ UNCHANGED <<life, space, brk, cr3, lost>>

(* syscall_brk_handler growing the heap: frames are taken and mapped one by *)
(* one, over whatever was mapped; running out keeps the pages mapped so far *)
(* and the old process_heap_ptr.                                            *)
AlignUp(x) == (x + 1) \div 2

GrowBy(b, v) ==
    LET got == pmm_alloc_page(b.used) IN
    IF got.frame = NULL THEN [b EXCEPT !.result = "full"]
    ELSE vmm_map_page([b EXCEPT !.used = got.used], v, got.frame, TRUE)

Grow(b, first, count) ==
    LET grown[i \in 0 .. count] ==
            IF i = 0 THEN b
            ELSE IF grown[i - 1].result # "ok" THEN grown[i - 1]
            ELSE GrowBy(grown[i - 1], first + i - 1)
    IN grown[count]

BrkRegardless(p, new) ==                                            \* mutant
    LET first == AlignUp(brk[p])
        count == AlignUp(new) - first
        b     == Grow(Build(used, space[p]), first, count)
    IN
    /\ Running(p) /\ new > brk[p]
    /\ used'  = b.used
    /\ space' = [space EXCEPT ![p] = b.space]
    /\ brk'   = [brk EXCEPT ![p] = new]
    /\ lost'  = lost \cup (FramesOf(space[p]) \ FramesOf(b.space))
    /\ kernel' = State(b)
    /\ UNCHANGED <<life, cr3>>
Brk(p, new) ==
    LET first == AlignUp(brk[p])
        count == AlignUp(new) - first
        b     == Grow(Build(used, space[p]), first, count)
    IN
    /\ Running(p) /\ new > brk[p]
    /\ used'  = b.used
    /\ space' = [space EXCEPT ![p] = b.space]
    /\ brk'   = [brk EXCEPT ![p] = IF b.result = "ok" THEN new ELSE @]
    /\ lost'  = lost \cup (FramesOf(space[p]) \ FramesOf(b.space))
    /\ kernel' = State(b)
    /\ UNCHANGED <<life, cr3>>

(* pm_exit leaves the address space to whoever waits for the process. *)
Exit(p) ==
    /\ Running(p) /\ p # InitProc
    /\ life' = [life EXCEPT ![p] = "zombie"]
    /\ UNCHANGED <<used, space, brk, cr3, lost, kernel>>

(* pm_wait, by a process that runs. *)
Reap(p, z) ==
    /\ Running(p) /\ life[z] = "zombie"
    /\ used'  = vmm_delete_pagemap(used, space[z])
    /\ life'  = [life EXCEPT ![z] = "none"]
    /\ space' = [space EXCEPT ![z] = EmptySpace(NULL)]
    /\ brk'   = [brk EXCEPT ![z] = 0]
    /\ UNCHANGED <<cr3, lost, kernel>>

(* The heap stays below the stack, which is 128 TiB up. *)
MaxBrk == 2 * Stack

Next == \E p \in Procs :
    \/ Run(p)
    \/ \E c \in Procs : Fork(p, c)
    \/ \E image \in Images : Execve(p, image)
    \/ ExecveNotElf(p)
    \/ \E new \in 1 .. MaxBrk : Brk(p, new)
    \/ Exit(p)
    \/ \E z \in Procs : Reap(p, z)

Spec == Init /\ [][Next]_vars

-----------------------------------------------------------------------------
(* Properties. *)

Held == {p \in Procs : life[p] # "none"}

(* The entries of all spaces, one by one. *)
Entries ==
    {<<p, "root", 0>> : p \in Held}
    \cup {<<p, "table", t>> : p \in Held, t \in Tables}
    \cup {<<p, "page", v>> : p \in Held, v \in VPage}

FrameAt(e) == CASE e[2] = "root"  -> space[e[1]].root
                [] e[2] = "table" -> space[e[1]].table[e[3]]
                [] e[2] = "page"  -> space[e[1]].page[e[3]]

(* No frame is held twice, by two processes, as two pages or as a page and  *)
(* a page table, and none the kernel keeps is held at all: what one process *)
(* writes no other can see.                                                 *)
FramesExclusive ==
    kernel = "up" =>
        /\ \A e, f \in Entries :
              e # f /\ FrameAt(e) # NONE => FrameAt(e) # FrameAt(f)
        /\ \A e \in Entries : FrameAt(e) \notin RESERVED

(* A frame is in use exactly when a space holds it, the kernel reserved it  *)
(* or it is one of those brk or execve lost: deleting, replacing and        *)
(* cloning spaces neither leaks a frame nor frees one still held.           *)
FramesAccounted ==
    kernel = "up" =>
        used = RESERVED \cup lost \cup UNION {FramesOf(space[p]) : p \in Held}

(* The CPU never runs on page tables that were given back, whatever happens *)
(* between an exit or an execve and the next context switch.                *)
Cr3Held == kernel = "up" => \E p \in Held : space[p].root = cr3

(* Whatever brk calls fail half way and are retried, the heap of a process  *)
(* is mapped without a hole up to process_heap_ptr (images have no holes).  *)
HeapMapped ==
    kernel = "up" => \A p \in Held :
        LET low == Min({v \in VPage : space[p].page[v] # NONE})
        IN \A v \in low .. (AlignUp(brk[p]) - 1) : space[p].page[v] # NONE

(* Every mapped page of every process is backed by a frame of its own.      *)
EveryPageBacked ==
    \A p \in Procs, v \in VPage : space[p].page[v] # NULL

=============================================================================
