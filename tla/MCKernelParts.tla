--------------------------- MODULE MCKernelParts ----------------------------
(***************************************************************************)
(* Sequential parts of the kernel, each run on every small input: the page *)
(* allocator and its start, the queues of the scheduler and the consoles.  *)
(* MCAlgorithms asks these questions of the machine, with its own;         *)
(* AlgorithmProofs has the proofs for inputs of any size.                  *)
(***************************************************************************)
EXTENDS PhysicalMemory, BootMemory, TaskQueues, Console, Questions

CONSTANTS
    MEMORY,    \* bytes that memory maps are about
    ENTRIES,   \* length of the memory maps
    EVENTS,    \* length of the histories of the scheduler
    LETTERS    \* length of the texts on the consoles

ASSUME LengthsAssumption == {MEMORY, ENTRIES, EVENTS, LETTERS} \subseteq Nat

-----------------------------------------------------------------------------
(* Inputs of the page allocator. *)
Requests == [used : SUBSET Frame, count : 1 .. (FRAMES + 1)]

(* Inputs of its initialisation: what Limine promises of a memory map.  The *)
(* entries are in order, the usable ones and the bootloader's made of whole *)
(* pages, and the first page is in none that is free.                       *)
MapEntries ==
    {e \in [base : PAGE_BYTES .. MEMORY, length : 1 .. MEMORY,
            type : {"usable", "bootloader", "acpi", "reserved"}] :
       /\ e.base + e.length <= MEMORY
       /\ e.type \in {"usable", "bootloader"} =>
            e.base % PAGE_BYTES = 0 /\ e.length % PAGE_BYTES = 0}

MapsOf(n) ==
    {m \in [1 .. n -> MapEntries] :
       \A i \in 2 .. n : m[i - 1].base + m[i - 1].length <= m[i].base}
MemoryMaps == UNION {MapsOf(n) : n \in 0 .. ENTRIES}

(* What happens to the scheduler from its first task on. *)
Histories == (UNION {[1 .. n -> Ops] : n \in 0 .. EVENTS})
             \cup {[i \in 1 .. 3 |-> <<"fork", RUN>>] \o h : h \in [1 .. EVENTS -> Ops]}

(* What is written on a console. *)
Texts == UNION {[1 .. n -> {"a", NEW_LINE, BACK_SPACE}] : n \in 0 .. LETTERS}

(* A backspace on the VGA console has a cell of the screen before it. *)
NeverAbove(console, text) ==
    console = "vga" => \A n \in DOMAIN text :
        text[n] = BACK_SPACE =>
            LET s == Screens(console, text)[n - 1]
            IN s.cursor > 0 /\ (s.cursor >= Cells - 1 => s.cursor > WIDTH)

Writings == {w \in [console : Consoles, text : Texts] : NeverAbove(w.console, w.text)}

-----------------------------------------------------------------------------
PartsAsk ==
    \/ Ask("allocate", Requests)
    \/ Ask("boot", MemoryMaps)
    \/ Ask("queue", Histories)
    \/ Ask("write", Writings)

PartsAnswer ==
    \/ Answer("allocate", pmm_alloc_pages(input.used, input.count))
    \/ Answer("boot", init_pmm(input))
    \/ Answer("queue", After(input))
    \/ Answer("write", Write(input.console, input.text))

(* Beside these parts, any other question, answered in any way. *)
Elsewhere == question \notin {"allocate", "boot", "queue", "write"}

PartsInit == (PartsAsk \/ Elsewhere) /\ answered = FALSE
PartsNext == PartsAnswer \/ (Elsewhere /\ UNCHANGED <<question, input>>)
PartsSpec == PartsInit /\ [][PartsNext]_vars

-----------------------------------------------------------------------------
(* The jumps of pmm_alloc_pages over used frames miss no run: it returns    *)
(* the lowest run that is free as a whole, takes it and nothing else, and   *)
(* refuses only when there is no run.  A run longer than the memory is not  *)
(* refused: the search for it does not end.                                 *)
FirstFit == Answered("allocate") =>
    LET run(i) == i .. (i + input.count - 1)
        fits   == {i \in Frame : run(i) \subseteq Frame \ input.used}
    IN output = IF input.count > FRAMES THEN Endless(input.used)
                ELSE IF fits = {} THEN Refusal(input.used)
                ELSE Grant(input.used, Min(fits), input.count)

(* After init_pmm no allocation can hand out a page that is not usable or   *)
(* that holds a byte of the bitmap itself, every other usable page is free, *)
(* and no bit is out of bounds; it gives up only when no usable entry could *)
(* hold the bitmap.                                                         *)
BitmapProtectsItself == Answered("boot") =>
    LET within(p, e) == e.base <= p * PAGE_BYTES /\ p * PAGE_BYTES < e.base + e.length
        usable == {e \in Range(input) : e.type = "usable"}
        pages  == {p \in 0 .. MEMORY : \E e \in usable : within(p, e)}
        ends   == {e.base + e.length : e \in {e \in Range(input) : e.type # "reserved"}}
        top    == Max({0} \cup {x \div PAGE_BYTES : x \in ends})
        bytes  == DIV_ROUND_UP(top, BITS_PER_BYTE)
        held   == {(output.bitmap + b) \div PAGE_BYTES : b \in 0 .. (bytes - 1)}
    IN IF \A e \in usable : e.length < bytes THEN output.result = "panic: no region"
       ELSE /\ output.result = "ready"
            /\ output.bit_count = top
            /\ held \subseteq pages
            /\ (0 .. (top - 1)) \ output.used = pages \ held

(* The links of the tasks always hold together the queues they should, in   *)
(* order: no task is lost, in two queues or behind the rear, although one   *)
(* link serves them all.                                                    *)
QueuesLinked == Answered("queue") =>
    /\ output.s.curr = output.l.curr /\ output.s.idle = output.l.idle
    /\ \A q \in QUEUES : LinksOf(output.s, q, output.l.queue[q])

(* However often the console has scrolled, the screen shows the last rows   *)
(* of what was written, and nothing was written outside it.                 *)
ScreenIsWindow == Answered("write") =>
    WindowOn(output, Typed(input.console, input.text))

=============================================================================
