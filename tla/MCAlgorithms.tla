---------------------------- MODULE MCAlgorithms ----------------------------
(***************************************************************************)
(* The sequential parts of the kernel, each run on every small input: a    *)
(* behaviour picks a question and an input, and answers it.                *)
(***************************************************************************)
EXTENDS MCKernelParts, MCBootLoader, MCTrapTables, MCKernelBoot, ProgramImage, Clock

-----------------------------------------------------------------------------
(* Inputs of the loader. *)

ProgramFile == <<11, 12, 13, 14>>
Segments == {s \in [vaddr : 2 .. 5, memsz : 0 .. 3, filesz : 0 .. 3, offset : 0 .. 1] :
               s.filesz <= s.memsz}
Large == [vaddr |-> 4, memsz |-> FRAMES * REGULAR_PAGE_SIZE + 1, filesz |-> 2, offset |-> 0]
Idents == {ELFMAG, <<127, 69, 76, 0>>, <<35, 33, 47, 98>>}       \* the third of a script
Programs ==
    [used : {{0}, {0, 2}}, segments : Segments \X Segments, e_ident : {ELFMAG}, e_entry : {2}]
    \cup [used : {{0}}, e_ident : Idents, e_entry : {0, 2},
          segments : {<<[vaddr |-> 2, memsz |-> 3, filesz |-> 1, offset |-> 0],
                        [vaddr |-> v, memsz |-> 2, filesz |-> 2, offset |-> 1]>> : v \in 4 .. 7}]
    \cup [used : {{0}}, e_ident : {ELFMAG}, e_entry : {2},
          segments : {<<Large, s>> : s \in Segments} \cup {<<s, Large>> : s \in Segments}]

-----------------------------------------------------------------------------
(* Inputs of the clock. *)

Years == 2000 .. 2038      \* behind, the product of days and seconds overflows an int
Dates == {d \in [year : Years, month : 1 .. 12, day : 1 .. 31,
                 hours : {0, 23}, mins : {0, 59}, seconds : {0, 59}] :
            d.day <= MonthLength(d) /\ (d.day > 27 \/ d.day = 1)}
Moments == [boot : Dates, uptime : {0, 1999, 61000}]

-----------------------------------------------------------------------------
(* Disks.  The root has a file A and a directory B, which has a file A.B.   *)

Chains == {c \in UNION {[1 .. n -> 2 .. 5] : n \in 1 .. 2} : \A i, j \in DOMAIN c :
             c[i] = c[j] => i = j}
TopCluster == 6

Entry(name, ext, kind, cluster, size) ==
    [name |-> name, ext |-> ext, kind |-> kind,
     first_cluster_id |-> cluster, file_size_in_bytes |-> size]

Label   == Entry(<<"B", " ">>, <<" ">>, "label", 0, 0)
Deleted == Entry(<<"?", "B">>, <<" ">>, "deleted", 3, 1)
Final   == Entry(<<" ", " ">>, <<" ">>, "final", 0, 0)
Stale   == Entry(<<"B", "B">>, <<" ">>, "file", 3, 1)     \* behind the final entry

TopFile   == Entry(<<"A", " ">>, <<" ">>, "file", TopCluster, 3)
SubDir(d) == Entry(<<"B", " ">>, <<" ">>, "dir", d.dir[1], 0)
Leaf(d)   == Entry(<<"A", " ">>, <<"B">>, "file", d.file[1], d.size)

RootSlots(d) ==
    CASE d.root = 1 -> <<Label, Deleted, TopFile, SubDir(d)>>
      [] d.root = 2 -> <<SubDir(d), TopFile, Final, Stale>>
      [] d.root = 3 -> <<Deleted, SubDir(d), Final, Stale>>
DirSlots(d) ==
    <<Entry(<<".", " ">>, <<" ">>, "dir", d.dir[1], 0),
      Entry(<<".", ".">>, <<" ">>, "dir", 0, 0)>> \o
    (IF d.deleted THEN <<Deleted, Leaf(d)>> ELSE <<Leaf(d), Final>>)

DiskHeader(d) == [reserved_sector_count |-> 1, table_count |-> 2, table_size |-> 3,
                  root_entry_count |-> 4, sectors_per_cluster |-> d.sectors]

ClusterSize(d) == d.sectors * BLOCK

DiskLayouts == {d \in [dir : Chains, file : Chains, size : 1 .. 8, root : 1 .. 3,
                       deleted : BOOLEAN, sectors : {1, 2}] :
    /\ \A i \in DOMAIN d.dir, j \in DOMAIN d.file : d.dir[i] # d.file[j]
    /\ d.size \in {Len(d.file) * ClusterSize(d), Len(d.file) * ClusterSize(d) - 1}
    /\ d.sectors = 2 => Len(d.file) = 1}

(* The next cluster, and the bytes two of these numbers share. *)
Links(d) ==
    LET next(c, chain) ==
            LET i == CHOOSE i \in DOMAIN chain : chain[i] = c
            IN IF i = Len(chain) THEN FAT_LAST_CLUSTER_NUM ELSE chain[i + 1]
    IN [c \in 0 .. 7 |-> CASE c \in {d.dir[i] : i \in DOMAIN d.dir}   -> next(c, d.dir)
                           [] c \in {d.file[i] : i \in DOMAIN d.file} -> next(c, d.file)
                           [] c \in {0, 1, TopCluster} -> FAT_LAST_CLUSTER_NUM
                           [] OTHER -> 0]
FatByte(links, b) ==
    LET even == links[2 * (b \div 3)]
        odd  == links[2 * (b \div 3) + 1]
    IN CASE b % 3 = 0 -> even % 256
         [] b % 3 = 1 -> even \div 256 + 16 * (odd % 16)
         [] b % 3 = 2 -> odd \div 16

(* The k-th cell of a file or directory. *)
LeafCell(k) == 100 + k
TopCell(k)  == 200 + k
SlotCell(slots, k) ==
    IF k <= DIRENT * Len(slots) THEN slots[(k - 1) \div DIRENT + 1] ELSE Final

ClusterCell(d, cluster, k) ==
    LET place(chain) == ((CHOOSE i \in DOMAIN chain : chain[i] = cluster) - 1)
                            * ClusterSize(d) + k
    IN CASE cluster \in {d.dir[i] : i \in DOMAIN d.dir}   -> SlotCell(DirSlots(d), place(d.dir))
         [] cluster \in {d.file[i] : i \in DOMAIN d.file} -> LeafCell(place(d.file))
         [] cluster = TopCluster -> TopCell(k)
         [] OTHER -> 0

DiskOf(d) ==
    LET links   == Links(d)
        fat     == [b \in 1 .. (3 * BLOCK) |-> FatByte(links, b - 1)]
        root    == [k \in 1 .. (4 * DIRENT) |-> SlotCell(RootSlots(d), k)]
        data    == [k \in 1 .. (5 * ClusterSize(d)) |->
                      ClusterCell(d, 2 + (k - 1) \div ClusterSize(d),
                                  1 + ((k - 1) % ClusterSize(d)))]
        cells   == [k \in 1 .. BLOCK |-> DiskHeader(d)] \o fat \o fat \o root \o data
    IN ata_pio_init([s \in 0 .. (Len(cells) \div BLOCK - 1) |->
                       [i \in 1 .. BLOCK |-> cells[s * BLOCK + i]]])

Dir  == <<"b">>
Paths == {<<<<"a">>>>, <<Dir>>, <<Dir, <<"a", ".", "b">>>>, <<Dir, <<".">>, <<"a", ".", "b">>>>,
          <<Dir, <<"a">>>>, <<<<"b", "b">>>>, <<<<"a", ".", "b">>, <<"a">>>>}
Openings == [disk : DiskLayouts, path : Paths]

(* The tree a layout describes: what a path names in it. *)
HasTop(d)  == d.root # 3
HasLeaf(d) == Len(d.dir) * ClusterSize(d) >= DIRENT * (IF d.deleted THEN 4 ELSE 3)
Named(d, path) ==
    CASE path = <<Dir>> -> "dir"
      [] path = <<<<"a">>>> /\ HasTop(d) -> "top"
      [] /\ path \in {<<Dir, <<"a", ".", "b">>>>, <<Dir, <<".">>, <<"a", ".", "b">>>>}
         /\ HasLeaf(d) -> "leaf"
      [] OTHER -> "nothing"

(* Reads of a partition that starts below a carry of the address registers, *)
(* on a drive whose cells count up.                                         *)
Extents == {x \in [start : {0, 2^8 - 2, 2^16 - 1, 2^24 - 1, 2^28 - 3},
                   offset : 0 .. 11, size : 0 .. 12] : x.offset + x.size <= 12}
Counting(start) ==
    create_partition_wrapper(
        ata_pio_init([s \in 0 .. (2^28 - 1) |-> [c \in 1 .. BLOCK |-> s * BLOCK + c]]), start)

-----------------------------------------------------------------------------
Init ==
    /\ \/ PartsAsk
       \/ Ask("load", Programs)
       \/ Ask("clock", Moments)
       \/ Ask("read", Extents)
       \/ Ask("open", Openings)
       \/ Ask("bootloader", Boots)
       \/ Ask("trap", Traps) \/ Ask("libc", LibcCalls) \/ Ask("sbrk", Breaks)
       \/ Ask("kmain", Machines)
       \/ Ask("say", Sayings)
    /\ answered = FALSE
    /\ output = <<>>

Next ==
    \/ PartsAnswer
    \/ Answer("load", load_elf_to_memory(input.used, input, ProgramFile))
    \/ Answer("clock", gettimeofday(init_cmos(NOT_READ, Rtc(input.boot)), input.uptime))
    \/ Answer("read", read_blk_device_bytes(Counting(input.start), input.offset, input.size))
    \/ Answer("open", fat12_open(init_fat12(DiskOf(input.disk)), input.path))
    \/ BootsAnswer
    \/ TrapAnswer
    \/ LibcAnswer
    \/ KernelBootAnswer
    \/ SayAnswer

Spec == Init /\ [][Next]_vars

-----------------------------------------------------------------------------
(* What the program finds at the addresses of its segments is the bytes of  *)
(* its file and behind them zeros, at whatever place in a page a segment    *)
(* starts; and the heap starts at a page that no segment has.  Loading      *)
(* stops the kernel exactly when two segments meet in a page or one of them *)
(* needs no page, or more pages than the memory has.  A file with none of   *)
(* the magic bytes is refused, and one without an entry point; of a file    *)
(* with a part of them nothing is said.                                     *)
SegmentsInPlace == Answered("load") =>
    LET s       == input.segments
        pages(i) == {PageOf(a) : a \in s[i].vaddr .. (s[i].vaddr + s[i].memsz - 1)}
                    \cup (IF s[i].vaddr % REGULAR_PAGE_SIZE # 0 THEN {PageOf(s[i].vaddr)} ELSE {})
        at(a)    == output.byte[output.pages[PageOf(a)] * REGULAR_PAGE_SIZE
                                    + (a % REGULAR_PAGE_SIZE)]
        heap     == output.heap_start
        large(i) == Cardinality(pages(i)) > FRAMES
    IN IF \A i \in DOMAIN ELFMAG : input.e_ident[i] # ELFMAG[i] THEN output.result = "NULL"
       ELSE IF input.e_ident # ELFMAG THEN TRUE
       ELSE IF pages(1) # {} /\ (large(1) \/ large(2)) THEN output.result = "stuck"
       ELSE IF pages(1) = {} \/ pages(2) = {} \/ pages(1) \cap pages(2) # {}
       THEN output.result = "panic"
       ELSE IF input.e_entry = 0 THEN output.result = "NULL"
       ELSE /\ DOMAIN output.pages = pages(1) \cup pages(2)
            /\ \A i \in DOMAIN s : \A k \in 0 .. (s[i].memsz - 1) :
                 at(s[i].vaddr + k) = IF k < s[i].filesz THEN ProgramFile[s[i].offset + k + 1]
                                      ELSE 0
            /\ heap % REGULAR_PAGE_SIZE = 0
            /\ \A p \in DOMAIN output.pages : PageOf(heap) > p

(* The clock counts days as the calendar does: the day after a date, over   *)
(* the ends of months, leap years and years, is one more.  The time of day  *)
(* is ahead of the boot by the uptime, to the millisecond.                  *)
ClockFollowsCalendar == Answered("clock") =>
    LET boot     == input.boot
        midnight == boot.hours * 3600 + boot.mins * 60 + boot.seconds
    IN /\ rtc_to_unix_epoch(Tomorrow(boot)).day = output.day + 1
       /\ (output.sec - midnight) * 1000 + output.usec \div 1000 = input.uptime
       /\ (boot.year = 2000 /\ boot.month = 1 /\ boot.day = 1) => output.day = 10957

(* The head, the body and the tail of a read join without a gap, wherever   *)
(* the address crosses a register of the drive: the bytes are those of the  *)
(* partition from the offset on.                                            *)
BytesRead == Answered("read") =>
    output = [i \in 1 .. input.size |-> input.start * BLOCK + input.offset + i]

(* Opening a path finds what the tree on the disk has at it, across         *)
(* fragmented chains, deleted entries, labels and stale entries behind the  *)
(* final one; and the size is that of the file.  The blocks it is read by   *)
(* join as BytesRead says.                                                  *)
OpenFindsFile == BytesRead /\ (Answered("open") =>
    LET d == input.disk
        n == Named(d, input.path)
    IN CASE n = "nothing" -> output.result = "NULL"
         [] n = "dir"  -> output.result = "file" /\ output.size = Len(d.dir) * ClusterSize(d)
         [] n = "top"  -> /\ output.result = "file" /\ output.size = 3
                          /\ \A k \in 1 .. 3 : output.data[k] = TopCell(k)
         [] n = "leaf" -> /\ output.result = "file" /\ output.size = d.size
                          /\ \A k \in 1 .. d.size : output.data[k] = LeafCell(k))

=============================================================================
