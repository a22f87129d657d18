---------------------------- MODULE MCBootLoader ----------------------------
(***************************************************************************)
(* Drives for BootLoader: every partition table of four slots with one     *)
(* kernel, and one table with every kernel.                                *)
(***************************************************************************)
EXTENDS BootLoader, Questions

FirstLba  == 1        \* of two partitions with their own kernels
SecondLba == 12
LbaOf == [first |-> FirstLba, second |-> SecondLba, other |-> SecondLba, empty |-> 0]

Chs(lba) == [sector |-> (lba % SECTORS) + 1, head |-> (lba \div SECTORS) % HEADS,
             cylinder |-> lba \div (SECTORS * HEADS)]
Slot(kind, active) ==
    [active    |-> active,
     system_id |-> CASE kind = "empty" -> 0 [] kind = "other" -> 6 [] OTHER -> FAT12_ID,
     start_addr |-> Chs(LbaOf[kind]), relative_sectors_lba_start |-> LbaOf[kind]]

Tables == [1 .. 4 -> {Slot("empty", FALSE)} \cup
             {Slot(kind, active) : kind \in {"first", "second", "other"}, active \in BOOLEAN}]
OneTable == [i \in 1 .. 4 |-> IF i = 2 THEN Slot("second", TRUE) ELSE Slot("empty", FALSE)]

(* Kernels: the clusters of the file, what else the root directory has, and *)
(* two segments; the second may be one that is not loaded.                  *)
FileChains == {<<2, 3>>, <<5, 2>>, <<4, 2, 6>>, <<6, 5, 4, 3>>, <<2, 3, 4, 5, 6>>}
Text == [type : {"PT_LOAD"}, vaddr : {80, 95}, offset : {3, 5}, filesz : {0, 3},
         memsz : {3, 20}]
Data == {s \in [type : {"PT_LOAD", "PT_NOTE"}, vaddr : {120, HEAP_START - 4}, offset : {4},
                filesz : {1, 4}, memsz : {4, 24}] : s.vaddr + s.memsz <= HEAP_START}
Kernels == [chain : FileChains, others : {0, 2}, label : BOOLEAN, text : Text, data : Data]
OneKernel == [chain |-> <<4, 2, 6>>, others |-> 1, label |-> TRUE,
              text |-> CHOOSE s \in Text : s.filesz = 3, data |-> CHOOSE s \in Data : TRUE]

OneCpu == [cpuid |-> TRUE, long_mode |-> TRUE, pe |-> FALSE, pae |-> FALSE, lme |-> FALSE,
           pg |-> FALSE, mode |-> "real", a20 |-> FALSE, regions |-> 6, memoryRegionCount |-> 0]
Cpus == {[OneCpu EXCEPT !.cpuid = c, !.long_mode = l, !.a20 = a, !.regions = r] :
           c, l, a \in BOOLEAN, r \in {0, 1, 300}}

Boots == [table : Tables, kernel : {OneKernel}, cpu : {OneCpu}]
         \cup [table : {OneTable}, kernel : Kernels, cpu : {OneCpu}]
         \cup [table : {OneTable}, kernel : {OneKernel}, cpu : Cpus]

(* The file: header, program headers, tokens.  A partition of 11 sectors.   *)
FileCells(k) == Len(k.chain) * BLOCK
FileCell(k, n) ==
    CASE n = 1 -> [e_phoff |-> 1, e_phnum |-> 2, e_entry |-> k.text.vaddr]
      [] n = 2 -> k.text
      [] n = 3 -> k.data
      [] OTHER -> Byte(n)

BootEntry(kind, cluster) == [kind |-> kind, first_cluster_id |-> cluster]
RootDirectory(k) ==
    (IF k.label THEN <<BootEntry("label", 0)>> ELSE <<BootEntry("deleted", 3)>>)
    \o <<BootEntry("file", k.chain[1])>>
    \o [i \in 1 .. k.others |-> BootEntry("file", 0)]
    \o [i \in 1 .. (2 - k.others) |-> BootEntry("final", 0)]

BootHeader == [reserved_sector_count |-> 1, table_count |-> 1, table_size |-> 3,
               root_entry_count |-> 4, sectors_per_cluster |-> 1]

PartitionSector(k, s) ==
    LET place(c) == {i \in DOMAIN k.chain : k.chain[i] = c}
        link[c \in 0 .. 7] ==
            IF place(c) = {} THEN 0
            ELSE LET i == CHOOSE i \in place(c) : TRUE
                 IN IF i = Len(k.chain) THEN FAT_LAST_CLUSTER_NUM ELSE k.chain[i + 1]
        fat(b) == LET even == link[2 * (b \div 3)]
                      odd  == link[2 * (b \div 3) + 1]
                  IN CASE b % 3 = 0 -> even % 256
                       [] b % 3 = 1 -> even \div 256 + 16 * (odd % 16)
                       [] b % 3 = 2 -> odd \div 16
        root == EntryCells(RootDirectory(k))
        data(c) == [i \in 1 .. BLOCK |->
                      IF place(c) = {} THEN Byte(0)
                      ELSE FileCell(k, ((CHOOSE j \in place(c) : TRUE) - 1) * BLOCK + i)]
    IN CASE s = 0      -> [i \in 1 .. BLOCK |-> BootHeader]
         [] s \in 1 .. 3 -> [i \in 1 .. BLOCK |-> fat((s - 1) * BLOCK + i - 1)]
         [] s \in 4 .. 5 -> [i \in 1 .. BLOCK |-> root[(s - 4) * BLOCK + i]]
         [] OTHER      -> data(s - 4)

DriveOf(b) ==
    [s \in 0 .. (SecondLba + 10) |->
        IF s = 0 THEN b.table
        ELSE PartitionSector(b.kernel, IF s < SecondLba THEN s - FirstLba ELSE s - SecondLba)]

BootsAnswer == Answer("bootloader", Boot(DriveOf(input), input.cpu))

-----------------------------------------------------------------------------
(* The master boot record and stage 2 look for the partition by different   *)
(* rules, one by its first sector's cylinder, head and sector and the other *)
(* by its LBA; yet stage 2 mounts the partition it was loaded from, unless  *)
(* an active partition of another type precedes that.  Loading stops        *)
(* exactly when no active partition is FAT12, and before long mode exactly  *)
(* when the CPU has none.                                                   *)
StageTwoStarts == Answered("bootloader") =>
    LET active == {i \in 1 .. 4 : input.table[i].active}
        fat12  == {i \in active : input.table[i].system_id = FAT12_ID}
    IN IF fat12 = {} THEN output.result = "no bootable partition"
       ELSE IF ~ (input.cpu.cpuid /\ input.cpu.long_mode) THEN output.result = "halted"
       ELSE /\ output.result \in {"kernel", "out of memory"}
            /\ Min(active) = Min(fat12) =>
                 output.mounted = input.table[Min(fat12)].relative_sectors_lba_start
                 /\ output.stage2 = output.mounted

(* The directories, the page tables, the FAT, the file and the copies of    *)
(* its clusters that the loader has allocated by then do not get into each  *)
(* other's way: the kernel is entered with the bytes of its file, in the    *)
(* order of its cluster chain, and zeros behind them at the addresses of    *)
(* its segments, and with both mappings of the memory intact, whether or    *)
(* not the firmware had opened A20, behind which that heap is.  Only what   *)
(* does not fit twice into the loader's heap is given up.                   *)
KernelInPlace == Answered("bootloader") =>
    LET k      == input.kernel
        kept   == 2 * (8 + (1 + k.others) * DIRENT) + (1 + k.others) * (POINTER + NAME)
        inPlace(s) == \A i \in 0 .. (s.memsz - 1) :
                    At(output, Walk(output, High(s.vaddr + i)))
                        = IF i < s.filesz THEN FileCell(k, s.offset + i + 1) ELSE Byte(0)
    IN /\ output.result = "kernel" =>
            /\ inPlace(k.text) /\ (k.data.type = "PT_LOAD" => inPlace(k.data))
            /\ output.entry = k.text.vaddr
            /\ \A a \in 0 .. (HUGE_PAGE - 1) :
                 Walk(output, Low(a)) = a /\ Walk(output, High(a)) = a
       /\ output.result = "out of memory" =>
            kept + 3 * P + 12 + 2 * FileCells(k) > HEAP_END - HEAP_START

=============================================================================
