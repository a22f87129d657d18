----------------------------- MODULE BootLoader -----------------------------
(***************************************************************************)
(* Booting with the repository's own loader, boot/mbr and boot/bootloader: *)
(* the master boot record finds stage 2 and loads it, stage 2 enters long  *)
(* mode, mounts the partition, maps the higher half and puts the segments  *)
(* of the kernel in place.                                                 *)
(*                                                                         *)
(* A page, a page table and the pages of a huge page are P cells, entries  *)
(* and pages (512 in the code).  Sector 0 of the drive has the four        *)
(* partition entries as its cells; the first cell of a partition is its    *)
(* FAT12 header.                                                           *)
(***************************************************************************)
EXTENDS Storage, TLC

P == 16
HUGE_PAGE  == P * P        \* two megabytes
MEGABYTE   == HUGE_PAGE \div 2
HEAP_START == 144          \* 0x180000
HEAP_END   == HUGE_PAGE    \* 0x200000
POINTER    == 1            \* sizeof(char*)
NAME       == 2            \* a name with its dot and its end

Byte(n)  == [byte |-> n]
Leftover == [byte |-> 255]     \* what the memory holds before it is written

-----------------------------------------------------------------------------
(* The master boot record. *)

(* The BIOS addresses sectors by cylinder, head and sector. *)
HEADS == 2
SECTORS == 3
BiosSector(chs) == (chs.cylinder * HEADS + chs.head) * SECTORS + chs.sector - 1

is_partition_bootable(entry) == entry.active
FAT12_ID == 1

(* The first active FAT12 entry. *)
findBootPartion(table) ==
    {i \in DOMAIN table : /\ is_partition_bootable(table[i]) /\ table[i].system_id = FAT12_ID
                          /\ \A j \in 1 .. (i - 1) : is_partition_bootable(table[j]) =>
                                                       table[j].system_id # FAT12_ID}

(* One byte of the count of reserved sectors, in which stage 2 is kept. *)
getBootloaderSize(header) == header.reserved_sector_count % 256

(* What of the drive is loaded, from sector `first' on. *)
readDisk(drive) ==
    LET found == findBootPartion(drive[0])
        first == BiosSector(drive[0][CHOOSE i \in found : TRUE].start_addr)
    IN IF found = {} THEN [result |-> "no bootable partition"]
       ELSE IF first \notin DOMAIN drive THEN [result |-> "disk read failed"]
       ELSE [result |-> "stage 2", first |-> first,
             count |-> getBootloaderSize(drive[first][1])]

-----------------------------------------------------------------------------
(* To long mode.  Of the CPU: what it supports, its control bits and mode,  *)
(* and of its machine the line A20 and the regions that the BIOS reports.   *)

(* The last region is not counted, in a byte.  The regions themselves, and  *)
(* the count, are not read by anyone; they go to memory that is written     *)
(* over later.                                                              *)
detectMemory(cpu) == [cpu EXCEPT !.memoryRegionCount = Max({0, cpu.regions - 1}) % 256]

enableA20(cpu) == [cpu EXCEPT !.a20 = TRUE]

gdt_codedesc == [size |-> TRUE, long |-> FALSE]
editGDT(desc) == [desc EXCEPT !.size = FALSE, !.long = TRUE]

(* The mode a far jump leads to. *)
FarJump(cpu, desc) ==
    CASE ~ cpu.pe -> "real"
      [] cpu.pe /\ ~ (cpu.lme /\ cpu.pae /\ cpu.pg) -> "protected"
      [] OTHER -> IF desc.long /\ ~ desc.size THEN "long" ELSE "compatibility"

setUpIdentityPaging(cpu) == [cpu EXCEPT !.pae = TRUE, !.lme = TRUE, !.pg = TRUE]

(* Bit 21 of the flags can be flipped; bit 29 of leaf 0x80000001. *)
checkCpuId(cpu) == cpu.cpuid
detectLongMode(cpu) == cpu.long_mode

startProtectedMode(cpu) ==
    LET paged == setUpIdentityPaging(cpu)
    IN IF ~ checkCpuId(cpu) \/ ~ detectLongMode(cpu) THEN [cpu EXCEPT !.mode = "halted"]
       ELSE [paged EXCEPT !.mode = FarJump(paged, editGDT(gdt_codedesc))]

enterProtectedMode(cpu) ==
    LET on == [enableA20(detectMemory(cpu)) EXCEPT !.pe = TRUE]
    IN IF FarJump(on, gdt_codedesc) = "protected" THEN startProtectedMode(on)
       ELSE [on EXCEPT !.mode = "lost"]

(* An entry that maps a table or a page, and the tables in pages 1 to 4.    *)
PageEntry(page, huge) == [page |-> page, huge |-> huge]
PML4 == 1
IdentityTables ==
    [a \in 0 .. (HUGE_PAGE - 1) |->
        CASE a \in {P, 2 * P, 3 * P}    -> PageEntry(a \div P + 1, FALSE)
          [] a \in (4 * P) .. (5 * P - 1) -> PageEntry(a - 4 * P, FALSE)
          [] OTHER -> Leftover]

(* With A20 off, bit 20 of an address does not get to the memory m: odd     *)
(* megabytes are even ones.                                                 *)
Bus(m, a) == IF m.a20 THEN a ELSE a - MEGABYTE * ((a \div MEGABYTE) % 2)
At(m, a)  == m.cell[Bus(m, a)]

(* The walk the CPU does for an address, given by the indexes at each level. *)
Walk(m, v) ==
    LET pdp  == At(m, PML4 * P + v.pml4).page
        pd   == At(m, pdp * P + v.pdp).page
        last == At(m, pd * P + v.pd)
    IN IF last.huge THEN last.page * P + v.pt * P + v.offset
       ELSE At(m, last.page * P + v.pt).page * P + v.offset

Indexes(top, a) == [pml4 |-> top, pdp |-> top, pd |-> 0, pt |-> a \div P, offset |-> a % P]
Low(a)  == Indexes(0, a)
High(a) == Indexes(P - 1, a)       \* 0xFFFFFFFFC0000000 + a

-----------------------------------------------------------------------------
(* The bump allocator.  The memory is its cells and the line A20, the       *)
(* offset of the allocator, the address of the last allocation, and whether *)
(* malloc gave up.                                                          *)
init_alloc(cpu) == [cell |-> IdentityTables, a20 |-> cpu.a20, offset |-> 0, at |-> 0,
                    halted |-> FALSE]

malloc(m, size) ==
    IF m.halted THEN m
    ELSE IF m.offset + size > HEAP_END - HEAP_START THEN [m EXCEPT !.halted = TRUE]
    ELSE [m EXCEPT !.at = HEAP_START + m.offset, !.offset = @ + size]

malloc_aligned(m, size, alignment) ==
    LET remainder == (HEAP_START + m.offset) % alignment
        skip      == IF remainder = 0 THEN 0 ELSE alignment - remainder
    IN malloc([m EXCEPT !.offset = @ + skip], size)

(* memcpy to an address. *)
Store(m, to, cells) ==
    IF m.halted THEN m
    ELSE LET there == {Bus(m, a) : a \in to .. (to + Len(cells) - 1)}
             last(b) == Max({i \in DOMAIN cells : Bus(m, to + i - 1) = b})
         IN [m EXCEPT !.cell = [b \in there |-> cells[last(b)]] @@ @]
Keep(m, cells) == LET n == malloc(m, Len(cells)) IN Store(n, n.at, cells)

(* Two tables, a huge page of the memory at its start. *)
init_higher_half_kernel(m) ==
    LET pdp   == malloc_aligned(m, P, P)
        pd    == malloc_aligned(pdp, P, P)
        blank == [i \in 1 .. P |-> PageEntry(0, FALSE)]
        wired == Store(Store(Store(Store(pd, pdp.at, blank), pd.at, blank), pdp.at + P - 1,
                         <<PageEntry(pd.at \div P, FALSE)>>), pd.at, <<PageEntry(0, TRUE)>>)
    IN Store(wired, PML4 * P + P - 1, <<PageEntry(pdp.at \div P, FALSE)>>)

-----------------------------------------------------------------------------
(* The loader's own FAT12 code: what it allocates for what it reads; it     *)
(* frees nothing.                                                           *)

mount(dev) == init_fat12(dev).info

EntryCells(entries) ==
    [i \in 1 .. (Len(entries) * DIRENT) |-> entries[(i - 1) \div DIRENT + 1]]

keep_root_directory_entries(m, dev, info) ==
    LET entries == get_root_directory_entries(dev, info)
    IN Keep(Keep(m, EntryCells(entries)), EntryCells(filter_valid_directory_entries(entries)))

keep_root_file_names(m, dev, info) ==
    LET valid == filter_valid_directory_entries(get_root_directory_entries(dev, info))
        names[n \in 0 .. Len(valid)] ==
            IF n = 0 THEN malloc(keep_root_directory_entries(m, dev, info),
                                 Len(valid) * POINTER)
            ELSE malloc(names[n - 1], NAME)
    IN names[Len(valid)]

(* The table, room for the file, and one buffer after the other for the     *)
(* clusters, which are copied to that room.                                 *)
keep_file_content(m, dev, entry, info) ==
    LET fat     == get_fat(dev, info)
        chain   == cluster_chain(entry.first_cluster_id, fat)
        cluster == info.sectors_per_cluster * BLOCK
        room    == malloc(Keep(m, fat), Len(chain) * cluster)
        read[n \in 0 .. Len(chain)] ==
            IF n = 0 THEN room
            ELSE LET data == read_cluster(dev, chain[n], info)
                 IN Store(Keep(read[n - 1], data), room.at + (n - 1) * cluster, data)
    IN [m |-> read[Len(chain)], file |-> room.at]

-----------------------------------------------------------------------------
(* The kernel's segments: read where the file was put, written at their     *)
(* addresses in the higher half.  The first cell of the file is its ELF     *)
(* header, the program headers are from e_phoff on.                         *)

(* Copying forward cell by cell, the file is read as it is by then. *)
Copied(m, seg, file) ==
    LET copy[n \in 0 .. seg.filesz] ==
            IF n = 0 THEN m
            ELSE LET before == copy[n - 1]
                 IN Store(before, Walk(before, High(seg.vaddr + n - 1)),
                          <<At(before, file + seg.offset + n - 1)>>)
    IN copy[seg.filesz]
BssLeft(m, seg, file) == Copied(m, seg, file)                       \* mutant
load_kernel_segment(m, seg, file) ==
    LET clear[n \in 0 .. (seg.memsz - seg.filesz)] ==
            IF n = 0 THEN Copied(m, seg, file)
            ELSE LET before == clear[n - 1]
                 IN Store(before, Walk(before, High(seg.vaddr + seg.filesz + n - 1)), <<Byte(0)>>)
    IN clear[seg.memsz - seg.filesz]

load_and_jump_kernel(m, file) ==
    LET elf == At(m, file)
        loaded[n \in 0 .. elf.e_phnum] ==
            IF n = 0 THEN m
            ELSE LET before == loaded[n - 1]
                     header == At(before, file + elf.e_phoff + n - 1)
                 IN IF header.type = "PT_LOAD" THEN load_kernel_segment(before, header, file) ELSE before
    IN [result |-> "kernel", entry |-> elf.e_entry, cell |-> loaded[elf.e_phnum].cell,
        a20 |-> m.a20]

-----------------------------------------------------------------------------
get_drive_mbr_partition_table(dev) == read_block(dev, 0)

(* The first entry with the boot flag; the types are not looked at.         *)
AnyPartition(table) ==                                              \* mutant
    CHOOSE i \in DOMAIN table : table[i].system_id # 0
BootablePartition(table) ==
    CHOOSE i \in DOMAIN table :
        /\ is_partition_bootable(table[i])
        /\ \A j \in 1 .. (i - 1) : ~ is_partition_bootable(table[j])
get_bootable_partition_blk_device(drive) ==
    LET disk  == ata_pio_init(drive)
        table == get_drive_mbr_partition_table(disk)
    IN create_partition_wrapper(disk, table[BootablePartition(table)].relative_sectors_lba_start)

(* Stage 2: the first file of the root directory is the kernel. *)
bootloader_entry(drive, cpu) ==
    LET dev    == get_bootable_partition_blk_device(drive)
        info   == mount(dev)
        names  == keep_root_file_names(init_alloc(cpu), dev, info)
        dirs   == keep_root_directory_entries(names, dev, info)
        mapped == init_higher_half_kernel(dirs)
        kernel == keep_file_content(mapped, dev, At(dirs, dirs.at), info)
    IN IF kernel.m.halted THEN [result |-> "out of memory"]
       ELSE load_and_jump_kernel(kernel.m, kernel.file)

Boot(drive, cpu) ==
    LET stage2 == readDisk(drive)
        ready  == enterProtectedMode(cpu)
    IN IF stage2.result # "stage 2" THEN stage2
       ELSE IF ready.mode # "long" THEN [result |-> ready.mode]
       ELSE bootloader_entry(drive, ready) @@ [stage2 |-> stage2.first,
                mounted |-> get_bootable_partition_blk_device(drive).partition_offset]

=============================================================================
