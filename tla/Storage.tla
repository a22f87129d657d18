------------------------------- MODULE Storage -------------------------------
(***************************************************************************)
(* Reading files from the disk: the ATA driver, drivers/ata_pio, the block *)
(* device on top of it and the FAT12 driver, drivers/fat12/fat12.c.        *)
(*                                                                         *)
(* A drive maps the numbers of its sectors to their cells.  A cell of the  *)
(* FAT is a byte; elsewhere it is a token of file contents or a field of a *)
(* directory entry, of which a directory entry has DIRENT.                 *)
(***************************************************************************)
EXTENDS Integers, Sequences, FiniteSetsExt

BLOCK  == 4        \* dev->block_size, and bytes_per_sector
DIRENT == 2        \* sizeof(struct fat12_directory_entry)
FAT_LAST_CLUSTER_NUM == 4095

-----------------------------------------------------------------------------
(* The ATA drive, behind its registers. *)

ata_pio_prepare_for_operations(lba, count) ==
    [drive_or_head |-> 224 + ((lba \div 2^24) % 16),       \* 0xE0: LBA mode, first drive
     sector_count  |-> count,
     sector_number |-> lba % 256,
     cylinder_low  |-> (lba \div 2^8) % 256,
     cylinder_high |-> (lba \div 2^16) % 256]

(* The sector a drive in LBA mode transfers for its registers. *)
AddressedSector(r) ==
    (r.drive_or_head % 16) * 2^24 + r.cylinder_high * 2^16 + r.cylinder_low * 2^8
        + r.sector_number

(* Command 0x20, then the words of the sector once the drive has them. *)
ata_pio_read(drive, lba) == drive[AddressedSector(ata_pio_prepare_for_operations(lba, 1))]

-----------------------------------------------------------------------------
(* The block device: a drive and the sector its partition starts at. *)

ata_pio_init(drive) == [drive |-> drive, partition_offset |-> 0]
create_partition_wrapper(parent, start) ==
    [parent EXCEPT !.partition_offset = @ + start]
read_block(dev, lba) == ata_pio_read(dev.drive, lba + dev.partition_offset)

(* Part of a block, whole blocks, part of a block. *)
read_blk_device_bytes(dev, offset, size) ==
    LET lba   == offset \div BLOCK
        head  == offset % BLOCK
        first == IF head = 0 THEN 0 ELSE Min({BLOCK - head, size})
        body  == IF head = 0 THEN lba ELSE lba + 1
        whole == (size - first) \div BLOCK
        rest  == (size - first) % BLOCK
    IN SubSeq(read_block(dev, lba), head + 1, head + first) \o
       [i \in 1 .. (whole * BLOCK) |->
            read_block(dev, body + (i - 1) \div BLOCK)[1 + ((i - 1) % BLOCK)]] \o
       (IF rest = 0 THEN <<>> ELSE SubSeq(read_block(dev, body + whole), 1, rest))

-----------------------------------------------------------------------------
(* The layout, from the header: reserved sectors, copies of the FAT, the    *)
(* root directory, clusters.                                                *)
load_fat12_header(dev) == read_blk_device_bytes(dev, 0, 1)[1]

load_fat12_info(header) ==
    LET rootBytes   == header.root_entry_count * DIRENT
        rootSectors == (rootBytes + BLOCK - 1) \div BLOCK
        fats        == header.table_count * header.table_size
    IN [sectors_per_cluster |-> header.sectors_per_cluster,
        fat_sectors         |-> header.table_size,
        fat_offset          |-> header.reserved_sector_count,
        root_sectors        |-> rootSectors,
        root_offset         |-> header.reserved_sector_count + fats,
        data_offset         |-> header.reserved_sector_count + fats + rootSectors]

init_fat12(dev) == [dev |-> dev, info |-> load_fat12_info(load_fat12_header(dev))]

get_fat(dev, info) ==
    read_blk_device_bytes(dev, info.fat_offset * BLOCK, info.fat_sectors * BLOCK)

(* Twelve bits of two neighbouring bytes. *)
get_next_cluster_id(id, fat) ==
    LET offset == id + id \div 2
        packed == fat[offset + 1] + 256 * fat[offset + 2]
    IN IF id % 2 = 1 THEN packed \div 16 ELSE packed % 4096

(* The clusters from id to the end of its chain; count_file_clusters is the *)
(* length.                                                                  *)
cluster_chain(id, fat) ==
    LET from[n \in Nat] ==       \* n links from the start
            IF n = 0 THEN id
            ELSE LET before == from[n - 1]
                 IN IF before = FAT_LAST_CLUSTER_NUM THEN before
                    ELSE get_next_cluster_id(before, fat)
        ends == {n \in 0 .. Len(fat) : from[n] = FAT_LAST_CLUSTER_NUM}
    IN [i \in 1 .. Min(ends) |-> from[i - 1]]

read_cluster(dev, id, info) ==
    read_blk_device_bytes(dev,
        (info.data_offset + (id - 2) * info.sectors_per_cluster) * BLOCK,
        info.sectors_per_cluster * BLOCK)

(* The kind of an entry is in its attributes and the first byte of its name. *)
is_final_directory_entry(entry) == entry.kind = "final"
is_volume_label_entry(entry) == entry.kind = "label"
is_deleted_entry(entry) == entry.kind = "deleted"
is_directory_entry_directory(entry) == entry.kind = "dir"

(* All clusters of an entry, and the size: of a directory that of its       *)
(* clusters, of a file that of its entry.                                   *)
get_file_content(dev, entry, info) ==
    LET chain   == cluster_chain(entry.first_cluster_id, get_fat(dev, info))
        cluster == info.sectors_per_cluster * BLOCK
        data    == [i \in 1 .. (Len(chain) * cluster) |->
                      read_cluster(dev, chain[(i - 1) \div cluster + 1], info)
                          [1 + ((i - 1) % cluster)]]
    IN [size |-> IF is_directory_entry_directory(entry) THEN Len(data) ELSE entry.file_size_in_bytes,
        data |-> data]

-----------------------------------------------------------------------------
(* Directories. *)

(* Entries before the final one that are neither deleted nor a label. *)
PastFinal(entries) ==                                               \* mutant
    SelectSeq(entries, LAMBDA e : ~ is_deleted_entry(e) /\ ~ is_volume_label_entry(e))
filter_valid_directory_entries(entries) ==
    LET final == {i \in DOMAIN entries : is_final_directory_entry(entries[i])}
        used  == IF final = {} THEN entries ELSE SubSeq(entries, 1, Min(final) - 1)
    IN SelectSeq(used, LAMBDA e : ~ is_deleted_entry(e) /\ ~ is_volume_label_entry(e))

(* The same entries counted, for the array that they are copied to. *)
count_valid_entries(entries) ==
    Cardinality({i \in DOMAIN entries :
        /\ \A j \in 1 .. i : ~ is_final_directory_entry(entries[j])
        /\ ~ is_deleted_entry(entries[i]) /\ ~ is_volume_label_entry(entries[i])})

(* An entry's fields are in its first cell. *)
entries_of(bytes, size) == [i \in 1 .. (size \div DIRENT) |-> bytes[(i - 1) * DIRENT + 1]]

get_root_directory_entries(dev, info) ==
    LET bytes == info.root_sectors * BLOCK
    IN entries_of(read_blk_device_bytes(dev, info.root_offset * BLOCK, bytes), bytes)

(* The blanks go, the extension gets its dot, letters become small. *)
tolower(c) == CASE c = "A" -> "a" [] c = "B" -> "b" [] OTHER -> c

fat_file_name_to_str(name, ext) ==
    LET dot   == IF Head(ext) = " " THEN " " ELSE "."
        chars == SelectSeq(name \o <<dot>> \o ext, LAMBDA c : c # " ")
    IN [i \in DOMAIN chars |-> tolower(chars[i])]

(* The first entry of that name. *)
get_path_element_dir_entry(entries, element) ==
    LET found == {i \in DOMAIN entries :
                    fat_file_name_to_str(entries[i].name, entries[i].ext) = element}
    IN IF found = {} THEN {} ELSE {entries[Min(found)]}

(* kmalloc asserts that there is an entry to keep. *)
Directory(entries) ==
    [result  |-> IF count_valid_entries(entries) = 0 THEN "panic" ELSE "dir",
     entries |-> filter_valid_directory_entries(entries)]

Failed(how) == [result |-> how, entries |-> <<>>]

(* fat12_open: one directory after the other, then the file.  A path        *)
(* element that is a file is read as a directory: its bytes are taken for   *)
(* entries.                                                                 *)
fat12_open(fs, path) ==
    LET dev  == fs.dev
        info == fs.info
        step(before, element) ==
            LET hit == get_path_element_dir_entry(before.entries, element)
                dir == CHOOSE e \in hit : TRUE
                c   == get_file_content(dev, dir, info)
            IN IF before.result # "dir" THEN before
               ELSE IF hit = {} THEN Failed("NULL")
               ELSE IF ~ is_directory_entry_directory(dir) /\ c.size >= DIRENT THEN Failed("undefined")
               ELSE Directory(entries_of(c.data, c.size))
        walk[n \in Nat] ==       \* the directory behind n elements
            IF n = 0 THEN Directory(get_root_directory_entries(dev, info))
            ELSE step(walk[n - 1], path[n])
        last == walk[Len(path) - 1]
        hit  == get_path_element_dir_entry(last.entries, path[Len(path)])
    IN IF last.result # "dir" THEN [result |-> last.result]
       ELSE IF hit = {} THEN [result |-> "NULL"]
       ELSE LET c == get_file_content(dev, CHOOSE e \in hit : TRUE, info)
            IN [result |-> "file", size |-> c.size, data |-> c.data]

=============================================================================
