----------------------------- MODULE BootMemory -----------------------------
(***************************************************************************)
(* How the page allocator starts: init_pmm of kernel/mm/pmm/pmm_bitmap.c   *)
(* finds a place for its bitmap in the bootloader's memory map.            *)
(***************************************************************************)
EXTENDS Integers, Sequences, FiniteSetsExt

CONSTANTS
    PAGE_BYTES,       \* REGULAR_PAGE_SIZE
    BITS_PER_BYTE

ASSUME BytesAssumption == PAGE_BYTES \in Nat \ {0} /\ BITS_PER_BYTE \in Nat \ {0}

DIV_ROUND_UP(x, align) == (x + align - 1) \div align

(* A map is a sequence of entries [base, length, type], in bytes. *)
EntriesOf(memmap, types) == {i \in DOMAIN memmap : memmap[i].type \in types}

(* The end of the memory that is or will be free; the tables of ACPI and    *)
(* what the bootloader leaves behind count, reserved memory does not.       *)
get_ram_max_size(memmap) ==
    Max({0} \cup {memmap[i].base + memmap[i].length :
                    i \in EntriesOf(memmap, {"usable", "acpi", "bootloader"})})

bits_needed(memmap)  == get_ram_max_size(memmap) \div PAGE_BYTES
bytes_needed(memmap) == DIV_ROUND_UP(bits_needed(memmap), BITS_PER_BYTE)

PagesRoundedDown(memmap) == bytes_needed(memmap) \div PAGE_BYTES    \* mutant
pages_needed(memmap) == DIV_ROUND_UP(bytes_needed(memmap), PAGE_BYTES)

(* The first usable entry that is large enough, -1 without one. *)
get_bitmap_region(memmap) ==
    LET large == {i \in EntriesOf(memmap, {"usable"}) :
                    memmap[i].length >= bytes_needed(memmap)}
    IN IF large = {} THEN -1 ELSE Min(large)

mark_region_free(entry) ==
    {entry.base \div PAGE_BYTES + i : i \in 0 .. (entry.length \div PAGE_BYTES - 1)}

(* A byte of a bitmap is the set of its bits that are 1. *)
bitmap_create(bit_count) ==
    [bit_count |-> bit_count,
     bitmap |-> [i \in 0 .. (DIV_ROUND_UP(bit_count, BITS_PER_BYTE) - 1) |-> {}]]

bitmap_set_bit_value(b, bits, value) ==       \* of each of the bits
    LET offsets(i) == {bit % BITS_PER_BYTE : bit \in {x \in bits : x \div BITS_PER_BYTE = i}}
        byte(i)    == IF value THEN b.bitmap[i] \cup offsets(i) ELSE b.bitmap[i] \ offsets(i)
    IN [b EXCEPT !.bitmap = [i \in DOMAIN b.bitmap |-> byte(i)]]

bitmap_get_bit_value(b, bit) == bit % BITS_PER_BYTE \in b.bitmap[bit \div BITS_PER_BYTE]

(* All frames used, then the usable ones free, then the bitmap's own used.  *)
(* A bit out of bounds is an assertion.                                     *)
init_pmm(memmap) ==
    LET region == get_bitmap_region(memmap)
        frames == 0 .. (bits_needed(memmap) - 1)
        zeros  == bitmap_create(bits_needed(memmap))
        full   == [zeros EXCEPT !.bitmap = [i \in DOMAIN zeros.bitmap |-> 0 .. (BITS_PER_BYTE - 1)]]
        free   == UNION {mark_region_free(memmap[i]) : i \in EntriesOf(memmap, {"usable"})}
        own    == {memmap[region].base \div PAGE_BYTES + i : i \in 0 .. (pages_needed(memmap) - 1)}
        ready  == bitmap_set_bit_value(bitmap_set_bit_value(full, free, FALSE), own, TRUE)
    IN IF region = -1 THEN [result |-> "panic: no region"]
       ELSE IF ~ (free \cup own \subseteq frames) THEN [result |-> "panic: out of bounds"]
       ELSE [result    |-> "ready",
             bitmap    |-> memmap[region].base,
             bit_count |-> ready.bit_count,
             used      |-> {p \in frames : bitmap_get_bit_value(ready, p)}]

=============================================================================
