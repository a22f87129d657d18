---------------------------- MODULE ProgramImage ----------------------------
(***************************************************************************)
(* Where a program's bytes go: load_binary_segments and find_heap_start of *)
(* kernel/elf_loader/elf_loader.c, byte by byte.  AddressSpace has what    *)
(* loading does to the page tables; their frames are not counted here.     *)
(***************************************************************************)
EXTENDS PhysicalMemory, Sequences, TLC

REGULAR_PAGE_SIZE == 2
GARBAGE == -1              \* what a frame holds when it is allocated

ALIGN_UP(x, align) == IF x % align = 0 THEN x ELSE x + align - (x % align)

PageOf(vaddr) == vaddr \div REGULAR_PAGE_SIZE

(* A segment, [vaddr, memsz, filesz, offset], is a header of type PT_LOAD;   *)
(* the others are skipped.                                                  *)
PagesOfSize(ph) ==                                                  \* mutant
    ALIGN_UP(ph.memsz, REGULAR_PAGE_SIZE) \div REGULAR_PAGE_SIZE
get_elf_segment_pages_count(ph) ==
    PageOf(ph.vaddr + ph.memsz + REGULAR_PAGE_SIZE - 1) - PageOf(ph.vaddr)

(* An image is what has been loaded: used frames, the mapping of pages to   *)
(* frames, and the bytes of memory.                                         *)
EmptyImage(used) == [result |-> "loaded", used |-> used, pages |-> <<>>,
                     byte |-> [a \in 0 .. (FRAMES * REGULAR_PAGE_SIZE - 1) |-> GARBAGE]]

(* pmm_alloc_pages asserts that it is asked for a page, and does not return *)
(* for more of them than there are; load_segment asserts that no page is    *)
(* mapped already.  vfs_read stops at the end of the file.                  *)
load_segment(image, ph, file) ==
    LET count == get_elf_segment_pages_count(ph)
        grant == pmm_alloc_pages(image.used, count)
        new   == PageOf(ph.vaddr) .. (PageOf(ph.vaddr) + count - 1)
        start == grant.frame * REGULAR_PAGE_SIZE + (ph.vaddr % REGULAR_PAGE_SIZE)
        read  == Max({0, Min({ph.filesz, Len(file) - ph.offset})})
        loaded(a) == a \in start .. (start + read - 1)
        zeroed(a) == a \in (start + ph.filesz) .. (start + ph.memsz - 1)
    IN IF image.result # "loaded" THEN image
       ELSE IF count > 0 /\ grant.frame = NEVER THEN [image EXCEPT !.result = "stuck"]
       ELSE IF count = 0 \/ new \cap DOMAIN image.pages # {}
       THEN [image EXCEPT !.result = "panic"]
       ELSE [image EXCEPT
               !.used  = grant.used,
               !.pages = [p \in DOMAIN @ \cup new |->
                            IF p \in new THEN grant.frame + p - PageOf(ph.vaddr) ELSE @[p]],
               !.byte  = [a \in DOMAIN @ |-> CASE loaded(a) -> file[ph.offset + a - start + 1]
                                               [] zeroed(a) -> 0
                                               [] OTHER     -> @[a]]]

load_binary_segments(used, segments, file) ==
    LET after[n \in 0 .. Len(segments)] ==
        IF n = 0 THEN EmptyImage(used) ELSE load_segment(after[n - 1], segments[n], file)
    IN after[Len(segments)]

find_heap_start(segments) ==
    ALIGN_UP(Max({segments[i].vaddr + segments[i].memsz : i \in DOMAIN segments}),
             REGULAR_PAGE_SIZE)

(* The four magic bytes, of which one is enough. *)
ELFMAG == <<127, 69, 76, 70>>
is_elf_file(e_ident) == \E i \in DOMAIN ELFMAG : e_ident[i] = ELFMAG[i]

(* A program without an entry point has been loaded when it is refused. *)
load_elf_to_memory(used, elf, file) ==
    LET image      == load_binary_segments(used, elf.segments, file)
        heap_start == find_heap_start(elf.segments)
    IN IF ~ is_elf_file(elf.e_ident) THEN [result |-> "NULL"]
       ELSE IF image.result # "loaded" THEN image
       ELSE IF elf.e_entry = 0 \/ heap_start = 0 THEN [result |-> "NULL"]
       ELSE image @@ [heap_start |-> heap_start]

=============================================================================
