# TLA+ specifications of TrazelOs

TrazelOs is a small x86-64 operating system in C: one CPU, preemptive processes,
a FAT12 disk, a keyboard and a screen. This directory specifies its boot loader,
its kernel and its C library's system calls in TLA+, checks the specifications
with TLC on small instances, and proves with TLAPS, for every value of the
constants, the safety properties of its concurrent parts and of its memory,
scheduler queues and consoles.

`PROJECT.json` lists, for every definition that models code, the lines it
models; the runs with their properties; for each property a mutation of the
model that breaks it; the hazards of the code; and the theorems.

## The system

| part | state | operations | what makes it hard |
|---|---|---|---|
| process manager (`kernel/process_manager/process_manager.c`) | `g_process_list`, PCBs | fork, execve, exit, wait, kill, fault | orphans, zombies, pid reuse, failing half way |
| scheduler (`scheduler.c`) | run queue, wait queues, `g_curr_task`, `g_cpu_is_idle` | block, wake, switch, idle | interrupts while it idles, lost wake-ups |
| traps (`syscall_entry.{c,asm}`, `hardware_intrrupts.asm`) | GS base, saved contexts | syscall, sysret, interrupt, iretq | in by one way, out by the other |
| keyboard (`drivers/ps2_keyboard`) | ring buffer, sleeping readers | read, interrupt | a key around an empty read, a full buffer |
| LAPIC timer (`apic.c`) | uptime, in-service bit | tick, EOI | the scheduler runs before the EOI |
| files (`kernel/vfs`, `syscall_fileops.c`) | `vfs_file`s, descriptor tables | open, close, dup, dup2, read, write, lseek | shared files, counts, full tables |
| physical memory (`pmm_bitmap.c`) | the bitmap | allocate, free | first fit at the ends, page 0 as NULL |
| kernel heap (`heap.c`) | two doubly linked lists | kmalloc, kfree | list surgery, splitting, large blocks |
| address spaces (`vmm.c`, `elf_loader.c`, `syscall_memops.c`) | page tables | map, clone, delete, load, brk | running out of frames half way |
| FAT12, block device, consoles, clock | disk, screen | open, read, write | formats and boundaries |
| boot loader (`boot/mbr`, `boot/bootloader`) | memory, page tables | find the partition, load and map the kernel | two stages that choose by different rules, memory never cleared |
| start of the kernel (`kernel/kmain.c`) | what is up | one `init_` after the other | each part uses earlier ones; firmware of any kind |
| CPU tables (`gdt`, `interrupts`, `syscall_entry.c`) | GDT, TSS, IDT, STAR | written once | bit fields that assembly, C and CPU must agree on |
| interrupt routing (`kernel/acpi`, `apic.c`) | redirection entries, LAPIC registers | parse tables, route a line, calibrate the timer | overrides, what the firmware left behind |
| devices and printk (`vfs/devfs.c`, `drivers/char_device.c`, `kernel/printk`) | the table of devices | register, open, read, write, format | fan-out to two outputs, numbers at their edges |
| C library (`buildenv/newlib_libc`) | registers | one stub per call, `sbrk` | numbers and registers of two sides |

The parts meet in the process manager: a syscall blocks on a wait queue, the
scheduler picks another context and leaves by the path it was entered by; the
keyboard interrupt and `pm_exit` wake sleepers; fork and exit count references
of files and clone or abandon page tables; heap and page tables compete for the
frames of the PMM. Before there are processes the parts meet in time: `kmain`
brings them up in an order that each relies on.

## Modules

| module | models | state and actions |
|---|---|---|
| `ProcessManager` | process manager, scheduler, keyboard, timer | `st`, `ppid`, `kill` are fields of the PCBs; `runq`, `waitq` the queues; `cpu` what executes. One action per syscall, per interrupt, and `IdleWake` for the idle loop finding a process |
| `ProcessLifecycle` | what the process manager promises | a life and a parent for each process; abstract specification |
| `MCProcessManager` | — | the refinement mapping and the instance for TLC |
| `TrapContext` | entry and exit paths, context switch | GS base, user registers, saved contexts; one action per way in, `Leave` for the ways out |
| `FileTable` | open files and descriptors | `fds`, `kind`, `ref`, `pos`; one action per file syscall, fork and exit |
| `PhysicalMemory` | the PMM | allocation and release as operators on the set of used frames |
| `KernelHeap` | `heap.c`, on `PhysicalMemory` | headers by address, so that links, heads and tail are those of the code |
| `Allocator` | what the heap promises | the pieces of memory that callers own, large enough and apart; abstract specification |
| `MCKernelHeap` | — | the refinement mapping and the instance for TLC |
| `AddressSpace` | page tables, ELF loading, brk, on `PhysicalMemory` | one record of frames per process; fork, execve, brk, exit, wait |
| `BootMemory` | `init_pmm`, `bitmap.c` | where the bitmap goes and which frames are free, from a memory map |
| `ProgramImage` | `elf_loader.c`, on `PhysicalMemory` | the bytes of segments in frames |
| `Storage` | ATA driver, `block_device.c`, `fat12.c` | sector addressing, reading bytes, FAT links, directories and paths, as operators on a disk |
| `TaskQueues` | the linked lists of `scheduler.c` | heads, rears and the one `next` link, beside the sequences that `ProcessManager` has for them |
| `Console` | framebuffer and VGA text screens | a character at a time on a record of cursor and cells |
| `Clock` | `rtc_cmos.c`, `time.c` | registers to date, date to days and seconds, time of day |
| `TrapTables` | GDT, TSS, IDT, STAR, the frames of the stubs | what the CPU finds, and a trap in by one way and out by another |
| `SystemCalls`, on `TrapTables` | the library's stubs, the dispatch, `sbrk` | a call from registers to handler and back |
| `InterruptRouting`, on `TrapTables` | ACPI, MADT, I/O APIC, LAPIC, tables of handlers | the machine is a record that firmware filled; the kernel a record `k` |
| `Devices`, on `InterruptRouting` | character devices, devfs, printk | writes append to the outputs of `k` |
| `KernelBoot`, on `Devices` | `kmain` | one step per `init_`, with what it uses |
| `BootLoader`, on `Storage` | MBR, modes of the CPU, stage 2 | memory as cells, page tables among them |
| `Questions` | — | a behaviour picks a question and an input, and answers it |
| `MCBootLoader`, `MCTrapTables`, `MCKernelBoot` | — | inputs and references for the modules of these names |
| `MCKernelParts` | — | the page allocator and its start, the scheduler's queues and the consoles on all small inputs, against references |
| `MCAlgorithms`, on `MCKernelParts` | — | all sequential parts on all small inputs |
| `KernelTheorems` | — | lemmas on queues, scans, loops and what the PMM returns, shared by the proofs |
| `ProcessManagerProofs` | — | proofs about `ProcessManager`; it implements `ProcessLifecycle` |
| `TrapContextProofs`, `FileTableProofs` | — | proofs about the modules of these names |
| `KernelHeapProofs` | — | lists and blocks of the heap; it implements `Allocator` |
| `PageTableProofs`, `AddressSpaceProofs` | — | what the operators of `AddressSpace` keep; its invariants |
| `AlgorithmProofs` | — | the parts of `MCKernelParts` on inputs of every size |

The sequential parts are operators and not actions: they run once, or to their
end with interrupts off, and what can be wrong with them is what they compute.

### Granularity

The kernel runs with interrupts off: `SYSCALL` clears IF through FMASK and the
IDT holds interrupt gates. A syscall or an interrupt handler is therefore one
action. The one place where the kernel enables interrupts is the idle loop of
`pm_load_next_ready_process` (`sti; hlt; cli`); it is a state of its own (`cpu =
"idle"`, or `"idle_in_timer"` when the loop was entered from the timer handler
and its EOI is still to come), in which interrupts are actions of their own.

### What is abstracted

* `ProcessManager`: the bytes of keys (counted), exit statuses, registers.
  Whether `kmalloc` returns zeroed memory is the constant `HEAP_ZEROED`: with
  `FALSE` a new wait queue may hold garbage and touching it is `"corrupt"`.
* `TrapContext`: of the registers only rip (at a syscall instruction or not) and
  the pair rcx/r11. Which process is whose parent, and what a process waits
  for, is left open, so that the model allows more wake-ups than the code.
* `FileTable`: contents; a device is a file without position. `uint64_t` has
  `WORD` values: a long read makes `file_position + size` wrap around, escapes the
  clamp of `vfs_read` and copies past the buffer, while its negative count keeps
  the position where it is. After that, or after a freed `vfs_file` is in use,
  nothing is defined: the model stops in `"corrupt"`.
* `PhysicalMemory`: when `pmm_alloc_pages` is asked for more frames than there
  are, `bit_count - count` wraps around, and as every frame behind the last counts
  as used it searches on over some 2^64 of them. The model has that as no answer
  (`NEVER`); the heap is then `"stuck"`, a load `"stopped"`.
* `KernelHeap`: memory in units of 32 bytes, the size of a header, to which
  every request is rounded. Freed pages keep their stale headers; the `VIEW` of
  the run leaves them out because the code reads no header that is neither on a
  list nor allocated.
* `AddressSpace`: two levels of page tables stand for four, pages have no
  contents, `brk` counts half pages so that unaligned breaks occur. `"stopped"` is
  a kernel that panicked, or one in a search that does not end.
* `Storage`: sectors of four cells; a directory entry is two cells, its fields in
  the first. A block read does not fail, and the drive has its data at once.
  Chains have at least one cluster and end with 0xFFF; for others `cluster_chain` has no value.
* `Console`: glyphs are the characters they draw. `outside` records a write that
  missed the screen.
* `Clock`: days and seconds are kept apart where the code multiplies them; the
  `int` product overflows from 2039 on, which is outside the model. The registers
  of the CMOS are read in one piece.
* `ProgramImage`: the program headers are a list of segments. `is_elf_file` takes
  a file for ELF when any one of the four magic bytes is right, and so does the
  model, against the comment on its declaration (a finding): `SegmentsInPlace` is
  about files with all of the bytes or none.
* `TrapTables`, `SystemCalls`: registers are numbers that tell them apart. An
  address is four 16-bit words, so that the pieces of a descriptor are those of
  the code. `gettimeofday` of the library fails with ENOSYS although the kernel
  serves number 96; it makes no call and is not asked about.
* `InterruptRouting`: a table is a record with the sum of its bytes. Of several
  I/O APICs the code keeps the last of the MADT, and of a redirection entry it
  sets vector, mask and destination. When the I/O APIC of the ISA lines is listed
  before another one, the code programs a pin that the keyboard is not on; when
  the firmware left another delivery mode, a logical destination or an active-low
  pin, that stays. No key arrives then, and `IrqsReachHandlers` says so. The
  kernel runs on the CPU with APIC id 0.
* `Devices`: `%d` converts a 16-bit int where the code has 32 bits.
* `KernelBoot`: a step whose needs are not up, or a missing serial port or
  framebuffer, is `"undefined"`.
* `BootLoader`: page tables have 16 entries and a page 16 cells; a cell is a
  byte, a page-table entry or a field. The BIOS reads sectors by cylinder, head
  and sector of a small geometry. With A20 off an address loses its bit 20, which
  the loader's heap at 0x180000 is behind; the regions that the BIOS reports are
  counted and otherwise left out, since nothing reads them.

## Runs

| run | instance | result |
|---|---|---|
| `PMSafety` | 4 pids, a buffer of one key, a switch on every tick | seven properties hold, 412 060 states |
| `PMLiveness` | 3 pids, buffer of 2, a switch on every second tick, fairness | three liveness properties and the refinement hold, 21 200 states |
| `FileTable` | 2 processes, 3 files, 4 descriptors, files of size 2, integers of six values | four properties hold, 317 628 states |
| `KernelHeap` | 4 pages of 6 units, requests of 1, 2, 4, 6 and 24 units | four properties hold, 89 878 states |
| `AddressSpace` | 2 processes, 13 frames, 5 user pages, 3 pages to a table | five properties hold, 102 075 states |
| `TrapContext` | 3 processes | four properties hold, 125 699 states |
| `Algorithms` | every input of the bounds below | twelve properties hold, 272 842 states |
| `PMIdleHearsKeyboard` | 2 pids, fairness | violated: idle inside the timer handler |
| `PMInitNoSleepOnZombie` | 4 pids | violated: zombies handed over to init |
| `PMQueueMemoryValid` | heap not zeroed | violated: uninitialised wait queue |
| `ASEveryPageBacked` | 3 processes | violated: clone without memory |
| `TCRegistersKept` | 2 processes | violated: sysret after a preemption |

What the properties of the passing runs say, beside the type invariants:

* `PMSafety`. No process is lost between queues (`NoProcessLost`). A PCB is in at
  most one queue, once, and in the queue's state (`QueueLinksExact`). Every process
  has a living parent, and the assertion of `pm_exit` fails for init only
  (`FamilyTree`). Nobody sleeps while a key is buffered (`NoSleepOnInput`) or, init
  apart, while a child is a zombie (`NoSleepOnZombie`). A zombie stays one until
  it is reaped (`ZombieFinal`).
* `PMLiveness`. A runnable process runs (`RunnableRuns`), a killed one that can be
  scheduled stops (`KilledStops`), and as long as characters keep arriving every
  process asleep for the keyboard gets the CPU again (`ReaderServed`), however
  many others share its queue, are killed or drain the buffer before it; and the
  process manager implements `ProcessLifecycle`.
* `FileTable`. Counts are the number of descriptors, no file in use is freed, and
  positions stay in the file, also when a sum wraps around.
* `KernelHeap`. Both lists are whole in both directions, blocks tile their pages,
  and the heap implements `Allocator`: a call hands out or takes back one block,
  which is large enough and overlaps no other, and no call touches the header of
  a block that somebody holds.
* `AddressSpace`. No frame has two owners, none is lost, cr3 never names a freed
  table, and the heap below the break is mapped.
* `TrapContext`. User mode has the user's GS base, and every syscall the kernel's
  behind its swapgs (`GsMatches`; interrupts execute no swapgs and use no GS). A
  blocked call is made again, and the scheduler never switches away from ring 0.
* `Algorithms`. `FirstFit`, `BitmapProtectsItself`, `SegmentsInPlace`,
  `ClockFollowsCalendar`, `ScreenIsWindow` as their names say. `QueuesLinked`: the
  linked queues are the sequences of `ProcessManager` after any history.
  `OpenFindsFile`: a path finds what the tree on the disk has, read without a gap
  over blocks and over the carries of the drive's address registers.
  `StageTwoStarts`: the MBR and stage 2 agree on the partition wherever an active
  FAT12 partition is the first active one. `KernelInPlace`: the kernel is at its
  addresses with a zeroed tail, and no table or buffer of the loader overwrites
  another. `TrapsRoundTrip`: a trap enters ring 0 at its stub and the program
  gets back its registers and segments by any way out; the library's calls reach
  the handler of their name. `IrqsReachHandlers`: how the start ends on a machine
  that is whole or lacks one thing, with what is used without asking; and once it
  is up, a tick reaches its handler, a key does exactly on the machines described
  above under `InterruptRouting`, the other lines are as the firmware left them,
  and of the faults of programs the SIMD one alone, which has no handler, stops
  the kernel. `SameOnBothOutputs`: the serial
  line and the screen show the same, and what printk's format means.

The violated properties state what a comment of the code says; the findings of
`PROJECT.json` quote it.

Bounds. Four pids give a grandparent, a parent, a child and a bystander, which
is what hand-over, reaping and pid reuse need, and a full table. Three
descriptors are taken by the terminal, so the fourth fills the table and the
next open fails. Four heap pages (one reserved) hold a split page, a large block
of two pages, an allocation that fails and one larger than the memory; six units
to a page allow blocks that
are split, taken whole, and left with a rest too small to split. Thirteen frames
are enough for two spaces and too few for an execve beside them, so that every
allocation failure occurs; the reserved frame 3 makes runs of frames skip.
Deadlock is not checked: a panicked machine stops.

A file of size two in integers of six values has a position inside, behind which a
read can wrap around. Reads ask for one, two and `WORD - 1` bytes: less than the
file, the whole of it or more than is left, and a sum that wraps; seeks go one back,
nowhere and one on from each of the three places. `MovedAlone` is a state
constraint: states where a file has moved off its start while another file of
FAT12 is open are checked and not followed. No operation reads the positions of
two files, and files that share descriptors at position 0 are all followed.

`Algorithms`. All sets of eight frames and runs of up to nine; all memory maps of
up to three entries in twelve bytes, with pages of two bytes and bytes of two
bits, where the bitmap takes up to two pages and the ACPI tables may end within a
page; pairs of segments of up to three bytes
at every place of a page of two bytes, and one larger than the memory; the ends
of all months from 2000 to 2038; all texts of up to seven characters on a screen of two rows of two, which
scrolls up to six times (a backspace on the VGA console never goes above the
first cell); reads at all offsets of three blocks; all placements of a directory
and a file in chains of one or two clusters among four, with clusters of one and
of two sectors, on partitions that start below a carry of the 28-bit address.
All histories of five calls of the scheduler with four tasks, from one task and
from four. All tables of four partitions with one kernel, and one table with
kernels of up to five fragmented clusters and two segments, some of which
exhaust the loader's memory. All 254 vectors and the syscall with four ways out;
`sbrk` over pages of two bytes, by increments that leave the break at 0 or
above. Machines with both generations of ACPI tables, four wirings of the ISA
lines, redirection entries as after a reset and as a firmware leaves them, masked
or open and in each of the modes, two speeds of the timer (whose counter has 30 bits in place of 32, for TLC's
integers), two I/O APICs in either order, and twelve machines that lack something.
Stage 2 starts with A20 on and off. All formats of up to five characters, and
every directive with numbers at the edges. The references are independent of the
code: the least free run, the calendar's next day, a sheet of paper without an end, the tree a disk was
built from, sequences for linked lists, the wiring of a machine.

Fairness (`FairSpec`): the LAPIC timer is periodic, so a tick that can be
delivered is, eventually; a raised interrupt line stays raised until it is
served; the idle loop re-tests after every `hlt`. Nothing is assumed of the
programs or of the person at the keyboard; that keys keep being typed is a
hypothesis of `ReaderServed`.

Symmetry is used in `FileTable` only, over the files other than the terminal,
with invariants only.

## Proofs

Every theorem is for all values of the constants that satisfy the assumptions
named in the modules. For the components with actions the pattern is the same: an
invariant `IInv` that `Init` establishes and every action preserves, with one lemma
per action, and the properties of the runs as its consequences. These invariants
were first checked with TLC (the ranks of `KernelHeapProofs` as the positions in the
chains).

| module | proved |
|---|---|
| `ProcessManagerProofs` | `TypeOK`, `NoProcessLost`, `QueueLinksExact`, `FamilyTree`, `NoSleepOnInput`, `NoSleepOnZombie`, the action property `ZombieFinal`, and `ImplementsLifecycle`, the refinement of `ProcessLifecycle` |
| `TrapContextProofs` | `TypeOK`, `GsMatches`, `BlockedRestarts`, `NoSwitchInRing0` |
| `FileTableProofs` | `TypeOK`, `RefCountExact`, `LiveWhileUsed`, `PositionInFile` |
| `KernelTheorems` | `FirstFitInAnyMemory`, and the lemmas that several modules use |
| `KernelHeapProofs` | `TypeOK`, `ListsIntact`, `BlocksTile`, and `ImplementsAllocator`, the refinement of `Allocator` |
| `PageTableProofs` | the lemmas on mapping, loading, growing and cloning |
| `AddressSpaceProofs` | `TypeOK`, `FramesExclusive`, `FramesAccounted`, `Cr3Held`, `HeapMapped` |
| `AlgorithmProofs` | `FirstFit`, `BitmapProtectsItself`, `QueuesLinked`, `ScreenIsWindow` |

**Process manager.** For at least two slots, any buffer capacity, any tick
divisor and any heap. None of the properties is inductive alone. That a woken
process is not in the run queue already needs that queues are disjoint and hold
processes in the right state; that the parent's slot is in use when a process
exits needs that every parent is alive, which needs that nobody is its own parent
and that init never dies before a panic (`InitIsRoot`); that nobody sleeps on a
zombie needs that a sleeper in `parent_wait_queue` is its owner (`OwnQueueOnly`).
`IInv` is their conjunction. `Exit`, `Exception` and a tick that finds a killed
process share `ExitPreserves`, and `WaitBlock` and `Read` share `BlockPreserves`.

**Refinement.** Under the mapping of `MCProcessManager` (`Life`, the parent, and
the end of the world for a panic) every step of `ProcessManager` is a step of
`ProcessLifecycle` or leaves its variables alone. The step simulation uses `IInv`:
the process that runs next is one the abstract specification has as runnable
because it comes from the run queue, which holds ready processes only.

**Traps.** For any finite set of processes. `OnePlace` (a process is running,
queued once, asleep or dead) gives that the process the kernel leaves with has a
saved context of its own; GS and the way out are then decided by the mode of
that context and the way in. `GsBase` is the inductive part of `GsMatches`: while
the kernel idles the base depends on the way in, and only because the way out is
the same one does user mode always get its own back.

**Files.** For any finite set of processes, any files, descriptors and size, and
any even width of integers with twice that size below it. The
invariant is about counts: `ref` is the cardinality of the set of pairs of a
process and a descriptor, so that each action adds or removes elements of that
set. `fork` and `exit` move a whole row of the table at once and need that the
rows are disjoint and finite. `ReadFacts` has the cases of a read: clamped, whole,
or wrapped around, and then negative.

**Address spaces.** For any memory, any number of pages and pages to a table, any
programs with at least one segment (which `find_heap_start` asserts), an init
that ends below its stack, and a memory that is big enough for init. `IInv`
says that while the kernel is up the entries of all spaces lead to different
frames, that none is free or reserved, and that the rest of the used frames are
reserved or lost. Each loop of the code (segments, pages of a segment, pages of
`brk`) is a recursive function on the number of rounds, and what it keeps is
proved by induction on rounds: `Exact` (the build's frames are the entries of its
tables) and `Fresh` (they were free before). `LoopExists` shows that such a
function exists, `IndexInduction` is induction from well-foundedness. The clone
numbers the entries of the parent and hands out the free frames by number, so
that no two entries share one (`RankInjective`, `NthFreeFacts`). `HeapMapped` is
proved for programs without a gap between their segments, which is the
hypothesis of `HeapHasNoHole` and what the linker makes; with a gap it is false.

**Physical memory.** `FirstFitInAnyMemory` says of `pmm_alloc_pages`, asked for at
most all frames, what `FirstFit`
checks on eight frames: the lowest free run that is long enough, or a refusal when
there is none. `AllocPage` and `AllocRun` are what heap and page tables need of it.

**Kernel heap.** For any memory, pages of at least two units, any requests, with
frame 0 and any others reserved. Following links is a recursion, so the
invariant does not follow them: `Sound` says that there are sets `S` and `F` of
blocks and a rank for each unit such that links stay in the set, `prev` undoes
`next`, and every link climbs in rank (`List`). Without ranks `S` could
hold a cycle beside the list, blocks that no walk from the head meets and that the
code has lost. Each change of a list has a lemma that gives the new
ranks: `Unlink`, `Relink`, `PushFront`, `PushBack`. `ChainIsList` shows that the
blocks reached from the head are then all of `S`, and `FindsBlock` that the
search ends at NULL or at a block of the list that is big enough: a walk of more
steps than there are units would meet a block twice (`Pigeonhole`), and ranks only
climb. `Tile` says that blocks are disjoint and cover the heap's pages,
with a lemma each for a split, a new run of pages and a returned one
(`TileSplit`, `TileGrow`, `TileShrink`). `Placed` joins them with what `kfree`
relies on: listed blocks are small, and an allocated one that is not is made of
whole pages (`Whole`), so that the pages worked out from its header are its own.

`HeapIsAllocator` maps a caller's block to the units behind its header and every
step of the heap to a step of `Allocator` or a stutter. A piece that is handed out
is apart from all others because it is a block of the lists and `Tile` keeps those
apart from the callers'; it is at least as large as asked for because
`FindsBlock` stopped there, because the split leaves that much, or because the run
of pages was rounded up. That the other pieces stay as they are is that the
surgery on the lists writes headers of listed blocks only.

**Sequential parts.** The theorems of `AlgorithmProofs` are about `PartsSpec`: a
question about one of the parts of `MCKernelParts` and its answer, or any other
question with any answer. The `Spec` of `MCAlgorithms` asks and answers the same
ones in the same words (`PartsAsk`, `PartsAnswer`) and is a special case; the
proofs are about the weaker one so that the definitions of all the other parts are
not before the provers. The sizes of the inputs are constants, so that the
theorems are for inputs of every size.

* `AllocatorTakesFirstFit`: `FirstFitInAnyMemory`, and no answer to a request for
  more than the memory.
* `BootFreesUsable`: for any size of pages and bytes and any memory map in which the
  usable entries are whole pages, which Limine promises. Bits, bytes and pages are
  rounded one after the other; `QuotientBelow` and `RoundedUp` turn each quotient
  into a product. `OwnPages` shows that the pages marked for the bitmap are exactly
  those that hold a byte of it, `RamTop` that no usable page is behind the last bit,
  and `BitsSet` that a bit has one place in the bytes.
* `SchedulerKeepsLines`: for any number of tasks, any wait queues and any history.
  The invariant `Rep` relates heads, rears and the one `next` link to a sequence per
  queue: the links lead along the sequence and the last is NIL (`Strung`), no task
  is in two queues, the running one is in none, and all of them were made before.
  `HoldsEnqueue`, `HoldsDequeue` and `HoldsWake` are the changes of
  lists, `StepInLine` is one call of the scheduler, and `HistoryInLine` the induction
  over the history. That no line is longer than there are tasks, which ends the
  loop of `pm_waitqueue_dequeue_all`, is `Pigeonhole` again (`QueueFits`).
* `ConsolesShowWindow`: for any text, on any screen of at least two rows whose cells
  a `uint16_t` counts, which is the type of the VGA console's cursor (80 by 25 in the
  code), where a backspace on the VGA console never goes above the first cell. The
  invariant `Showing` relates the screen to an endless sheet: what the screen has in
  a cell the sheet has as many rows lower as the screen has scrolled (`View`), and
  behind the cursor the sheet is empty. There is a lemma for each of the things a
  character can do: `PutViews`, `NewLineViews`, `EraseViews`, `SlideViews`.

Only model-checked:

* Liveness, which rests on fairness and ENABLED, out of the prover's reach.
* `SegmentsInPlace`, `OpenFindsFile`, `StageTwoStarts`, `KernelInPlace`,
  `TrapsRoundTrip`, `IrqsReachHandlers` and `SameOnBothOutputs`: they are about
  formats with fixed geometries (sectors, descriptors, ACPI tables, printk's
  directives) and about disks and machines that are built for the run, all of which
  TLC goes through. What their folds compute for longer inputs would need an
  induction over data for each.
* `ClockFollowsCalendar`: the run has the ends of all months of all the years
  for which the code's arithmetic is defined.

## Not modelled

* Time inside I/O: the busy bits of the ATA drive and of the PIT, a CMOS update
  between two registers. Block writes have no caller.
* Drawing glyphs and the font, the VGA cursor registers, the boot loader's text
  output and its print-outs of tables; formatting outside printk.
* The entries of the BIOS memory map that the boot loader collects: the kernel
  takes its map from Limine, whose code is not in the repository.
* `vmm_unmap_page`, which has no caller among the modelled parts, and the kernel
  half of the page tables, which is the same in all spaces.
* The listing functions of the FAT12 driver, which nothing calls.
* User programs are the environment: any sequence of syscalls. `legacy_src/` is
  not built.

## Plan

1. Composition of files and processes: descriptors over exit, kill and fault;
   the fan-out character device.
2. An abstract specification for address spaces (private memory), with
   refinement.
