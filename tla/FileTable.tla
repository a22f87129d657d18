------------------------------ MODULE FileTable ------------------------------
(***************************************************************************)
(* Open files and file descriptors: kernel/vfs/vfs.c, the file syscalls of *)
(* kernel/syscall/syscall_fileops.c, and what fork and exit do to the      *)
(* descriptors (kernel/process_manager/process_manager.c).                 *)
(*                                                                         *)
(* A vfs_file is shared by every descriptor that points to it: dup and     *)
(* fork copy the pointer and count it in file_ref_count, vfs_close frees   *)
(* the structure when the count drops to zero.  Each syscall is one step.  *)
(***************************************************************************)
EXTENDS Integers, FiniteSetsExt

CONSTANTS
    Procs,       \* process identifiers
    InitProc,    \* the process init_process_manager sets up
    Files,       \* vfs_file structures that can be allocated
    Tty,         \* the one opened for the descriptors of InitProc
    NULL,
    MAX_FDS,     \* MAX_PROCESS_FDS
    FILE_SIZE,   \* size of every regular file
    WORD,        \* 2^64: uint64_t holds 0 to WORD - 1
    COUNTS,      \* how much read is asked for
    OFFSETS      \* what lseek is given, an int64_t

(* g_process_list has MAX_PIDS slots. *)
ASSUME ProcsAssumption == InitProc \in Procs /\ IsFiniteSet(Procs)
ASSUME FilesAssumption == Tty \in Files /\ NULL \notin Files
ASSUME FdsAssumption   == MAX_FDS \in Nat /\ MAX_FDS >= 3
ASSUME SizeAssumption  == FILE_SIZE \in Nat
(* The size in a directory entry has 32 bits. *)
ASSUME WordAssumption  == WORD \in Nat /\ WORD % 2 = 0 /\ 2 * FILE_SIZE < WORD
ASSUME RequestsAssumption ==
    COUNTS \subseteq 0 .. (WORD - 1) /\ OFFSETS \subseteq -(WORD \div 2) .. (WORD \div 2 - 1)

VARIABLES
    alive,   \* processes that can make syscalls
    fds,     \* pcb->fds
    kind,    \* "free", "fat" (a FAT12 file), "dev" (a character device)
    ref,     \* file_ref_count
    pos,     \* file_position; 0 for devices, whose size is the largest uint64
    leaked,  \* files no descriptor was found for
    kernel   \* "up"; "panic"; "corrupt": a freed vfs_file is still in use, or
             \* a read went past the buffer of its file

vars == <<alive, fds, kind, ref, pos, leaked, kernel>>

Fd     == 0 .. (MAX_FDS - 1)
Kinds  == {"free", "fat", "dev"}
Live   == {f \in Files : kind[f] # "free"}
Users(f) == {x \in Procs \X Fd : fds[x[1]][x[2]] = f}

TypeOK ==
    /\ alive  \in SUBSET Procs
    /\ fds    \in [Procs -> [Fd -> Files \cup {NULL}]]
    /\ kind   \in [Files -> Kinds]
    /\ ref    \in [Files -> 0 .. (Cardinality(Procs) * MAX_FDS)]
    /\ pos    \in [Files -> Nat]
    /\ leaked \in SUBSET Files
    /\ kernel \in {"up", "panic", "corrupt"}

(* init_process_manager opens /dev/tty once and stores it three times. *)
Init ==
    /\ alive  = {InitProc}
    /\ fds    = [p \in Procs |-> [i \in Fd |->
                    IF p = InitProc /\ i \in 0 .. 2 THEN Tty ELSE NULL]]
    /\ kind   = [f \in Files |-> IF f = Tty THEN "dev" ELSE "free"]
    /\ ref    = [f \in Files |-> IF f = Tty THEN 1 ELSE 0]
    /\ pos    = [f \in Files |-> 0]
    /\ leaked = {}
    /\ kernel = "up"

-----------------------------------------------------------------------------
(* A syscall of p on descriptor i that passes is_fd_valid. *)
Calls(p, i) == kernel = "up" /\ p \in alive /\ fds[p][i] # NULL

FreeFds(p) == {i \in Fd : fds[p][i] = NULL}

(* vfs_close, n(f) times for each file f: the count stops at zero, and a    *)
(* structure whose count is zero is freed.                                  *)
CloseNeverFrees(n) ==                                               \* mutant
    /\ ref'  = [f \in Files |-> IF n[f] < ref[f] THEN ref[f] - n[f] ELSE 0]
    /\ UNCHANGED <<kind, pos>>
CloseBelowZero(n) ==                                                \* mutant
    LET freed(f) == n[f] > 0 /\ n[f] >= ref[f] IN
    /\ ref'  = [f \in Files |-> ref[f] - n[f]]
    /\ kind' = [f \in Files |-> IF freed(f) THEN "free" ELSE kind[f]]
    /\ pos'  = [f \in Files |-> IF freed(f) THEN 0 ELSE pos[f]]
CloseAll(n) ==
    LET freed(f) == n[f] > 0 /\ n[f] >= ref[f] IN
    /\ ref'  = [f \in Files |-> IF n[f] < ref[f] THEN ref[f] - n[f] ELSE 0]
    /\ kind' = [f \in Files |-> IF freed(f) THEN "free" ELSE kind[f]]
    /\ pos'  = [f \in Files |-> IF freed(f) THEN 0 ELSE pos[f]]

Once(f) == [x \in Files |-> IF x = f THEN 1 ELSE 0]

(* Freed structures go back to the heap and are reused: once a descriptor   *)
(* points to one, or one was closed again, nothing that follows is defined. *)
Settle(n) ==
    kernel' = IF \/ \E f \in Files : n[f] > ref[f]
                 \/ \E p \in Procs, i \in Fd :
                       fds'[p][i] # NULL /\ kind'[fds'[p][i]] = "free"
              THEN "corrupt" ELSE "up"

-----------------------------------------------------------------------------
(* syscall_open_handler: when every descriptor is taken, the file that was  *)
(* opened stays allocated.                                                  *)
Open(p, f, k) ==
    /\ kernel = "up" /\ p \in alive /\ kind[f] = "free"
    /\ kind' = [kind EXCEPT ![f] = k]
    /\ ref'  = [ref EXCEPT ![f] = 1]
    /\ IF FreeFds(p) = {}
       THEN leaked' = leaked \cup {f} /\ UNCHANGED fds
       ELSE fds' = [fds EXCEPT ![p][Min(FreeFds(p))] = f] /\ UNCHANGED leaked
    /\ UNCHANGED <<alive, pos, kernel>>

Close(p, i) ==
    /\ Calls(p, i)
    /\ CloseAll(Once(fds[p][i]))
    /\ fds' = [fds EXCEPT ![p][i] = NULL]
    /\ Settle(Once(fds[p][i]))
    /\ UNCHANGED <<alive, leaked>>

DupUncounted(p, i) ==                                               \* mutant
    /\ Calls(p, i) /\ FreeFds(p) # {}
    /\ fds' = [fds EXCEPT ![p][Min(FreeFds(p))] = fds[p][i]]
    /\ UNCHANGED <<alive, kind, ref, pos, leaked, kernel>>
Dup(p, i) ==
    /\ Calls(p, i) /\ FreeFds(p) # {}
    /\ fds' = [fds EXCEPT ![p][Min(FreeFds(p))] = fds[p][i]]
    /\ ref' = [ref EXCEPT ![fds[p][i]] = @ + 1]
    /\ UNCHANGED <<alive, kind, pos, leaked, kernel>>

(* An open newfd is closed before oldfd is counted again: between files     *)
(* that are the same one, the count dips before it is restored.             *)
Dup2(p, oldfd, newfd) ==
    LET f == fds[p][oldfd]
        g == fds[p][newfd]
    IN
    /\ Calls(p, oldfd) /\ oldfd # newfd
    /\ fds' = [fds EXCEPT ![p][newfd] = f]
    /\ \/ /\ g = f /\ ref[f] > 1
          /\ UNCHANGED <<kind, ref, pos, kernel>>
       \/ /\ g = f /\ ref[f] = 1       \* freed, then used
          /\ CloseAll(Once(f))
          /\ Settle(Once(f))
       \/ /\ g # f
          /\ ref'  = [x \in Files |-> IF x = f THEN ref[f] + 1
                                      ELSE IF x = g THEN ref[g] - 1 ELSE ref[x]]
          /\ kind' = [x \in Files |-> IF x = g /\ ref[g] = 1 THEN "free" ELSE kind[x]]
          /\ pos'  = [x \in Files |-> IF x = g /\ ref[g] = 1 THEN 0 ELSE pos[x]]
          /\ Settle([x \in Files |-> 0])
    /\ UNCHANGED <<alive, leaked>>

(* A word as an int64_t. *)
Signed(x) == IF x < WORD \div 2 THEN x ELSE x - WORD

(* vfs_fat12_read copies the bytes it is asked for, whatever its file has,  *)
(* and returns their number; vfs_read moves on by a positive one.           *)
vfs_fat12_read(f, bytes) ==
    /\ kernel' = IF pos[f] + bytes <= FILE_SIZE THEN "up" ELSE "corrupt"
    /\ pos' = [pos EXCEPT ![f] = IF Signed(bytes) > 0 THEN @ + bytes ELSE @]

(* vfs_read: no more than is left of the file, unless the sum wraps around. *)
(* What a device delivers is not counted here.                              *)
ReadPastEnd(f, n) ==                                                \* mutant
    kind[f] = "fat" /\ pos[f] < FILE_SIZE /\ vfs_fat12_read(f, n)
vfs_read(f, n) ==
    /\ kind[f] = "fat" /\ pos[f] < FILE_SIZE
    /\ IF (pos[f] + n) % WORD > FILE_SIZE
       THEN vfs_fat12_read(f, FILE_SIZE - pos[f])
       ELSE vfs_fat12_read(f, n)

Read(p, i, n) ==
    /\ Calls(p, i)
    /\ vfs_read(fds[p][i], n)
    /\ UNCHANGED <<alive, fds, kind, ref, leaked>>

(* The drivers of FAT12 and of the keyboard panic; the other devices take   *)
(* what they are given.                                                     *)
vfs_write(f) == kernel' \in IF kind[f] = "fat" THEN {"panic"} ELSE {"up", "panic"}

Write(p, i) ==
    /\ Calls(p, i)
    /\ vfs_write(fds[p][i])
    /\ UNCHANGED <<alive, fds, kind, ref, pos, leaked>>

(* A device's size is -1 as an int64, so every target is refused. *)
vfs_seek(f, offset, whence) ==
    LET new_pos == CASE whence = "SET" -> offset
                     [] whence = "CUR" -> Signed((pos[f] + offset) % WORD)
                     [] whence = "END" -> Signed((FILE_SIZE + offset) % WORD)
    IN /\ kind[f] = "fat" /\ new_pos \in 0 .. FILE_SIZE
       /\ pos' = [pos EXCEPT ![f] = new_pos]

Seek(p, i, offset, whence) ==
    /\ Calls(p, i)
    /\ vfs_seek(fds[p][i], offset, whence)
    /\ UNCHANGED <<alive, fds, kind, ref, leaked, kernel>>

Count(p) == [f \in Files |-> Cardinality({i \in Fd : fds[p][i] = f})]

(* pm_fork shares every descriptor. *)
Fork(p, c) ==
    /\ kernel = "up" /\ p \in alive /\ c \notin alive
    /\ alive' = alive \cup {c}
    /\ fds' = [fds EXCEPT ![c] = fds[p]]
    /\ ref' = [f \in Files |-> ref[f] + Count(p)[f]]
    /\ UNCHANGED <<kind, pos, leaked, kernel>>

(* pm_exit closes every descriptor; init cannot exit. *)
Exit(p) ==
    /\ kernel = "up" /\ p \in alive /\ p # InitProc
    /\ alive' = alive \ {p}
    /\ CloseAll(Count(p))
    /\ fds' = [fds EXCEPT ![p] = [i \in Fd |-> NULL]]
    /\ Settle(Count(p))
    /\ UNCHANGED leaked

Next == \E p \in Procs :
    \/ \E f \in Files, k \in Kinds \ {"free"} : Open(p, f, k)
    \/ \E i \in Fd :
          \/ Close(p, i) \/ Dup(p, i) \/ Write(p, i)
          \/ \E j \in Fd : Dup2(p, i, j)
          \/ \E n \in COUNTS : Read(p, i, n)
          \/ \E offset \in OFFSETS, whence \in {"SET", "CUR", "END"} :
                Seek(p, i, offset, whence)
    \/ \E c \in Procs : Fork(p, c)
    \/ Exit(p)

Spec == Init /\ [][Next]_vars

-----------------------------------------------------------------------------
(* Properties. *)

(* file_ref_count is the number of descriptors, over all processes, that    *)
(* point to the file; a file open() could not place counts one more; and    *)
(* the terminal of init is counted once for three descriptors.              *)
RefCountExact ==
    kernel = "up" => \A f \in Live :
        ref[f] = Cardinality(Users(f)) + (IF f \in leaked THEN 1 ELSE 0)
                                       - (IF f = Tty THEN 2 ELSE 0)

(* Except for that terminal, no descriptor of any process ever points to    *)
(* freed memory, whoever closed, duplicated, inherited or died in which     *)
(* order.                                                                   *)
DescriptorsLive ==
    \A f \in Files \ {Tty} : Users(f) # {} => f \in Live

(* A file that open() placed is freed with its last descriptor. *)
NoUnusedFile ==
    \A f \in Live \ leaked : Users(f) # {}

(* Both: the memory of a file lives exactly as long as a descriptor of some *)
(* process leads to it.                                                     *)
LiveWhileUsed == DescriptorsLive /\ NoUnusedFile

(* Reads and seeks of any size, through any of the descriptors that share   *)
(* it, leave the position inside the file: also a read that is so long that *)
(* the sum with the position wraps around and escapes the clamp of          *)
(* vfs_read, for its count is negative as an int64_t.  (Its copy has gone   *)
(* past the buffer by then, and the kernel is "corrupt".)                   *)
PositionInFile == \A f \in Files : pos[f] <= FILE_SIZE

=============================================================================
