--------------------------- MODULE ProcessManager ---------------------------
(***************************************************************************)
(* The process manager and the round-robin scheduler of the kernel:        *)
(* kernel/process_manager/{process_manager,scheduler}.c, the blocking tail *)
(* of the syscall dispatcher (kernel/syscall/syscall_entry.c), the LAPIC   *)
(* timer handler and the PS/2 keyboard handler, which are the two hardware *)
(* interrupts that reach the scheduler.                                    *)
(*                                                                         *)
(* One CPU.  SYSCALL clears IF (FMASK) and every IDT entry is an interrupt *)
(* gate, so a syscall or an interrupt handler runs to completion and is    *)
(* one action.  The exception is the idle loop inside                      *)
(* pm_load_next_ready_process: it executes "sti; hlt", so interrupts are   *)
(* taken there while the syscall, or the timer interrupt, that entered the *)
(* loop is still unfinished.                                               *)
(***************************************************************************)
EXTENDS Integers, Sequences, FiniteSetsExt

CONSTANTS
    MAX_PIDS,        \* length of g_process_list; slot 0 is never used
    KBD_CAPACITY,    \* characters the keyboard ring buffer holds
    TICKS_PER_SWITCH,\* timer ticks between two calls of the scheduler
    HEAP_ZEROED      \* TRUE iff kmalloc returns zeroed memory

ASSUME PidsAssumption  == MAX_PIDS \in Nat /\ MAX_PIDS >= 2
ASSUME KbdAssumption   == KBD_CAPACITY \in Nat \ {0}
ASSUME TicksAssumption == TICKS_PER_SWITCH \in Nat \ {0}
ASSUME HeapAssumption  == HEAP_ZEROED \in BOOLEAN

VARIABLES
    st,      \* process_state of each slot, "free" when the slot is NULL
    ppid,    \* parent pid
    kill,    \* kill_signal
    waitq,   \* the wait queues: one per process and the keyboard's
    junk,    \* wait queues whose memory holds garbage (kmalloc does not zero)
    runq,    \* g_runnable_tasks
    curr,    \* g_curr_task
    cpu,     \* what the CPU is executing
    ticks,   \* g_system_lapic_timer_uptimer modulo TICKS_PER_SWITCH
    keys,    \* characters in the keyboard ring buffer
    kbdIrq   \* the keyboard's interrupt request is raised

vars == <<st, ppid, kill, waitq, junk, runq, curr, cpu, ticks, keys, kbdIrq>>

Pids     == 1 .. (MAX_PIDS - 1)
InitPid  == 1
Keyboard == 0                       \* the wait queue of the keyboard device
Queues   == {Keyboard} \cup Pids    \* a process's queue is parent_wait_queue

\* "user": a process runs in ring 3.  "idle": the idle loop, entered from a
\* syscall or an exception.  "idle_in_timer": the idle loop, entered from the
\* timer handler, whose apic_send_eoi has not been reached: the LAPIC delivers
\* neither the timer (vector 32) nor the keyboard (vector 33, the same priority
\* class).  "panic": KERNEL_PANIC or a failed KERNEL_ASSERT halted the machine.
\* "corrupt": an uninitialised wait queue was dereferenced.
CpuModes == {"user", "idle", "idle_in_timer", "panic", "corrupt"}
States   == {"free", "ready", "waiting", "zombie"}

Alive(p)    == st[p] \in {"ready", "waiting"}
Children(p) == {c \in Pids : st[c] # "free" /\ ppid[c] = p}
ReapStrangers(p) == {c \in Pids : st[c] = "zombie"}                 \* mutant
Zombies(p)  == {c \in Children(p) : st[c] = "zombie"}

(* IF is set in ring 3 and, by sti, in the idle loop. *)
InterruptsOn == cpu \in {"user", "idle"}

(* generate_pid searches these. *)
UnusedPids == {p \in Pids : ~ Alive(p)}                             \* mutant
FreePids   == {p \in Pids : st[p] = "free"}

TypeOK ==
    /\ st     \in [Pids -> States]
    /\ ppid   \in [Pids -> 0 .. (MAX_PIDS - 1)]
    /\ kill   \in [Pids -> BOOLEAN]
    /\ waitq  \in [Queues -> Seq(Pids)]
    /\ junk   \in SUBSET Queues
    /\ runq   \in Seq(Pids)
    /\ curr   \in Pids
    /\ cpu    \in CpuModes
    /\ ticks  \in 0 .. (TICKS_PER_SWITCH - 1)
    /\ keys   \in 0 .. KBD_CAPACITY
    /\ kbdIrq \in BOOLEAN

-----------------------------------------------------------------------------
(* The state init_process_manager jumps to user mode with: process 1 alone, *)
(* running.  Its wait queue and the keyboard's were allocated by then.      *)
Init ==
    /\ st     = [p \in Pids |-> IF p = InitPid THEN "ready" ELSE "free"]
    /\ ppid   = [p \in Pids |-> 0]
    /\ kill   = [p \in Pids |-> FALSE]
    /\ waitq  = [q \in Queues |-> <<>>]
    /\ junk   \in SUBSET (IF HEAP_ZEROED THEN {} ELSE {Keyboard, InitPid})
    /\ runq   = <<>>
    /\ curr   = InitPid
    /\ cpu    = "user"
    /\ ticks  = 0
    /\ keys   = 0
    /\ kbdIrq = FALSE

(* pm_load_next_ready_process, called with the run queue rq: takes the head *)
(* or idles in mode m until there is one.                                   *)
LoadLast(rq, m) ==                                                  \* mutant
    IF rq = <<>>
    THEN cpu' = m /\ runq' = rq /\ curr' = curr
    ELSE cpu' = "user" /\ runq' = SubSeq(rq, 1, Len(rq) - 1) /\ curr' = rq[Len(rq)]
LoadNext(rq, m) ==
    IF rq = <<>>
    THEN cpu' = m /\ runq' = rq /\ curr' = curr
    ELSE cpu' = "user" /\ runq' = Tail(rq) /\ curr' = Head(rq)

(* KERNEL_PANIC, or undefined behaviour, before any queue was changed. *)
Stop(m) == cpu' = m /\ UNCHANGED <<waitq, runq, curr>>

(* pm_waitqueue_enqueue of the running process on q, and the tail of        *)
(* syscall_kernel_handler that switches away from it.                       *)
Block(q) ==
    /\ st' = [st EXCEPT ![curr] = "waiting"]
    /\ IF q \in junk
       THEN Stop("corrupt")
       ELSE /\ waitq' = [waitq EXCEPT ![q] = Append(@, curr)]
            /\ LoadNext(runq, "idle")

(* pm_exit hands the children of the running process over to init. *)
KeepChildren == ppid                                                \* mutant
HandOver     == [c \in Pids |-> IF c \in Children(curr) THEN InitPid ELSE ppid[c]]

(* pm_exit of the running process, and the switch to the next one: the      *)
(* children go to init, the parent's wait queue is moved to the run queue.  *)
ExitCurr(m) ==
    LET parent == ppid[curr]
        woken  == waitq[parent]
    IN
    /\ ppid' = HandOver
    /\ IF parent \in Pids /\ st[parent] # "free" /\ parent \notin junk
       THEN /\ st' = [p \in Pids |-> IF p \in Range(woken) THEN "ready"
                                     ELSE IF p = curr THEN "zombie" ELSE st[p]]
            /\ waitq' = [waitq EXCEPT ![parent] = <<>>]
            /\ LoadNext(runq \o woken, m)
       ELSE /\ st' = [st EXCEPT ![curr] = "zombie"]
            /\ Stop(IF parent \in Pids /\ st[parent] # "free" THEN "corrupt" ELSE "panic")

-----------------------------------------------------------------------------
(* Syscalls of the running process. *)

Fork ==
    LET child == Min(FreePids) IN
    /\ cpu = "user"
    /\ IF FreePids = {}
       THEN Stop("panic") /\ UNCHANGED <<st, ppid, kill, junk>>
       ELSE /\ st'    = [st EXCEPT ![child] = "ready"]
            /\ ppid'  = [ppid EXCEPT ![child] = curr]
            /\ kill'  = [kill EXCEPT ![child] = FALSE]
            /\ waitq' = [waitq EXCEPT ![child] = <<>>]
            /\ junk'  \in {junk \ {child}} \cup
                          (IF HEAP_ZEROED THEN {} ELSE {junk \cup {child}})
            /\ runq'  = Append(runq, child)
            /\ UNCHANGED <<curr, cpu>>
    /\ UNCHANGED <<ticks, keys, kbdIrq>>

Exit ==
    /\ cpu = "user"
    /\ ExitCurr("idle")
    /\ UNCHANGED <<kill, junk, ticks, keys, kbdIrq>>

(* pm_wait: reap the zombie child with the least pid, fail without a child, *)
(* otherwise sleep.  A blocked caller repeats the syscall when it runs.     *)
WaitReap ==
    /\ cpu = "user"
    /\ Zombies(curr) # {}
    /\ LET c == Min(Zombies(curr)) IN
       /\ st'    = [st EXCEPT ![c] = "free"]
       /\ ppid'  = [ppid EXCEPT ![c] = 0]
       /\ kill'  = [kill EXCEPT ![c] = FALSE]
       /\ waitq' = [waitq EXCEPT ![c] = <<>>]
       /\ junk'  = junk \ {c}
    /\ UNCHANGED <<runq, curr, cpu, ticks, keys, kbdIrq>>

WaitUnchecked ==                                                    \* mutant
    /\ cpu = "user" /\ Children(curr) # {}
    /\ Block(curr) /\ UNCHANGED <<ppid, kill, junk, ticks, keys, kbdIrq>>
WaitBlock ==
    /\ cpu = "user"
    /\ Zombies(curr) = {}
    /\ Children(curr) # {}
    /\ Block(curr)
    /\ UNCHANGED <<ppid, kill, junk, ticks, keys, kbdIrq>>

(* pm_kill only raises a flag that the scheduler looks at. *)
Kill(p) ==
    /\ cpu = "user"
    /\ st[p] # "free"
    /\ kill' = [kill EXCEPT ![p] = TRUE]
    /\ UNCHANGED <<st, ppid, waitq, junk, runq, curr, cpu, ticks, keys, kbdIrq>>

(* read on /dev/tty or on the keyboard: ps2_read with a buffer of n >= 1. *)
Read(n) ==
    /\ cpu = "user"
    /\ IF keys = 0
       THEN Block(Keyboard) /\ UNCHANGED keys
       ELSE /\ keys' = IF n < keys THEN keys - n ELSE 0
            /\ UNCHANGED <<st, waitq, runq, curr, cpu>>
    /\ UNCHANGED <<ppid, kill, junk, ticks, kbdIrq>>

-----------------------------------------------------------------------------
(* Interrupts and exceptions. *)

(* scheduler_add_task of the process the timer interrupted. *)
Dropped   == runq                                                   \* mutant
Preempted == Append(runq, curr)

(* pm_scheduler_context_switch from ring 3, called by the timer handler.    *)
(* Only a killed process can leave the run queue empty.                     *)
IgnoreKill ==                                                       \* mutant
    \/ runq = <<>> /\ UNCHANGED <<st, ppid, waitq, runq, curr, cpu>>
    \/ runq # <<>> /\ LoadNext(Preempted, "idle_in_timer") /\ UNCHANGED <<st, ppid, waitq>>
Reschedule ==
    \/ /\ runq = <<>> /\ ~ kill[curr]
       /\ UNCHANGED <<st, ppid, waitq, runq, curr, cpu>>
    \/ /\ kill[curr]
       /\ ExitCurr("idle_in_timer")
    \/ /\ runq # <<>> /\ ~ kill[curr]
       /\ LoadNext(Preempted, "idle_in_timer")
       /\ UNCHANGED <<st, ppid, waitq>>

(* lapic_timer_handler; in the idle loop the scheduler returns at once. *)
TickInIdle ==                                                       \* mutant
    /\ InterruptsOn /\ ticks' = (ticks + 1) % TICKS_PER_SWITCH
    /\ IF ticks' = 0 THEN Reschedule ELSE UNCHANGED <<st, ppid, waitq, runq, curr, cpu>>
    /\ UNCHANGED <<kill, junk, keys, kbdIrq>>
TimerTick ==
    /\ InterruptsOn
    /\ ticks' = (ticks + 1) % TICKS_PER_SWITCH
    /\ IF ticks' = 0 /\ cpu = "user"
       THEN Reschedule
       ELSE UNCHANGED <<st, ppid, waitq, runq, curr, cpu>>
    /\ UNCHANGED <<kill, junk, keys, kbdIrq>>

(* The user presses a key: the controller raises its interrupt line. *)
KeyPress ==
    /\ ~ kbdIrq
    /\ kbdIrq' = TRUE
    /\ UNCHANGED <<st, ppid, kill, waitq, junk, runq, curr, cpu, ticks, keys>>

(* keyboard_interrupt_handler for a scan code outside the lookup table. *)
KeyIgnored ==
    /\ InterruptsOn /\ kbdIrq
    /\ kbdIrq' = FALSE
    /\ UNCHANGED <<st, ppid, kill, waitq, junk, runq, curr, cpu, ticks, keys>>

(* ring_buffer_push drops the character when the buffer is full. *)
PushUnchecked(k) == k + 1                                           \* mutant
Push(k)          == IF k < KBD_CAPACITY THEN k + 1 ELSE k

(* keyboard_interrupt_handler: store the character, or drop it when the     *)
(* buffer is full, and make every waiting reader runnable.                  *)
KeyWakesNobody ==                                                   \* mutant
    /\ InterruptsOn /\ kbdIrq /\ kbdIrq' = FALSE /\ keys' = Push(keys)
    /\ UNCHANGED <<st, ppid, kill, waitq, junk, runq, curr, cpu, ticks>>
KeyStored ==
    /\ InterruptsOn /\ kbdIrq
    /\ kbdIrq' = FALSE
    /\ keys' = Push(keys)
    /\ IF Keyboard \in junk
       THEN Stop("corrupt") /\ UNCHANGED st
       ELSE /\ st' = [p \in Pids |-> IF p \in Range(waitq[Keyboard]) THEN "ready" ELSE st[p]]
            /\ runq' = runq \o waitq[Keyboard]
            /\ waitq' = [waitq EXCEPT ![Keyboard] = <<>>]
            /\ UNCHANGED <<curr, cpu>>
    /\ UNCHANGED <<ppid, kill, junk, ticks>>

(* process_exception_handler for a fault of the running process. *)
Exception ==
    /\ cpu = "user"
    /\ kill' = [kill EXCEPT ![curr] = TRUE]
    /\ ExitCurr("idle")
    /\ UNCHANGED <<junk, ticks, keys, kbdIrq>>

(* The idle loop finds a runnable process. *)
IdleWake ==
    /\ cpu \in {"idle", "idle_in_timer"}
    /\ runq # <<>>
    /\ LoadNext(runq, cpu)
    /\ UNCHANGED <<st, ppid, kill, waitq, junk, ticks, keys, kbdIrq>>

Syscall ==
    \/ Fork
    \/ Exit
    \/ WaitReap
    \/ WaitBlock
    \/ \E p \in Pids : Kill(p)
    \/ \E n \in 1 .. KBD_CAPACITY : Read(n)

Interrupt == TimerTick \/ KeyPress \/ KeyIgnored \/ KeyStored \/ Exception

Next == Syscall \/ Interrupt \/ IdleWake

Spec == Init /\ [][Next]_vars

(* The LAPIC timer is periodic, a raised keyboard interrupt is delivered    *)
(* once the CPU accepts it, and the idle loop re-tests after every hlt.     *)
(* Nothing is assumed of user programs or of the person at the keyboard.    *)
Fairness == WF_vars(TimerTick) /\ WF_vars(KeyIgnored \/ KeyStored) /\ WF_vars(IdleWake)

FairSpec == Spec /\ Fairness

-----------------------------------------------------------------------------
(* Properties. *)

Running      == cpu \notin {"panic", "corrupt"}
Scheduled(p) == (cpu = "user" /\ curr = p) \/ p \in Range(runq)

(* No process is lost: a READY process is the running one or is in the run  *)
(* queue, and a WAITING process is in some wait queue, so that a wake-up or *)
(* a switch can still find it (task_enqueue/task_dequeue, scheduler.c).     *)
NoProcessLost ==
    Running => \A p \in Pids :
        /\ st[p] = "ready" => Scheduled(p)
        /\ st[p] = "waiting" => \E q \in Queues : p \in Range(waitq[q])

(* The single `next' link of a PCB is enough for the run queue: a PCB is in *)
(* it at most once, the running process is not, and the queue never holds   *)
(* a zombie, a sleeper or a PCB that pm_wait has freed.                     *)
RunQueueExact ==
    /\ IsInjective(runq)
    /\ \A p \in Range(runq) : st[p] = "ready"
    /\ cpu = "user" => st[curr] = "ready" /\ curr \notin Range(runq)

(* The same for the wait queues: a PCB is in at most one of them and once   *)
(* there, and all that they hold is asleep.                                 *)
WaitQueuesExact ==
    /\ \A q \in Queues : IsInjective(waitq[q])
    /\ \A q \in Queues : \A p \in Range(waitq[q]) :
          /\ st[p] = "waiting"
          /\ \A r \in Queues : p \in Range(waitq[r]) => r = q

(* parent_wait_queue is waited on by its owner only, so the queue pm_wait   *)
(* frees with a zombie is empty.                                            *)
OwnQueueOnly ==
    \A p \in Pids : Range(waitq[p]) \subseteq {p}

(* One `next' link per PCB carries all the queues of the scheduler: a PCB   *)
(* is in at most one of them, once, and in the state that queue stands for; *)
(* so task_enqueue never cuts or joins two queues.                          *)
QueueLinksExact == RunQueueExact /\ WaitQueuesExact /\ OwnQueueOnly

(* Every process but init has a parent that is neither freed nor a zombie:  *)
(* pm_exit hands the children over before the parent can be reaped.         *)
ParentAlive ==
    Running => \A p \in Pids :
        st[p] # "free" /\ p # InitPid => ppid[p] \in Pids /\ Alive(ppid[p])

(* init is the root of the family: it lives as long as the machine runs and *)
(* has no parent; and no process is its own parent, so handing the children *)
(* of an exiting process over never orphans them again.                     *)
InitIsRoot ==
    /\ \A p \in Pids : ppid[p] # p
    /\ Running => Alive(InitPid) /\ ppid[InitPid] = 0

(* KERNEL_ASSERT(g_process_list[pcb->ppid]) in pm_exit fails for init only. *)
ParentAssert == cpu = "panic" /\ st[curr] = "zombie" => curr = InitPid

(* Exits of parents and children in any order leave a tree with init at its *)
(* root: pm_exit always finds the parent it wakes and asserts, and wait     *)
(* never frees the PCB of one.                                              *)
FamilyTree == ParentAlive /\ InitIsRoot /\ ParentAssert

(* No lost wake-up at the keyboard: while a character is buffered, nobody   *)
(* sleeps in ps2_read.                                                      *)
NoSleepOnInput == Running /\ keys > 0 => waitq[Keyboard] = <<>>

(* No lost wake-up in pm_wait: a process asleep in wait has a living child  *)
(* that will wake it, and no zombie it could reap at once.                  *)
SleepsForChild(p) ==
    Running /\ p \in Range(waitq[p]) => Children(p) # {} /\ Zombies(p) = {}
NoSleepOnZombie == \A p \in Pids \ {InitPid} : SleepsForChild(p)

(* The same for init, which inherits orphans: "Waits for a terminated       *)
(* child" (kernel/include/process_manager.h:32).                            *)
InitNoSleepOnZombie == SleepsForChild(InitPid)

(* The wait queues the scheduler touches are initialised memory.            *)
QueueMemoryValid == cpu # "corrupt"

(* The inductive invariant: together the properties above carry each other. *)
IInv ==
    /\ TypeOK
    /\ RunQueueExact
    /\ WaitQueuesExact
    /\ OwnQueueOnly
    /\ NoProcessLost
    /\ ParentAlive
    /\ InitIsRoot
    /\ ParentAssert
    /\ NoSleepOnInput
    /\ NoSleepOnZombie

(* A zombie never runs again: it stays a zombie until its parent reaps it,  *)
(* and its pid is not reused before that.                                   *)
ZombieFinal ==
    [][\A p \in Pids : st[p] = "zombie" =>
          \/ st'[p] = "zombie"
          \/ st'[p] = "free" /\ cpu = "user" /\ curr = ppid[p]]_vars

(* Round robin is starvation free: a process in the run queue runs.         *)
RunnableRuns ==
    \A p \in Pids : p \in Range(runq) ~> (cpu = "user" /\ curr = p) \/ ~ Running

(* A killed process that can be scheduled dies, or blocks, and never runs   *)
(* on: the flag is looked at by the next scheduling tick that interrupts it. *)
KilledStops ==
    \A p \in Pids : kill[p] /\ Scheduled(p) ~> ~ Scheduled(p) \/ ~ Running

(* As long as typed characters keep reaching keyboard_interrupt_handler,    *)
(* every process asleep in ps2_read is woken and gets the CPU, whatever the *)
(* other processes do and however many readers share the keys.              *)
ReaderServed ==
    []<><<KeyStored>>_vars =>
        \A p \in Pids : p \in Range(waitq[Keyboard]) ~> (cpu = "user" /\ curr = p) \/ ~ Running

(* "If there are no ready processes waits for a ready one and uses it"      *)
(* (kernel/include/process_manager.h:47): while a reader sleeps, a key that *)
(* is pressed reaches the keyboard handler and so the reader.               *)
IdleHearsKeyboard ==
    kbdIrq /\ waitq[Keyboard] # <<>> ~> ~ kbdIrq \/ ~ Running

=============================================================================
