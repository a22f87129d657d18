----------------------------- MODULE TrapContext -----------------------------
(***************************************************************************)
(* The ways in and out of the kernel: syscall_entry.asm and the tail of    *)
(* syscall_kernel_handler, the hardware interrupt stubs, and the context   *)
(* switch of scheduler.c, seen from the registers of the processes.        *)
(*                                                                         *)
(* A syscall enters with swapgs and leaves with swapgs and sysret, which   *)
(* takes rip from rcx and rflags from r11.  An interrupt enters without    *)
(* swapgs and leaves with iretq, which restores every register.  Both may  *)
(* leave with the context of another process than they entered with.       *)
(***************************************************************************)
EXTENDS Integers, Sequences, FiniteSetsExt

CONSTANTS Procs, First      \* First runs when the model starts

(* g_process_list has MAX_PIDS slots. *)
ASSUME ProcsAssumption == First \in Procs /\ IsFiniteSet(Procs)

VARIABLES
    cpu,      \* "user", "idle" (ring 0, in the loop of pm_load_next_ready_process)
              \* or "panic"
    g_cpu_is_idle,
    entry,    \* how the kernel was entered when cpu = "idle"
    gs,       \* whose GS base is active
    cur,      \* g_curr_task
    regs,     \* registers of the process in user mode
    saved,    \* pcb->interrupt_info
    ready,    \* g_runnable_tasks
    waiting,  \* processes on some wait queue
    killed,   \* kill_signal
    dead,     \* zombies and processes that do not exist
    own,      \* processes whose program relies on its own rcx and r11
    pending   \* processes whose blocking syscall has not returned

vars == <<cpu, g_cpu_is_idle, entry, gs, cur, regs, saved, ready, waiting, killed,
          dead, own, pending>>
modeVars == <<cpu, g_cpu_is_idle, entry>>
procVars == <<killed, dead, own, pending>>

(* rip: at a syscall instruction or elsewhere.  scratch: rcx and r11, as    *)
(* the program left them, or holding rip and rflags.                        *)
Context == [rip : {"syscall", "code"}, scratch : {"own", "rip"}]

TypeOK ==
    /\ cpu \in {"user", "idle", "panic"} /\ entry \in {"syscall", "interrupt"}
    /\ gs \in {"user", "kernel"} /\ cur \in Procs
    /\ regs \in Context /\ saved \in [Procs -> Context]
    /\ ready \in Seq(Procs) /\ Len(ready) <= Cardinality(Procs)
    /\ g_cpu_is_idle \in BOOLEAN
    /\ \A S \in {waiting, killed, dead, own, pending} : S \subseteq Procs

(* init runs; fork has yet to make the others ready. *)
Init ==
    /\ cpu = "user" /\ g_cpu_is_idle = FALSE /\ entry = "syscall" /\ gs = "user" /\ cur = First
    /\ regs = [rip |-> "code", scratch |-> "own"]
    /\ saved = [p \in Procs |-> [rip |-> "code", scratch |-> "own"]]
    /\ ready = <<>> /\ waiting = {} /\ killed = {} /\ dead = Procs \ {First}
    /\ own = {} /\ pending = {}

-----------------------------------------------------------------------------
Swap(g) == IF g = "user" THEN "kernel" ELSE "user"

(* The GS base in the kernel: a syscall starts with swapgs. *)
EntryGs(how) == IF cpu = "user" /\ how = "syscall" THEN Swap(gs) ELSE gs

(* The way back to user mode with the frame c. *)
SysretNoSwap(c) == regs' = [rip |-> c.rip, scratch |-> "rip"]       \* mutant
                   /\ gs' = EntryGs("syscall")
Sysret(c) == regs' = [rip |-> c.rip, scratch |-> "rip"]
             /\ gs' = Swap(EntryGs("syscall"))
Iretq(c)  == regs' = c /\ gs' = EntryGs("interrupt")

Leave(how, c) == IF how = "syscall" THEN Sysret(c) ELSE Iretq(c)

(* pm_load_next_ready_process with the ready queue q, entered by how. *)
LoadNext(how, q, contexts) ==
    IF q # <<>>
    THEN /\ cpu' = "user" /\ g_cpu_is_idle' = FALSE
         /\ cur' = Head(q) /\ ready' = Tail(q)
         /\ Leave(how, contexts[Head(q)])
         /\ UNCHANGED entry
    ELSE /\ cpu' = "idle" /\ g_cpu_is_idle' = TRUE
         /\ entry' = how /\ ready' = q
         /\ gs' = EntryGs(how)
         /\ UNCHANGED <<cur, regs>>

(* The program computes with rcx and r11, or gets to a syscall instruction. *)
Compute ==
    /\ cpu = "user" /\ regs.rip = "code"
    /\ regs' = [rip |-> "code", scratch |-> "own"]
    /\ own' = own \cup {cur}
    /\ UNCHANGED <<modeVars, gs, cur, saved, ready, waiting, killed, dead, pending>>

Reach ==
    /\ cpu = "user" /\ regs.rip = "code"
    /\ regs' = [regs EXCEPT !.rip = "syscall"]
    /\ own' = own \ {cur}      \* the syscall instruction destroys rcx and r11
    /\ UNCHANGED <<modeVars, gs, cur, saved, ready, waiting, killed, dead, pending>>

AtSyscall == cpu = "user" /\ regs.rip = "syscall"

(* What pushaq and the pushes of rcx and r11 make of the caller: rip is     *)
(* behind the instruction.                                                  *)
SyscallFrame == [rip |-> "code", scratch |-> "rip"]

(* A syscall that returns at once. *)
SyscallReturns ==
    /\ AtSyscall
    /\ Leave("syscall", SyscallFrame)
    /\ pending' = pending \ {cur}
    /\ UNCHANGED <<modeVars, cur, saved, ready, waiting, killed, dead, own>>

(* fork: the child starts from a copy of the frame. *)
Fork(c) ==
    /\ AtSyscall /\ c \in dead
    /\ saved' = [saved EXCEPT ![c] = SyscallFrame]
    /\ ready' = Append(ready, c)
    /\ dead'  = dead \ {c}
    /\ killed' = killed \ {c}
    /\ own' = own \ {c}
    /\ pending' = pending \ {c, cur}
    /\ Leave("syscall", SyscallFrame)
    /\ UNCHANGED <<modeVars, cur, waiting>>

Kill(p) ==
    /\ AtSyscall /\ p \notin dead
    /\ killed' = killed \cup {p}
    /\ pending' = pending \ {cur}
    /\ Leave("syscall", SyscallFrame)
    /\ UNCHANGED <<modeVars, cur, saved, ready, waiting, dead, own>>

(* A read or wait that finds nothing: rip is set back to the syscall        *)
(* instruction, so that the process asks again when it is woken.            *)
BlockForgets ==                                                     \* mutant
    LET contexts == [saved EXCEPT ![cur] = SyscallFrame] IN
    /\ AtSyscall
    /\ saved' = contexts
    /\ waiting' = waiting \cup {cur}
    /\ pending' = pending \cup {cur}
    /\ LoadNext("syscall", ready, contexts)
    /\ UNCHANGED <<killed, dead, own>>
SyscallBlocks ==
    LET contexts == [saved EXCEPT ![cur] = [SyscallFrame EXCEPT !.rip = "syscall"]] IN
    /\ AtSyscall
    /\ saved' = contexts
    /\ waiting' = waiting \cup {cur}
    /\ pending' = pending \cup {cur}
    /\ LoadNext("syscall", ready, contexts)
    /\ UNCHANGED <<killed, dead, own>>

(* pm_exit makes the parent p ready, if it waits; init cannot exit.  Which  *)
(* process is the parent, and what a process waits for, is left open.       *)
Exit(how, p) ==
    /\ cur # First
    /\ dead' = dead \cup {cur}
    /\ pending' = pending \ {cur}
    /\ waiting' = waiting \ {p}
    /\ LoadNext(how, IF p \in waiting THEN Append(ready, p) ELSE ready, saved)

SyscallExit(p) ==
    /\ AtSyscall
    /\ saved' = [saved EXCEPT ![cur] = [SyscallFrame EXCEPT !.rip = "syscall"]]
    /\ Exit("syscall", p)
    /\ UNCHANGED <<killed, own>>

(* pm_scheduler_context_switch, with kill as the kill_signal of the process *)
(* that was interrupted.                                                    *)
ContextSwitch(kill, p) ==
    \/ /\ g_cpu_is_idle
       /\ UNCHANGED <<modeVars, gs, cur, regs, saved, ready, waiting, dead, pending>>
    \/ /\ ~ g_cpu_is_idle /\ cpu = "idle"      \* the assertion on ring 0
       /\ cpu' = "panic"
       /\ UNCHANGED <<g_cpu_is_idle, entry, gs, cur, regs, saved, ready, waiting, dead,
                      pending>>
    \/ /\ ~ g_cpu_is_idle /\ cpu = "user" /\ kill
       /\ Exit("interrupt", p)
       /\ UNCHANGED saved
    \/ /\ ~ g_cpu_is_idle /\ cpu = "user" /\ ~ kill /\ ready = <<>>
       /\ UNCHANGED <<modeVars, gs, cur, regs, saved, ready, waiting, dead, pending>>
    \/ /\ ~ g_cpu_is_idle /\ cpu = "user" /\ ~ kill /\ ready # <<>>
       /\ saved' = [saved EXCEPT ![cur] = regs]
       /\ LoadNext("interrupt", Append(ready, cur), saved')
       /\ UNCHANGED <<waiting, dead, pending>>

(* The timer, in user mode or while the kernel idles. *)
Tick(p) ==
    /\ cpu \in {"user", "idle"}
    /\ ContextSwitch(cur \in killed, p)
    /\ UNCHANGED <<killed, own>>

(* process_exception_handler: the process is killed on the spot. *)
Fault(p) ==
    /\ cpu = "user"
    /\ killed' = killed \cup {cur}
    /\ ContextSwitch(TRUE, p)
    /\ UNCHANGED own

(* A key makes everybody who waits for one ready. *)
KeyKeepsWaiting(q) ==                                               \* mutant
    /\ cpu \in {"user", "idle"}
    /\ IsInjective(q) /\ Range(q) \subseteq waiting /\ q # <<>>
    /\ ready' = ready \o q
    /\ UNCHANGED <<modeVars, gs, cur, regs, saved, waiting, procVars>>
KeyEndsIdle(q) ==                                                   \* mutant
    /\ cpu \in {"user", "idle"}
    /\ IsInjective(q) /\ Range(q) \subseteq waiting /\ q # <<>>
    /\ waiting' = waiting \ Range(q)
    /\ ready' = ready \o q
    /\ g_cpu_is_idle' = FALSE
    /\ UNCHANGED <<cpu, entry, gs, cur, regs, saved, procVars>>
Key(q) ==
    /\ cpu \in {"user", "idle"}
    /\ IsInjective(q) /\ Range(q) \subseteq waiting /\ q # <<>>
    /\ waiting' = waiting \ Range(q)
    /\ ready' = ready \o q
    /\ UNCHANGED <<modeVars, gs, cur, regs, saved, procVars>>

(* The idle loop ends with the first interrupt that left a process ready;   *)
(* others may come before it gets to its cli.                               *)
IdleLoads ==
    /\ cpu = "idle" /\ ready # <<>>
    /\ LoadNext(entry, ready, saved)
    /\ UNCHANGED <<saved, waiting, procVars>>

Orders == UNION {[1 .. n -> Procs] : n \in 0 .. Cardinality(Procs)}

Next ==
    \/ Compute \/ Reach
    \/ SyscallReturns \/ SyscallBlocks
    \/ \E p \in Procs : Fork(p) \/ Kill(p) \/ SyscallExit(p) \/ Fault(p) \/ Tick(p)
    \/ IdleLoads
    \/ \E q \in Orders : Key(q)

Spec == Init /\ [][Next]_vars

-----------------------------------------------------------------------------
(* Properties. *)

(* Whichever way a process left and whichever way it comes back, user mode  *)
(* has the user's GS base, so that every syscall finds the kernel's behind  *)
(* its swapgs, when syscall_entry loads and saves the stacks through GS.    *)
(* That is the only use of GS: an interrupt executes no swapgs, and the     *)
(* kernel idles with the user's base if that is how it was entered.         *)
GsMatches ==
    /\ cpu = "user" => gs = "user"
    /\ AtSyscall => EntryGs("syscall") = "kernel"
    /\ cpu = "idle" => gs = IF entry = "syscall" THEN "kernel" ELSE "user"

(* A process that blocked in a syscall is back at its syscall instruction   *)
(* whenever it runs again: it never sees the result of a call that was not  *)
(* answered.                                                                *)
BlockedRestarts ==
    cpu = "user" /\ cur \in pending => regs.rip = "syscall"

(* The scheduler never switches away from ring 0: the assertion in          *)
(* pm_scheduler_context_switch holds although the timer ticks while the     *)
(* kernel idles with interrupts on, before and after the key that ends the  *)
(* idling has made a process ready.                                         *)
NoSwitchInRing0 == cpu # "panic"

(* A process resumes with the CPU state it was interrupted with.            *)
RegistersKept ==
    cpu = "user" /\ cur \in own => regs.scratch = "own"

=============================================================================
