-------------------------- MODULE TrapContextProofs --------------------------
(***************************************************************************)
(* The properties of TrapContext hold for every set of processes: GS is    *)
(* swapped as often on the way out of the kernel as on the way in, whoever *)
(* the kernel leaves with; a blocked syscall restarts; and the scheduler   *)
(* never switches away from ring 0.                                        *)
(***************************************************************************)
EXTENDS TrapContext, KernelTheorems, FiniteSetTheorems

(* A process is in one place: running, in the ready queue once, on a wait   *)
(* queue, or dead.                                                          *)
OnePlace ==
    /\ IsInjective(ready)
    /\ Range(ready) \cap waiting = {} /\ Range(ready) \cap dead = {} /\ waiting \cap dead = {}
    /\ cpu = "user" => cur \notin Range(ready) \cup waiting \cup dead

(* g_cpu_is_idle is set exactly while the kernel is in the idle loop. *)
IdleFlag == g_cpu_is_idle <=> cpu = "idle"

(* Whoever sleeps, or waits for the CPU, with an unfinished syscall is      *)
(* saved at its syscall instruction.                                        *)
SavedAtSyscall ==
    \A p \in pending : p \in Range(ready) \cup waiting => saved[p].rip = "syscall"

(* The GS base is the user's, but for a kernel that a syscall entered. *)
GsBase ==
    /\ cpu = "user" => gs = "user"
    /\ cpu = "idle" => gs = IF entry = "syscall" THEN "kernel" ELSE "user"

Types ==
    /\ cpu \in {"user", "idle", "panic"} /\ entry \in {"syscall", "interrupt"}
    /\ gs \in {"user", "kernel"} /\ cur \in Procs
    /\ regs \in Context /\ saved \in [Procs -> Context]
    /\ ready \in Seq(Procs)
    /\ g_cpu_is_idle \in BOOLEAN
    /\ waiting \subseteq Procs /\ killed \subseteq Procs /\ dead \subseteq Procs
    /\ own \subseteq Procs /\ pending \subseteq Procs

(* The inductive invariant. *)
IInv ==
    /\ Types /\ OnePlace /\ IdleFlag /\ SavedAtSyscall
    /\ GsBase /\ BlockedRestarts /\ NoSwitchInRing0

-----------------------------------------------------------------------------
(* pm_load_next_ready_process leaves the kernel with the context of the     *)
(* head of the queue it is given, or idles, and the GS base matches.        *)
LEMMA LoadNextFacts ==
    ASSUME Types, GsBase, cpu \in {"user", "idle"},
           NEW how \in {"syscall", "interrupt"}, cpu = "idle" => how = entry,
           NEW q \in Seq(Procs), IsInjective(q), NEW ctx \in [Procs -> Context],
           LoadNext(how, q, ctx)
    PROVE  /\ cpu' \in {"user", "idle"} /\ entry' \in {"syscall", "interrupt"}
           /\ gs' \in {"user", "kernel"} /\ cur' \in Procs /\ regs' \in Context
           /\ ready' \in Seq(Procs) /\ IsInjective(ready')
           /\ Range(ready') \subseteq Range(q)
           /\ cpu' = "user" => /\ cur' \in Range(q) /\ cur' \notin Range(ready')
                               /\ regs'.rip = ctx[cur'].rip
           /\ g_cpu_is_idle' = (cpu' = "idle")
           /\ GsBase'
<1>1. CASE q = <<>>
  <2>1. /\ cpu' = "idle" /\ g_cpu_is_idle' = TRUE /\ entry' = how /\ ready' = q
        /\ gs' = EntryGs(how) /\ cur' = cur /\ regs' = regs
    BY <1>1 DEF LoadNext
  <2>2. gs' = IF how = "syscall" THEN "kernel" ELSE "user"
    BY <2>1 DEF EntryGs, Swap, GsBase
  <2> QED BY <2>1, <2>2 DEF Types, GsBase
<1>2. CASE q # <<>>
  <2> DEFINE h == Head(q)
  <2>1. /\ cpu' = "user" /\ g_cpu_is_idle' = FALSE /\ cur' = h /\ ready' = Tail(q)
        /\ Leave(how, ctx[h]) /\ entry' = entry
    BY <1>2 DEF LoadNext
  <2>2. /\ h \in Procs /\ Tail(q) \in Seq(Procs) /\ Range(q) = {h} \cup Range(Tail(q))
        /\ IsInjective(Tail(q)) /\ h \notin Range(Tail(q))
    BY <1>2, QueueTail
  <2> HIDE DEF h
  <2>3. ctx[h] \in Context BY <2>2
  <2>4. gs' = "user" /\ regs' \in Context /\ regs'.rip = ctx[h].rip
    <3>1. CASE how = "syscall"
      BY <2>1, <2>3, <3>1 DEF Leave, Sysret, EntryGs, Swap, GsBase, Context
    <3>2. CASE how = "interrupt"
      BY <2>1, <2>3, <3>2 DEF Leave, Iretq, EntryGs, GsBase, Context
    <3> QED BY <3>1, <3>2
  <2> QED BY <2>1, <2>2, <2>4 DEF Types, GsBase
<1> QED BY <1>1, <1>2

(* A switch keeps the invariant when the queue it loads from holds neither  *)
(* sleepers nor dead processes, and the contexts in it are the saved ones.  *)
LEMMA SwitchPreserves ==
    ASSUME IInv, cpu \in {"user", "idle"},
           NEW how \in {"syscall", "interrupt"}, cpu = "idle" => how = entry,
           NEW q \in Seq(Procs), IsInjective(q), NEW ctx \in [Procs -> Context],
           LoadNext(how, q, ctx),
           saved' \in [Procs -> Context],
           waiting' \subseteq Procs, killed' \subseteq Procs, dead' \subseteq Procs,
           own' \subseteq Procs, pending' \subseteq Procs,
           Range(q) \cap waiting' = {}, Range(q) \cap dead' = {}, waiting' \cap dead' = {},
           \A p \in pending' : p \in Range(q) \cup waiting' => saved'[p].rip = "syscall",
           \A p \in Range(q) : ctx[p] = saved'[p]
    PROVE  IInv'
<1>1. Types /\ GsBase BY DEF IInv
<1>2. /\ cpu' \in {"user", "idle"} /\ entry' \in {"syscall", "interrupt"}
      /\ gs' \in {"user", "kernel"} /\ cur' \in Procs /\ regs' \in Context
      /\ ready' \in Seq(Procs) /\ IsInjective(ready')
      /\ Range(ready') \subseteq Range(q)
      /\ cpu' = "user" => /\ cur' \in Range(q) /\ cur' \notin Range(ready')
                          /\ regs'.rip = ctx[cur'].rip
      /\ g_cpu_is_idle' = (cpu' = "idle")
      /\ GsBase'
  BY <1>1, LoadNextFacts
<1>3. Types' BY <1>2 DEF Types
<1>4. OnePlace' BY <1>2 DEF OnePlace
<1>5. IdleFlag' /\ NoSwitchInRing0' BY <1>2 DEF IdleFlag, NoSwitchInRing0
<1>6. SavedAtSyscall' BY <1>2 DEF SavedAtSyscall
<1>7. BlockedRestarts' BY <1>2 DEF BlockedRestarts
<1> QED BY <1>2, <1>3, <1>4, <1>5, <1>6, <1>7 DEF IInv

(* A syscall that returns at once to the process that made it. *)
LEMMA ReturnFacts ==
    ASSUME IInv, AtSyscall, Leave("syscall", SyscallFrame)
    PROVE  regs' \in Context /\ gs' = "user"
BY DEF IInv, GsBase, AtSyscall, Leave, Sysret, SyscallFrame, EntryGs, Swap, Context

(* Exit of the running process, by its own syscall, by the timer or by a    *)
(* fault.                                                                   *)
LEMMA ExitPreserves ==
    ASSUME IInv, cpu = "user", NEW how \in {"syscall", "interrupt"}, NEW p \in Procs,
           Exit(how, p), saved' \in [Procs -> Context],
           \A r \in Procs : r # cur => saved'[r] = saved[r],
           killed' \subseteq Procs, own' = own
    PROVE  IInv'
<1> DEFINE q == IF p \in waiting THEN Append(ready, p) ELSE ready
<1>1. Types /\ OnePlace /\ SavedAtSyscall BY DEF IInv
<1>2. /\ dead' = dead \cup {cur} /\ pending' = pending \ {cur} /\ waiting' = waiting \ {p}
      /\ LoadNext(how, q, saved)
  BY DEF Exit
<1>3. ready \in Seq(Procs) /\ IsInjective(ready) /\ cur \in Procs /\ Range(ready) \subseteq Procs
  BY <1>1, QueueElements DEF Types, OnePlace
<1>4. /\ q \in Seq(Procs) /\ IsInjective(q)
      /\ Range(q) = Range(ready) \cup (waiting \cap {p})
  <2>1. CASE p \in waiting
    <3>1. p \notin Range(ready) BY <1>1, <2>1 DEF OnePlace
    <3>2. /\ Append(ready, p) \in Seq(Procs) /\ IsInjective(Append(ready, p))
          /\ Range(Append(ready, p)) = Range(ready) \cup {p}
      BY <1>3, <3>1, QueueAppend
    <3> QED BY <2>1, <3>2
  <2>2. CASE p \notin waiting BY <1>3, <2>2
  <2> QED BY <2>1, <2>2
<1> HIDE DEF q
<1>5. cur \notin Range(q) /\ cur \notin waiting BY <1>1, <1>4 DEF OnePlace
<1>6. Range(q) \cap waiting' = {} /\ Range(q) \cap dead' = {} /\ waiting' \cap dead' = {}
  BY <1>1, <1>2, <1>4, <1>5 DEF OnePlace
<1>7. Range(q) \subseteq Procs /\ waiting \subseteq Procs BY <1>1, <1>4, QueueElements DEF Types
<1>8. \A r \in pending' : r \in Range(q) \cup waiting' => saved'[r].rip = "syscall"
  BY <1>1, <1>2, <1>4, <1>7 DEF SavedAtSyscall
<1>9. \A r \in Range(q) : saved[r] = saved'[r] BY <1>5, <1>7
<1>10. /\ waiting' \subseteq Procs /\ dead' \subseteq Procs /\ own' \subseteq Procs
       /\ pending' \subseteq Procs /\ saved \in [Procs -> Context]
  BY <1>1, <1>2, <1>3 DEF Types
<1> QED BY <1>2, <1>4, <1>6, <1>8, <1>9, <1>10, SwitchPreserves

-----------------------------------------------------------------------------
(* A blocking syscall: rip of the saved frame is set back. *)
LEMMA BlockPreserves ==
    ASSUME IInv, SyscallBlocks
    PROVE  IInv'
<1> DEFINE ctx == [saved EXCEPT ![cur] = [SyscallFrame EXCEPT !.rip = "syscall"]]
<1>1. Types /\ OnePlace /\ SavedAtSyscall /\ cpu = "user" BY DEF IInv, SyscallBlocks, AtSyscall
<1>2. /\ saved' = ctx /\ waiting' = waiting \cup {cur} /\ pending' = pending \cup {cur}
      /\ LoadNext("syscall", ready, ctx) /\ UNCHANGED <<killed, dead, own>>
  BY DEF SyscallBlocks
<1>3. /\ ctx \in [Procs -> Context] /\ ctx[cur].rip = "syscall"
      /\ \A p \in Procs : p # cur => ctx[p] = saved[p]
  BY <1>1 DEF Types, Context, SyscallFrame
<1> HIDE DEF ctx
<1>4. /\ ready \in Seq(Procs) /\ IsInjective(ready) /\ cur \in Procs
      /\ cur \notin Range(ready) /\ cur \notin dead
  BY <1>1 DEF Types, OnePlace
<1>5. /\ Range(ready) \cap waiting' = {} /\ Range(ready) \cap dead' = {}
      /\ waiting' \cap dead' = {}
  BY <1>1, <1>2, <1>4 DEF OnePlace
<1>6. /\ waiting' \subseteq Procs /\ killed' \subseteq Procs /\ dead' \subseteq Procs
      /\ own' \subseteq Procs /\ pending' \subseteq Procs
  BY <1>1, <1>2, <1>4 DEF Types
<1>7. \A p \in pending' : p \in Range(ready) \cup waiting' => saved'[p].rip = "syscall"
  BY <1>1, <1>2, <1>3, <1>6 DEF SavedAtSyscall
<1> QED BY <1>1, <1>2, <1>3, <1>4, <1>5, <1>6, <1>7, SwitchPreserves

(* fork puts the child, with a copy of the frame, into the ready queue. *)
LEMMA ForkPreserves ==
    ASSUME IInv, NEW c \in Procs, Fork(c)
    PROVE  IInv'
<1>1. /\ Types /\ OnePlace /\ SavedAtSyscall /\ IdleFlag /\ cpu = "user"
      /\ regs' \in Context /\ gs' = "user"
  BY ReturnFacts DEF IInv, Fork, AtSyscall
<1>2. /\ c \in dead /\ saved' = [saved EXCEPT ![c] = SyscallFrame] /\ ready' = Append(ready, c)
      /\ dead' = dead \ {c} /\ killed' = killed \ {c} /\ own' = own \ {c}
      /\ pending' = pending \ {c, cur}
      /\ UNCHANGED <<cpu, g_cpu_is_idle, entry, cur, waiting>>
  BY DEF Fork, modeVars
<1>3. /\ ready' \in Seq(Procs) /\ IsInjective(ready') /\ Range(ready') = Range(ready) \cup {c}
  <2>1. ready \in Seq(Procs) /\ IsInjective(ready) /\ c \notin Range(ready)
    BY <1>1, <1>2 DEF Types, OnePlace
  <2> QED BY <1>2, <2>1, QueueAppend
<1>4. saved' \in [Procs -> Context] /\ \A p \in Procs : p # c => saved'[p] = saved[p]
  BY <1>1, <1>2 DEF Types, Context, SyscallFrame
<1>5. Types' BY <1>1, <1>2, <1>3, <1>4 DEF Types
<1>6. OnePlace' BY <1>1, <1>2, <1>3 DEF OnePlace
<1>7. SavedAtSyscall'
  BY <1>1, <1>2, <1>3, <1>4 DEF SavedAtSyscall, Types
<1>8. IdleFlag' /\ GsBase' /\ BlockedRestarts' /\ NoSwitchInRing0'
  BY <1>1, <1>2 DEF IdleFlag, GsBase, BlockedRestarts, NoSwitchInRing0
<1> QED BY <1>5, <1>6, <1>7, <1>8 DEF IInv

(* The timer interrupt and a fault: the three ways through                  *)
(* pm_scheduler_context_switch, and the assertion that is never reached.    *)
LEMMA ContextSwitchPreserves ==
    ASSUME IInv, cpu \in {"user", "idle"}, NEW kill \in BOOLEAN, NEW p \in Procs,
           ContextSwitch(kill, p), killed' \subseteq Procs, own' = own
    PROVE  IInv'
<1>1. Types /\ OnePlace /\ SavedAtSyscall /\ IdleFlag BY DEF IInv
<1>2. CASE UNCHANGED <<modeVars, gs, cur, regs, saved, ready, waiting, dead, pending>>
  BY <1>2 DEF IInv, Types, OnePlace, SavedAtSyscall, IdleFlag, GsBase, BlockedRestarts,
              NoSwitchInRing0, modeVars
<1>3. ~ (~ g_cpu_is_idle /\ cpu = "idle") BY <1>1 DEF IdleFlag
<1>4. CASE cpu = "user" /\ Exit("interrupt", p) /\ UNCHANGED saved
  BY <1>1, <1>4, ExitPreserves DEF Types
<1>5. CASE /\ cpu = "user" /\ saved' = [saved EXCEPT ![cur] = regs]
           /\ LoadNext("interrupt", Append(ready, cur), saved')
           /\ UNCHANGED <<waiting, dead, pending>>
  <2> DEFINE q   == Append(ready, cur)
             ctx == [saved EXCEPT ![cur] = regs]
  <2>1. LoadNext("interrupt", q, ctx) BY <1>5
  <2>2. /\ ctx \in [Procs -> Context] /\ ctx[cur] = regs
        /\ \A r \in Procs : r # cur => ctx[r] = saved[r]
    BY <1>1 DEF Types
  <2>3. /\ ready \in Seq(Procs) /\ IsInjective(ready) /\ cur \in Procs /\ cur \notin Range(ready)
        /\ cur \notin waiting /\ cur \notin dead
    BY <1>1, <1>5 DEF Types, OnePlace
  <2>4. q \in Seq(Procs) /\ IsInjective(q) /\ Range(q) = Range(ready) \cup {cur}
    BY <2>3, QueueAppend
  <2>5. saved' = ctx BY <1>5
  <2> HIDE DEF q, ctx
  <2>6. Range(q) \cap waiting' = {} /\ Range(q) \cap dead' = {} /\ waiting' \cap dead' = {}
    BY <1>1, <1>5, <2>3, <2>4 DEF OnePlace
  <2>7. \A r \in pending' : r \in Range(q) \cup waiting' => saved'[r].rip = "syscall"
    BY <1>1, <1>5, <2>2, <2>4, <2>5 DEF SavedAtSyscall, IInv, BlockedRestarts, Types
  <2>8. /\ waiting' \subseteq Procs /\ dead' \subseteq Procs /\ own' \subseteq Procs
        /\ pending' \subseteq Procs
    BY <1>1, <1>5 DEF Types
  <2>9. /\ cpu = "user" /\ saved' \in [Procs -> Context]
        /\ \A r \in Range(q) : ctx[r] = saved'[r]
    BY <1>5, <2>2, <2>5
  <2> QED BY <2>1, <2>2, <2>4, <2>6, <2>7, <2>8, <2>9, SwitchPreserves
<1> QED BY <1>2, <1>3, <1>4, <1>5 DEF ContextSwitch

(* The keyboard handler moves sleepers to the ready queue, also while the   *)
(* kernel idles, and leaves the CPU alone.                                  *)
LEMMA KeyPreserves ==
    ASSUME IInv, NEW q \in Orders, Key(q)
    PROVE  IInv'
<1>1. Types /\ OnePlace /\ SavedAtSyscall BY DEF IInv
<1>2. /\ IsInjective(q) /\ Range(q) \subseteq waiting
      /\ waiting' = waiting \ Range(q) /\ ready' = ready \o q
      /\ UNCHANGED <<cpu, g_cpu_is_idle, entry, gs, cur, regs, saved, killed, dead, own, pending>>
  BY DEF Key, modeVars, procVars
<1>3. q \in Seq(Procs)
  <2>1. PICK n \in 0 .. Cardinality(Procs) : q \in [1 .. n -> Procs] BY DEF Orders
  <2>2. Cardinality(Procs) \in Nat BY ProcsAssumption, FS_CardinalityType
  <2>3. n \in Nat BY <2>2
  <2> QED BY <2>1, <2>3
<1>4. /\ ready' \in Seq(Procs) /\ IsInjective(ready')
      /\ Range(ready') = Range(ready) \cup Range(q)
  <2>1. ready \in Seq(Procs) /\ IsInjective(ready) /\ Range(ready) \cap Range(q) = {}
    BY <1>1, <1>2 DEF Types, OnePlace
  <2> QED BY <1>2, <1>3, <2>1, QueueConcat
<1>5. Types' BY <1>1, <1>2, <1>4 DEF Types
<1>6. OnePlace' BY <1>1, <1>2, <1>4 DEF OnePlace
<1>7. SavedAtSyscall' BY <1>1, <1>2, <1>4 DEF SavedAtSyscall
<1>8. IdleFlag' /\ GsBase' /\ BlockedRestarts' /\ NoSwitchInRing0'
  BY <1>2 DEF IInv, IdleFlag, GsBase, BlockedRestarts, NoSwitchInRing0
<1> QED BY <1>5, <1>6, <1>7, <1>8 DEF IInv

-----------------------------------------------------------------------------
(* The state the first process starts in. *)
LEMMA InitEstablishes == Init => IInv
<1> SUFFICES ASSUME Init PROVE IInv
  OBVIOUS
<1>1. ready \in Seq(Procs) /\ Range(ready) = {} /\ IsInjective(ready)
  BY EmptyQueue DEF Init
<1>2. Types BY <1>1, ProcsAssumption DEF Init, Types, Context
<1>3. OnePlace BY <1>1, ProcsAssumption DEF Init, OnePlace
<1> QED BY <1>2, <1>3
    DEF Init, IInv, IdleFlag, SavedAtSyscall, GsBase, BlockedRestarts, NoSwitchInRing0

(* Every step keeps the invariant. *)
LEMMA NextPreserves == IInv /\ [Next]_vars => IInv'
<1> SUFFICES ASSUME IInv, [Next]_vars PROVE IInv'
  OBVIOUS
<1>1. Types BY DEF IInv
<1>2. CASE Compute
  BY <1>2 DEF Compute, modeVars, IInv, Types, OnePlace, SavedAtSyscall, IdleFlag, GsBase,
              BlockedRestarts, NoSwitchInRing0, Context
<1>3. CASE Reach
  BY <1>3 DEF Reach, modeVars, IInv, Types, OnePlace, SavedAtSyscall, IdleFlag, GsBase,
              BlockedRestarts, NoSwitchInRing0, Context
<1>4. CASE SyscallReturns
  <2>1. regs' \in Context /\ gs' = "user" BY <1>4, ReturnFacts DEF SyscallReturns
  <2> QED BY <1>4, <2>1 DEF SyscallReturns, modeVars, AtSyscall, IInv, Types, OnePlace,
              SavedAtSyscall, IdleFlag, GsBase, BlockedRestarts, NoSwitchInRing0
<1>5. CASE SyscallBlocks BY <1>5, BlockPreserves
<1>6. ASSUME NEW p \in Procs, Fork(p) PROVE IInv' BY <1>6, ForkPreserves
<1>7. ASSUME NEW p \in Procs, Kill(p) PROVE IInv'
  <2>1. regs' \in Context /\ gs' = "user" BY <1>7, ReturnFacts DEF Kill
  <2> QED BY <1>7, <2>1 DEF Kill, modeVars, AtSyscall, IInv, Types, OnePlace,
              SavedAtSyscall, IdleFlag, GsBase, BlockedRestarts, NoSwitchInRing0
<1>8. ASSUME NEW p \in Procs, SyscallExit(p) PROVE IInv'
  <2>1. /\ saved' \in [Procs -> Context] /\ killed' \subseteq Procs
        /\ \A r \in Procs : r # cur => saved'[r] = saved[r]
    BY <1>1, <1>8 DEF SyscallExit, Types, Context, SyscallFrame
  <2> QED BY <1>8, <2>1, ExitPreserves DEF SyscallExit, AtSyscall
<1>9. ASSUME NEW p \in Procs, Fault(p) PROVE IInv'
  <2>1. killed' \subseteq Procs BY <1>1, <1>9 DEF Fault, Types
  <2> QED BY <1>9, <2>1, ContextSwitchPreserves DEF Fault
<1>10. ASSUME NEW p \in Procs, Tick(p) PROVE IInv'
  <2> DEFINE kill == cur \in killed
  <2>1. kill \in BOOLEAN /\ ContextSwitch(kill, p) BY <1>10 DEF Tick
  <2>2. killed' \subseteq Procs BY <1>1, <1>10 DEF Tick, Types
  <2> HIDE DEF kill
  <2> QED BY <1>10, <2>1, <2>2, ContextSwitchPreserves DEF Tick
<1>11. CASE IdleLoads
  <2>1. /\ cpu = "idle" /\ LoadNext(entry, ready, saved)
        /\ UNCHANGED <<saved, waiting, killed, dead, own, pending>>
    BY <1>11 DEF IdleLoads, procVars
  <2>2. OnePlace /\ SavedAtSyscall BY DEF IInv
  <2>3. /\ entry \in {"syscall", "interrupt"} /\ ready \in Seq(Procs) /\ IsInjective(ready)
        /\ saved \in [Procs -> Context]
    BY <1>1, <2>2 DEF Types, OnePlace
  <2>4. /\ Range(ready) \cap waiting' = {} /\ Range(ready) \cap dead' = {}
        /\ waiting' \cap dead' = {}
        /\ \A p \in pending' : p \in Range(ready) \cup waiting' => saved'[p].rip = "syscall"
    BY <2>1, <2>2 DEF OnePlace, SavedAtSyscall
  <2>5. /\ waiting' \subseteq Procs /\ killed' \subseteq Procs /\ dead' \subseteq Procs
        /\ own' \subseteq Procs /\ pending' \subseteq Procs
    BY <1>1, <2>1 DEF Types
  <2> QED BY <2>1, <2>3, <2>4, <2>5, SwitchPreserves
<1>12. ASSUME NEW q \in Orders, Key(q) PROVE IInv' BY <1>12, KeyPreserves
<1>13. CASE UNCHANGED vars
  BY <1>13 DEF vars, IInv, Types, OnePlace, SavedAtSyscall, IdleFlag, GsBase,
               BlockedRestarts, NoSwitchInRing0
<1> QED BY <1>2, <1>3, <1>4, <1>5, <1>6, <1>7, <1>8, <1>9, <1>10, <1>11, <1>12, <1>13 DEF Next

(* Whatever the programs do and whenever the timer and the keyboard         *)
(* interrupt them, the invariant holds.                                     *)
THEOREM Invariance == Spec => []IInv
BY InitEstablishes, NextPreserves, PTL DEF Spec

(* Every variable keeps its type; the ready queue never grows beyond the    *)
(* number of processes, because nobody is in it twice.                      *)
THEOREM TypeCorrect == Spec => []TypeOK
<1>1. IInv => TypeOK
  <2> SUFFICES ASSUME IInv PROVE TypeOK
    OBVIOUS
  <2>1. Types /\ IsInjective(ready) /\ ready \in Seq(Procs) BY DEF IInv, OnePlace, Types
  <2>2. ready \in Injection(1 .. Len(ready), Procs)
    BY <2>1 DEF IsInjective, Injection
  <2>3. Cardinality(1 .. Len(ready)) = Len(ready)
    <3>1. Len(ready) \in Nat BY <2>1
    <3>2. \A n \in Int : Cardinality(1 .. n) = IF 1 > n THEN 0 ELSE n - 1 + 1
      BY 1 \in Int, FS_Interval
    <3> QED BY <3>1, <3>2
  <2>4. Len(ready) <= Cardinality(Procs)
    BY <2>2, <2>3, ProcsAssumption, FS_Injection
  <2> QED BY <2>1, <2>4 DEF TypeOK, Types
<1> QED BY <1>1, Invariance, PTL

(* Every way out of the kernel undoes the swapgs of the way in, if there    *)
(* was one: user mode runs with the user's GS base, also when a process     *)
(* enters by one door (syscall or interrupt) and another process leaves     *)
(* with the context it saved at the other.  So every syscall, behind its    *)
(* swapgs, finds the kernel's base.                                         *)
THEOREM GsBalanced == Spec => []GsMatches
<1>1. IInv => GsMatches BY DEF IInv, GsBase, GsMatches, AtSyscall, EntryGs, Swap
<1> QED BY <1>1, Invariance, PTL

(* A blocked read or wait is asked again when its caller next runs, however *)
(* often that process is woken, preempted or resumed from the idle loop.    *)
THEOREM SyscallsRestart == Spec => []BlockedRestarts
<1>1. IInv => BlockedRestarts BY DEF IInv
<1> QED BY <1>1, Invariance, PTL

(* The assertion of pm_scheduler_context_switch on ring 0 never fails. *)
THEOREM SwitchOnlyFromUser == Spec => []NoSwitchInRing0
<1>1. IInv => NoSwitchInRing0 BY DEF IInv
<1> QED BY <1>1, Invariance, PTL

=============================================================================
