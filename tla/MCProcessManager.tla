-------------------------- MODULE MCProcessManager --------------------------
(* ProcessManager for TLC, and the abstract specification it implements.    *)
EXTENDS ProcessManager

Life(p) ==
    IF ~ Running THEN "free"
    ELSE IF cpu = "user" /\ curr = p THEN "running"
    ELSE CASE st[p] = "ready"   -> "runnable"
           [] st[p] = "waiting" -> "blocked"
           [] OTHER             -> st[p]

Lifecycle == INSTANCE ProcessLifecycle WITH
    Proc <- Pids, Root <- InitPid, NoParent <- 0,
    life <- [p \in Pids |-> Life(p)],
    parent <- [p \in Pids |-> IF Running THEN ppid[p] ELSE 0],
    halted <- ~ Running

(* Syscalls, interrupts and the scheduler together do to a process only     *)
(* what ProcessLifecycle allows: one runs at a time, the CPU idles only     *)
(* when nobody can run, a death wakes the parent alone and a zombie is      *)
(* reaped by its parent alone.                                              *)
ImplementsLifecycle == Lifecycle!Spec

=============================================================================
