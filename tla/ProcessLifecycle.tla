-------------------------- MODULE ProcessLifecycle --------------------------
(***************************************************************************)
(* What the process manager promises its callers, without queues, timer or *)
(* keyboard: processes are created, run one at a time, sleep, die, and are *)
(* reaped by the parent they have when they are reaped.                    *)
(***************************************************************************)
CONSTANTS Proc, Root, NoParent

VARIABLES life, parent, halted

vars == <<life, parent, halted>>

With(l) == {p \in Proc : life[p] = l}

Init ==
    /\ life = [p \in Proc |-> IF p = Root THEN "running" ELSE "free"]
    /\ parent = [p \in Proc |-> NoParent]
    /\ halted = FALSE

(* Nobody runs after the change l: a runnable process is given the CPU, and *)
(* only the lack of one leaves the CPU idle.                                *)
Dispatch(l) ==
    LET ready == {p \in Proc : l[p] = "runnable"} IN
    IF ready = {} THEN life' = l
    ELSE \E p \in ready : life' = [q \in Proc |-> IF q = p THEN "running" ELSE l[q]]

Create(p, c) ==
    /\ life[p] = "running" /\ life[c] = "free"
    /\ life' = [life EXCEPT ![c] = "runnable"]
    /\ parent' = [parent EXCEPT ![c] = p]

Sleep(p) ==
    /\ life[p] = "running"
    /\ Dispatch([life EXCEPT ![p] = "blocked"])
    /\ UNCHANGED parent

(* The only process a death wakes is the parent, and orphans go to Root. *)
Die(p) ==
    /\ life[p] = "running" /\ p # Root
    /\ parent' = [c \in Proc |-> IF life[c] # "free" /\ parent[c] = p THEN Root ELSE parent[c]]
    /\ \/ Dispatch([life EXCEPT ![p] = "zombie"])
       \/ /\ life[parent[p]] = "blocked"
          /\ Dispatch([life EXCEPT ![p] = "zombie", ![parent[p]] = "runnable"])

Reap(p, c) ==
    /\ life[p] = "running" /\ life[c] = "zombie" /\ parent[c] = p
    /\ life' = [life EXCEPT ![c] = "free"]
    /\ parent' = [parent EXCEPT ![c] = NoParent]

(* A preempted process lets every other runnable process go first, once. *)
Preempt(p) ==
    /\ life[p] = "running" /\ With("runnable") # {}
    /\ \E q \in With("runnable") : life' = [life EXCEPT ![p] = "runnable", ![q] = "running"]
    /\ UNCHANGED parent

Wake ==
    /\ \E S \in SUBSET With("blocked") :
          life' = [p \in Proc |-> IF p \in S THEN "runnable" ELSE life[p]]
    /\ UNCHANGED parent

Resume ==
    /\ With("running") = {} /\ With("runnable") # {}
    /\ Dispatch(life)
    /\ UNCHANGED parent

(* The kernel stops: from then on there are no processes. *)
Halt ==
    /\ life' = [p \in Proc |-> "free"]
    /\ parent' = [p \in Proc |-> NoParent]
    /\ halted' = TRUE

Next ==
    /\ ~ halted
    /\ \/ /\ \/ \E p, c \in Proc : Create(p, c) \/ Reap(p, c)
             \/ \E p \in Proc : Sleep(p) \/ Die(p) \/ Preempt(p)
             \/ Wake \/ Resume
          /\ UNCHANGED halted
       \/ Halt

Spec == Init /\ [][Next]_vars

=============================================================================
