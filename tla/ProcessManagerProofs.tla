------------------------ MODULE ProcessManagerProofs ------------------------
(***************************************************************************)
(* IInv of ProcessManager is inductive, for every number of process slots, *)
(* every capacity of the keyboard buffer, every tick period and whether or *)
(* not kmalloc hands out zeroed memory; and ProcessManager implements      *)
(* ProcessLifecycle.                                                       *)
(***************************************************************************)
EXTENDS MCProcessManager, KernelTheorems

(* Pids is a set of positive integers, so slot 0 is nobody's. *)
LEMMA PidFacts ==
    /\ InitPid \in Pids /\ 0 \notin Pids
    /\ Keyboard \notin Pids /\ Keyboard \in Queues
    /\ Pids \subseteq Queues
    /\ Pids \subseteq 0 .. (MAX_PIDS - 1)
    /\ 0 \in 0 .. (MAX_PIDS - 1)
BY PidsAssumption DEF Pids, InitPid, Keyboard, Queues

(* generate_pid and the scan of pm_wait return an element of what they      *)
(* search, when there is one.                                               *)
LEMMA MinFact ==
    ASSUME NEW S \in SUBSET Pids, S # {}
    PROVE  Min(S) \in S
<1>1. S \subseteq Nat BY DEF Pids
<1> QED BY <1>1, MinIsLeast

(* pm_load_next_ready_process takes the head of the queue it is given, or   *)
(* idles; either way nobody in that queue is lost or duplicated.            *)
LEMMA LoadNextFacts ==
    ASSUME NEW rq \in Seq(Pids), NEW m \in {"idle", "idle_in_timer"},
           IsInjective(rq), curr \in Pids, LoadNext(rq, m)
    PROVE  /\ runq' \in Seq(Pids) /\ curr' \in Pids /\ cpu' \in {"user", m}
           /\ IsInjective(runq') /\ Range(runq') \subseteq Range(rq)
           /\ cpu' = "user" => curr' \in Range(rq) /\ curr' \notin Range(runq')
           /\ \A p \in Range(rq) : (cpu' = "user" /\ curr' = p) \/ p \in Range(runq')
<1>1. CASE rq = <<>>
  BY <1>1, EmptyQueue, m # "user" DEF LoadNext
<1>2. CASE rq # <<>>
  <2> DEFINE h == Head(rq)
             t == Tail(rq)
  <2>1. h \in Pids /\ t \in Seq(Pids) /\ Range(rq) = {h} \cup Range(t)
    BY <1>2, QueueTail
  <2>2. IsInjective(t) /\ h \notin Range(t) BY <1>2, QueueTail
  <2>3. cpu' = "user" /\ runq' = t /\ curr' = h BY <1>2 DEF LoadNext
  <2> HIDE DEF h, t
  <2> QED BY <2>1, <2>2, <2>3
<1> QED BY <1>1, <1>2

-----------------------------------------------------------------------------
(* The running process exits: pm_exit with the switch that follows.  The    *)
(* variables the callers set differently only need to keep their types.     *)
LEMMA ExitPreserves ==
    ASSUME IInv, cpu = "user", NEW m \in {"idle", "idle_in_timer"}, ExitCurr(m),
           kill' \in [Pids -> BOOLEAN], junk' = junk, keys' = keys,
           ticks' \in 0 .. (TICKS_PER_SWITCH - 1), kbdIrq' \in BOOLEAN
    PROVE  IInv'
<1> USE PidFacts
<1> DEFINE parent == ppid[curr]
           woken  == waitq[parent]
<1>1. /\ TypeOK /\ RunQueueExact /\ WaitQueuesExact /\ OwnQueueOnly /\ NoProcessLost
      /\ ParentAlive /\ InitIsRoot /\ ParentAssert /\ NoSleepOnInput /\ NoSleepOnZombie
  BY DEF IInv
<1>2. Running /\ curr \in Pids /\ st[curr] = "ready" /\ curr \notin Range(runq)
  BY <1>1 DEF RunQueueExact, TypeOK, Running
<1>3. \A q \in Queues : curr \notin Range(waitq[q])
  BY <1>1, <1>2 DEF WaitQueuesExact
<1>4. ppid' \in [Pids -> 0 .. (MAX_PIDS - 1)]
  BY <1>1 DEF ExitCurr, HandOver, TypeOK
<1>5. /\ \A c \in Pids : ppid'[c] = IF st[c] # "free" /\ ppid[c] = curr THEN InitPid ELSE ppid[c]
      /\ ppid'[curr] = ppid[curr] /\ ppid[curr] # curr
      /\ ppid'[InitPid] = 0
  BY <1>1, <1>2 DEF ExitCurr, HandOver, Children, InitIsRoot
<1>6. CASE ~ (parent \in Pids /\ st[parent] # "free" /\ parent \notin junk)
  <2>1. /\ st' = [st EXCEPT ![curr] = "zombie"]
        /\ Stop(IF parent \in Pids /\ st[parent] # "free" THEN "corrupt" ELSE "panic")
    BY <1>6 DEF ExitCurr
  <2>2. cpu' \in {"panic", "corrupt"} /\ waitq' = waitq /\ runq' = runq /\ curr' = curr
    BY <2>1 DEF Stop
  <2>3. ~ Running' BY <2>2 DEF Running
  <2>4. TypeOK' BY <1>1, <1>4, <2>1, <2>2 DEF TypeOK, States, CpuModes
  <2>5. RunQueueExact' BY <1>1, <1>2, <2>1, <2>2 DEF RunQueueExact, TypeOK
  <2>6. WaitQueuesExact' BY <1>1, <1>3, <2>1, <2>2 DEF WaitQueuesExact, TypeOK
  <2>7. OwnQueueOnly' BY <1>1, <2>2 DEF OwnQueueOnly
  <2>8. InitIsRoot' BY <1>1, <1>2, <1>5, <2>3 DEF InitIsRoot
  <2>9. ParentAssert'
    <3>1. CASE curr = InitPid BY <3>1, <2>2 DEF ParentAssert
    <3>2. CASE curr # InitPid
      <4>1. parent \in Pids /\ Alive(parent) BY <1>1, <1>2, <3>2 DEF ParentAlive
      <4>2. cpu' = "corrupt" BY <4>1, <2>1 DEF Alive, Stop
      <4> QED BY <4>2 DEF ParentAssert
    <3> QED BY <3>1, <3>2
  <2> QED BY <2>3, <2>4, <2>5, <2>6, <2>7, <2>8, <2>9
      DEF IInv, NoProcessLost, ParentAlive, NoSleepOnInput, NoSleepOnZombie, SleepsForChild
<1>7. CASE parent \in Pids /\ st[parent] # "free" /\ parent \notin junk
  <2>1. /\ st' = [p \in Pids |-> IF p \in Range(woken) THEN "ready"
                                 ELSE IF p = curr THEN "zombie" ELSE st[p]]
        /\ waitq' = [waitq EXCEPT ![parent] = <<>>]
        /\ LoadNext(runq \o woken, m)
    BY <1>7 DEF ExitCurr
  <2>2. runq \in Seq(Pids) /\ woken \in Seq(Pids) /\ IsInjective(runq) /\ IsInjective(woken)
    BY <1>1, <1>7 DEF TypeOK, RunQueueExact, WaitQueuesExact
  <2>3. Range(runq) \cap Range(woken) = {}
    BY <1>1, <1>7 DEF RunQueueExact, WaitQueuesExact
  <2>4. /\ runq \o woken \in Seq(Pids) /\ IsInjective(runq \o woken)
        /\ Range(runq \o woken) = Range(runq) \cup Range(woken)
    BY <2>2, <2>3, QueueConcat
  <2>5. /\ runq' \in Seq(Pids) /\ curr' \in Pids /\ cpu' \in {"user", m}
        /\ IsInjective(runq') /\ Range(runq') \subseteq Range(runq) \cup Range(woken)
        /\ cpu' = "user" => curr' \in Range(runq) \cup Range(woken) /\ curr' \notin Range(runq')
        /\ \A p \in Range(runq) \cup Range(woken) :
              (cpu' = "user" /\ curr' = p) \/ p \in Range(runq')
    <3> DEFINE rq == runq \o woken
    <3>1. rq \in Seq(Pids) /\ IsInjective(rq) /\ LoadNext(rq, m) BY <2>1, <2>4
    <3>2. Range(rq) = Range(runq) \cup Range(woken) BY <2>4
    <3> HIDE DEF rq
    <3> QED BY <1>2, <3>1, <3>2, LoadNextFacts
  <2>6. cpu' \notin {"panic", "corrupt"} /\ Running' BY <2>5 DEF Running
  <2>7. Range(woken) \subseteq {parent} /\ parent # curr
    BY <1>1, <1>5, <1>7 DEF OwnQueueOnly
  <2>8. /\ st'[curr] = "zombie"
        /\ \A p \in Pids : p # curr => st'[p] = IF p \in Range(woken) THEN "ready" ELSE st[p]
        /\ st' \in [Pids -> States]
    BY <1>1, <1>2, <2>1, <2>7 DEF TypeOK, States
  <2>9. /\ waitq' \in [Queues -> Seq(Pids)]
        /\ Range(waitq'[parent]) = {} /\ IsInjective(waitq'[parent])
        /\ \A q \in Queues : q # parent => waitq'[q] = waitq[q]
    BY <1>1, <1>7, <2>1, EmptyQueue DEF TypeOK
  <2>10. TypeOK' BY <1>1, <1>4, <2>5, <2>8, <2>9 DEF TypeOK, CpuModes
  <2>11. RunQueueExact'
    <3>1. Range(runq) \subseteq Pids /\ Range(woken) \subseteq Pids
      BY <2>2, QueueElements
    <3>2. \A p \in Range(runq) : st'[p] = "ready"
      BY <1>1, <1>2, <2>8, <3>1 DEF RunQueueExact
    <3>3. \A p \in Range(woken) : st'[p] = "ready"
      BY <2>7, <2>8, <3>1
    <3> QED BY <2>5, <3>2, <3>3 DEF RunQueueExact
  <2>12. WaitQueuesExact'
    <3>1. \A q \in Queues : IsInjective(waitq'[q])
      BY <1>1, <2>9 DEF WaitQueuesExact
    <3>2. ASSUME NEW q \in Queues, NEW p \in Range(waitq'[q])
          PROVE  st'[p] = "waiting" /\ \A r \in Queues : p \in Range(waitq'[r]) => r = q
      <4>1. q # parent /\ p \in Range(waitq[q]) BY <2>9, <3>2
      <4>2. /\ p \in Pids /\ st[p] = "waiting" /\ p \notin Range(woken)
            /\ \A r \in Queues : p \in Range(waitq[r]) => r = q
        BY <1>1, <1>7, <4>1, QueueElements DEF WaitQueuesExact, TypeOK
      <4>3. p # curr BY <1>3, <4>1
      <4>4. \A r \in Queues : p \in Range(waitq'[r]) => p \in Range(waitq[r])
        BY <2>9
      <4> QED BY <2>8, <4>2, <4>3, <4>4
    <3> QED BY <3>1, <3>2 DEF WaitQueuesExact
  <2>13. OwnQueueOnly' BY <1>1, <1>7, <2>9 DEF OwnQueueOnly
  <2>14. NoProcessLost'
    <3> SUFFICES ASSUME NEW p \in Pids
                 PROVE  /\ st'[p] = "ready" => Scheduled(p)'
                        /\ st'[p] = "waiting" => \E q \in Queues : p \in Range(waitq'[q])
      BY DEF NoProcessLost
    <3>1. ASSUME st'[p] = "ready" PROVE Scheduled(p)'
      <4>1. p # curr BY <2>8, <3>1
      <4>2. p \in Range(runq) \cup Range(woken)
        BY <1>1, <1>2, <2>8, <3>1, <4>1 DEF NoProcessLost, Scheduled
      <4> QED BY <2>5, <4>2 DEF Scheduled
    <3>2. ASSUME st'[p] = "waiting" PROVE \E q \in Queues : p \in Range(waitq'[q])
      <4>1. p # curr /\ st[p] = "waiting" /\ p \notin Range(woken) BY <2>8, <3>2
      <4>2. PICK q \in Queues : p \in Range(waitq[q])
        BY <1>1, <1>2, <4>1 DEF NoProcessLost
      <4>3. q # parent BY <4>1, <4>2
      <4> QED BY <2>9, <4>2, <4>3
    <3> QED BY <3>1, <3>2
  <2>15. curr # InitPid /\ Alive(InitPid)
    BY <1>1, <1>2, <1>7 DEF InitIsRoot
  <2>16. \A p \in Pids : p # curr /\ Alive(p) => Alive(p)'
    BY <1>1, <2>8 DEF Alive
  <2>17. InitIsRoot'
    BY <1>1, <1>2, <1>5, <2>15, <2>16 DEF InitIsRoot
  <2>18. ParentAlive'
    <3> SUFFICES ASSUME NEW p \in Pids, st'[p] # "free", p # InitPid
                 PROVE  (ppid[p] \in Pids /\ Alive(ppid[p]))'
      BY DEF ParentAlive, Alive
    <3>1. st[p] # "free"
      BY <1>1, <1>2, <1>7, <2>7, <2>8
    <3>2. ppid[p] \in Pids /\ Alive(ppid[p]) BY <1>1, <1>2, <3>1 DEF ParentAlive
    <3>3. CASE ppid[p] = curr BY <1>5, <2>15, <2>16, <3>1, <3>3 DEF Alive
    <3>4. CASE ppid[p] # curr BY <1>5, <2>16, <3>2, <3>4 DEF Alive
    <3> QED BY <3>3, <3>4
  <2>19. ParentAssert' BY <2>6 DEF ParentAssert
  <2>20. NoSleepOnInput'
    BY <1>1, <1>2, <1>7, <2>9 DEF NoSleepOnInput
  <2>21. NoSleepOnZombie'
    <3> SUFFICES ASSUME NEW p \in Pids \ {InitPid}, p \in Range(waitq'[p])
                 PROVE  Children(p)' # {} /\ Zombies(p)' = {}
      BY DEF NoSleepOnZombie, SleepsForChild
    <3>1. p # parent /\ p \in Range(waitq[p]) BY <2>9
    <3>2. p # curr BY <1>3, <3>1
    <3>3. Children(p) # {} /\ Zombies(p) = {}
      BY <1>1, <1>2, <3>1 DEF NoSleepOnZombie, SleepsForChild
    <3>4. \A c \in Pids : st'[c] = "free" <=> st[c] = "free"
      BY <1>1, <1>2, <1>7, <2>7, <2>8
    <3>5. Children(p)' = Children(p)
      BY <1>5, <3>2, <3>4 DEF Children
    <3>6. curr \notin Children(p) BY <1>5, <3>1 DEF Children
    <3>7. Zombies(p)' = {} BY <2>8, <3>3, <3>5, <3>6 DEF Zombies, Children
    <3> QED BY <3>3, <3>5, <3>7
  <2> QED BY <2>10, <2>11, <2>12, <2>13, <2>14, <2>17, <2>18, <2>19, <2>20, <2>21 DEF IInv
<1> QED BY <1>6, <1>7

-----------------------------------------------------------------------------
(* The running process goes to sleep on the keyboard's queue or on its own. *)
LEMMA BlockPreserves ==
    ASSUME IInv, cpu = "user", NEW q \in {Keyboard, curr}, Block(q),
           UNCHANGED <<ppid, kill, junk, ticks, keys, kbdIrq>>,
           q = Keyboard => keys = 0,
           q = curr => Children(curr) # {} /\ Zombies(curr) = {}
    PROVE  IInv'
<1> USE PidFacts
<1>1. /\ TypeOK /\ RunQueueExact /\ WaitQueuesExact /\ OwnQueueOnly /\ NoProcessLost
      /\ ParentAlive /\ InitIsRoot /\ ParentAssert /\ NoSleepOnInput /\ NoSleepOnZombie
  BY DEF IInv
<1>2. Running /\ curr \in Pids /\ q \in Queues /\ st[curr] = "ready" /\ curr \notin Range(runq)
  BY <1>1 DEF RunQueueExact, TypeOK, Running
<1>3. \A r \in Queues : curr \notin Range(waitq[r])
  BY <1>1, <1>2 DEF WaitQueuesExact
<1>4. /\ st' \in [Pids -> States] /\ st'[curr] = "waiting"
      /\ \A p \in Pids : p # curr => st'[p] = st[p]
  BY <1>1, <1>2 DEF Block, TypeOK, States
<1>5. \A p \in Pids : st'[p] = "free" <=> st[p] = "free" BY <1>2, <1>4
<1>8. runq \in Seq(Pids) /\ Range(runq) \subseteq Pids
  <2>1. runq \in Seq(Pids) BY <1>1 DEF TypeOK
  <2> QED BY <2>1, QueueElements
<1>6. CASE q \in junk
  <2>1. cpu' = "corrupt" /\ waitq' = waitq /\ runq' = runq /\ curr' = curr
    BY <1>6 DEF Block, Stop
  <2>2. ~ Running' BY <2>1 DEF Running
  <2>3. TypeOK' BY <1>1, <1>4, <2>1 DEF TypeOK, CpuModes
  <2>4. RunQueueExact'
    BY <1>1, <1>2, <1>4, <1>8, <2>1 DEF RunQueueExact
  <2>5. WaitQueuesExact'
    BY <1>1, <1>3, <1>4, <2>1, QueueElements DEF WaitQueuesExact, TypeOK
  <2>6. OwnQueueOnly' BY <1>1, <2>1 DEF OwnQueueOnly
  <2>7. InitIsRoot' /\ ParentAssert' BY <1>1, <2>1, <2>2 DEF InitIsRoot, ParentAssert
  <2> QED BY <2>2, <2>3, <2>4, <2>5, <2>6, <2>7
      DEF IInv, NoProcessLost, ParentAlive, NoSleepOnInput, NoSleepOnZombie, SleepsForChild
<1>7. CASE q \notin junk
  <2>1. waitq' = [waitq EXCEPT ![q] = Append(@, curr)] /\ LoadNext(runq, "idle")
    BY <1>7 DEF Block
  <2>2. /\ runq' \in Seq(Pids) /\ curr' \in Pids /\ cpu' \in {"user", "idle"}
        /\ IsInjective(runq') /\ Range(runq') \subseteq Range(runq)
        /\ cpu' = "user" => curr' \in Range(runq) /\ curr' \notin Range(runq')
        /\ \A p \in Range(runq) : (cpu' = "user" /\ curr' = p) \/ p \in Range(runq')
    <3>1. runq \in Seq(Pids) /\ IsInjective(runq) BY <1>1 DEF TypeOK, RunQueueExact
    <3> QED BY <1>2, <2>1, <3>1, LoadNextFacts
  <2>3. Running' BY <2>2 DEF Running
  <2>4. /\ waitq' \in [Queues -> Seq(Pids)]
        /\ Range(waitq'[q]) = Range(waitq[q]) \cup {curr} /\ IsInjective(waitq'[q])
        /\ \A r \in Queues : r # q => waitq'[r] = waitq[r]
    <3>1. /\ waitq \in [Queues -> Seq(Pids)] /\ waitq[q] \in Seq(Pids)
          /\ IsInjective(waitq[q])
      BY <1>1, <1>2 DEF TypeOK, WaitQueuesExact
    <3>2. /\ Append(waitq[q], curr) \in Seq(Pids)
          /\ Range(Append(waitq[q], curr)) = Range(waitq[q]) \cup {curr}
          /\ IsInjective(Append(waitq[q], curr))
      BY <1>2, <1>3, <3>1, QueueAppend
    <3>3. waitq'[q] = Append(waitq[q], curr) BY <1>2, <2>1, <3>1
    <3>4. waitq' \in [Queues -> Seq(Pids)] /\ \A r \in Queues : r # q => waitq'[r] = waitq[r]
      BY <1>2, <2>1, <3>1, <3>2
    <3> QED BY <3>2, <3>3, <3>4
  <2>5. TypeOK' BY <1>1, <1>4, <2>2, <2>4 DEF TypeOK, CpuModes
  <2>6. RunQueueExact'
    <3>1. \A p \in Range(runq) : p \in Pids /\ st'[p] = "ready"
      BY <1>1, <1>2, <1>4, <1>8 DEF RunQueueExact
    <3> QED BY <2>2, <3>1 DEF RunQueueExact
  <2>7. WaitQueuesExact'
    <3>1. \A r \in Queues : IsInjective(waitq'[r])
      BY <1>1, <2>4 DEF WaitQueuesExact
    <3>2. ASSUME NEW r \in Queues, NEW p \in Range(waitq'[r])
          PROVE  st'[p] = "waiting" /\ \A s \in Queues : p \in Range(waitq'[s]) => s = r
      <4>1. CASE p = curr
        <5>1. \A s \in Queues : p \in Range(waitq'[s]) => s = q BY <1>3, <2>4, <4>1
        <5> QED BY <1>4, <3>2, <4>1, <5>1
      <4>2. CASE p # curr
        <5>1. \A s \in Queues : p \in Range(waitq'[s]) => p \in Range(waitq[s])
          BY <2>4, <4>2
        <5>2. p \in Range(waitq[r]) BY <3>2, <5>1
        <5>3. /\ p \in Pids /\ st[p] = "waiting"
              /\ \A s \in Queues : p \in Range(waitq[s]) => s = r
          BY <1>1, <5>2, QueueElements DEF WaitQueuesExact, TypeOK
        <5> QED BY <1>4, <4>2, <5>1, <5>3
      <4> QED BY <4>1, <4>2
    <3> QED BY <3>1, <3>2 DEF WaitQueuesExact
  <2>8. OwnQueueOnly' BY <1>1, <2>4 DEF OwnQueueOnly
  <2>9. NoProcessLost'
    <3> SUFFICES ASSUME NEW p \in Pids
                 PROVE  /\ st'[p] = "ready" => Scheduled(p)'
                        /\ st'[p] = "waiting" => \E r \in Queues : p \in Range(waitq'[r])
      BY DEF NoProcessLost
    <3>1. ASSUME st'[p] = "ready" PROVE Scheduled(p)'
      <4>1. p # curr /\ st[p] = "ready" BY <1>4, <3>1
      <4>2. p \in Range(runq) BY <1>1, <1>2, <4>1 DEF NoProcessLost, Scheduled
      <4> QED BY <2>2, <4>2 DEF Scheduled
    <3>2. ASSUME st'[p] = "waiting" PROVE \E r \in Queues : p \in Range(waitq'[r])
      <4>1. CASE p = curr BY <1>2, <2>4, <4>1
      <4>2. CASE p # curr
        <5>1. PICK r \in Queues : p \in Range(waitq[r])
          BY <1>1, <1>2, <1>4, <3>2, <4>2 DEF NoProcessLost
        <5>2. p \in Range(waitq'[r]) BY <2>4, <5>1
        <5> QED BY <5>1, <5>2
      <4> QED BY <4>1, <4>2
    <3> QED BY <3>1, <3>2
  <2>10. \A p \in Pids : Alive(p) => Alive(p)' BY <1>4 DEF Alive
  <2>11. ParentAlive'
    <3> SUFFICES ASSUME NEW p \in Pids, st'[p] # "free", p # InitPid
                 PROVE  (ppid[p] \in Pids /\ Alive(ppid[p]))'
      BY DEF ParentAlive, Alive
    <3>1. ppid[p] \in Pids /\ Alive(ppid[p]) BY <1>1, <1>2, <1>5 DEF ParentAlive
    <3>2. ppid' = ppid OBVIOUS
    <3> QED BY <2>10, <3>1, <3>2 DEF Alive
  <2>12. InitIsRoot' BY <1>1, <1>2, <2>10 DEF InitIsRoot
  <2>13. ParentAssert' BY <2>2 DEF ParentAssert
  <2>14. NoSleepOnInput'
    <3>1. CASE q = Keyboard BY <3>1 DEF NoSleepOnInput
    <3>2. CASE q # Keyboard BY <1>1, <1>2, <2>4, <3>2 DEF NoSleepOnInput
    <3> QED BY <3>1, <3>2
  <2>15. NoSleepOnZombie'
    <3> SUFFICES ASSUME NEW p \in Pids \ {InitPid}, p \in Range(waitq'[p])
                 PROVE  Children(p)' # {} /\ Zombies(p)' = {}
      BY DEF NoSleepOnZombie, SleepsForChild
    <3>1. Children(p) # {} /\ Zombies(p) = {}
      <4>1. CASE p = q BY <4>1
      <4>2. CASE p # q
        BY <1>1, <1>2, <2>4, <4>2 DEF NoSleepOnZombie, SleepsForChild
      <4> QED BY <4>1, <4>2
    <3>2. Children(p)' = Children(p) BY <1>5 DEF Children
    <3>3. Zombies(p)' = {} BY <1>4, <3>1, <3>2 DEF Zombies, Children
    <3> QED BY <3>1, <3>2, <3>3
  <2> QED BY <2>5, <2>6, <2>7, <2>8, <2>9, <2>11, <2>12, <2>13, <2>14, <2>15 DEF IInv
<1> QED BY <1>6, <1>7

-----------------------------------------------------------------------------
(* A switch among ready processes, from the idle loop or by the timer.      *)
LEMMA SwitchPreserves ==
    ASSUME IInv, Running, NEW rq \in Seq(Pids), IsInjective(rq), rq # <<>>,
           \A p \in Pids : p \in Range(rq) <=> Scheduled(p),
           NEW m \in {"idle", "idle_in_timer"}, LoadNext(rq, m),
           UNCHANGED <<st, ppid, kill, waitq, junk, keys, kbdIrq>>,
           ticks' \in 0 .. (TICKS_PER_SWITCH - 1)
    PROVE  IInv'
<1> USE PidFacts
<1>1. /\ TypeOK /\ RunQueueExact /\ WaitQueuesExact /\ OwnQueueOnly /\ NoProcessLost
      /\ ParentAlive /\ InitIsRoot /\ ParentAssert /\ NoSleepOnInput /\ NoSleepOnZombie
  BY DEF IInv
<1>2. curr \in Pids BY <1>1 DEF TypeOK
<1>3. /\ runq' \in Seq(Pids) /\ curr' \in Pids /\ cpu' = "user"
      /\ IsInjective(runq') /\ Range(runq') \subseteq Range(rq)
      /\ curr' \in Range(rq) /\ curr' \notin Range(runq')
      /\ \A p \in Range(rq) : curr' = p \/ p \in Range(runq')
  <2>1. cpu' = "user" BY DEF LoadNext
  <2> QED BY <1>2, <2>1, LoadNextFacts
<1>4. Range(rq) \subseteq Pids BY QueueElements
<1>5. \A p \in Range(rq) : st[p] = "ready"
  BY <1>1, <1>4 DEF Scheduled, RunQueueExact
<1>6. TypeOK' BY <1>1, <1>3 DEF TypeOK, CpuModes
<1>7. RunQueueExact' BY <1>3, <1>5 DEF RunQueueExact
<1>8. NoProcessLost'
  <2>1. \A p \in Pids : st[p] = "ready" => Scheduled(p)'
    BY <1>1, <1>3 DEF NoProcessLost, Scheduled
  <2> QED BY <1>1, <2>1 DEF NoProcessLost
<1>9. WaitQueuesExact' /\ OwnQueueOnly' BY <1>1 DEF WaitQueuesExact, OwnQueueOnly
<1>10. ParentAlive' /\ InitIsRoot' BY <1>1 DEF ParentAlive, InitIsRoot, Alive
<1>11. ParentAssert' /\ NoSleepOnInput' BY <1>1, <1>3 DEF ParentAssert, NoSleepOnInput
<1>12. NoSleepOnZombie'
  BY <1>1 DEF NoSleepOnZombie, SleepsForChild, Children, Zombies
<1> QED BY <1>6, <1>7, <1>8, <1>9, <1>10, <1>11, <1>12 DEF IInv

(* Steps that leave the processes and the queues alone. *)
LEMMA QuietPreserves ==
    ASSUME IInv, UNCHANGED <<st, ppid, waitq, runq, curr, cpu, junk>>,
           kill' \in [Pids -> BOOLEAN], ticks' \in 0 .. (TICKS_PER_SWITCH - 1),
           keys' \in 0 .. KBD_CAPACITY, keys' > 0 => keys > 0, kbdIrq' \in BOOLEAN
    PROVE  IInv'
<1>1. TypeOK' BY DEF IInv, TypeOK
<1>2. RunQueueExact' /\ WaitQueuesExact' /\ OwnQueueOnly'
  BY DEF IInv, RunQueueExact, WaitQueuesExact, OwnQueueOnly
<1>3. NoProcessLost' BY DEF IInv, NoProcessLost, Scheduled, Running
<1>4. ParentAlive' /\ InitIsRoot' /\ ParentAssert'
  BY DEF IInv, ParentAlive, InitIsRoot, ParentAssert, Alive, Running
<1>5. NoSleepOnInput' BY DEF IInv, NoSleepOnInput, Running
<1>6. NoSleepOnZombie'
  BY DEF IInv, NoSleepOnZombie, SleepsForChild, Children, Zombies, Running
<1> QED BY <1>1, <1>2, <1>3, <1>4, <1>5, <1>6 DEF IInv

-----------------------------------------------------------------------------
(* pm_fork: the child takes a free slot and joins the run queue. *)
LEMMA ForkPreserves == IInv /\ Fork => IInv'
<1> SUFFICES ASSUME IInv, Fork PROVE IInv'
  OBVIOUS
<1> USE PidFacts
<1> DEFINE child == Min(FreePids)
<1>1. /\ TypeOK /\ RunQueueExact /\ WaitQueuesExact /\ OwnQueueOnly /\ NoProcessLost
      /\ ParentAlive /\ InitIsRoot /\ ParentAssert /\ NoSleepOnInput /\ NoSleepOnZombie
  BY DEF IInv
<1>2. /\ Running /\ curr \in Pids /\ st[curr] = "ready" /\ curr \notin Range(runq)
      /\ ticks' = ticks /\ keys' = keys /\ kbdIrq' = kbdIrq
  BY <1>1 DEF RunQueueExact, TypeOK, Running, Fork
<1>3. runq \in Seq(Pids) /\ Range(runq) \subseteq Pids
  <2>1. runq \in Seq(Pids) BY <1>1 DEF TypeOK
  <2> QED BY <2>1, QueueElements
<1>4. CASE FreePids = {}
  <2>1. cpu' = "panic" /\ UNCHANGED <<st, ppid, kill, junk, waitq, runq, curr>>
    BY <1>4 DEF Fork, Stop
  <2>2. ~ Running' BY <2>1 DEF Running
  <2>3. TypeOK' BY <1>1, <1>2, <2>1 DEF TypeOK, CpuModes
  <2>4. RunQueueExact' /\ WaitQueuesExact' /\ OwnQueueOnly'
    BY <1>1, <2>1 DEF RunQueueExact, WaitQueuesExact, OwnQueueOnly
  <2>5. InitIsRoot' BY <1>1, <2>1, <2>2 DEF InitIsRoot
  <2>6. ParentAssert' BY <1>2, <2>1 DEF ParentAssert
  <2> QED BY <2>2, <2>3, <2>4, <2>5, <2>6
      DEF IInv, NoProcessLost, ParentAlive, NoSleepOnInput, NoSleepOnZombie, SleepsForChild
<1>5. CASE FreePids # {}
  <2>1. child \in Pids /\ st[child] = "free"
    <3>1. FreePids \in SUBSET Pids BY DEF FreePids
    <3>2. child \in FreePids BY <1>5, <3>1, MinFact
    <3> QED BY <3>2 DEF FreePids
  <2>2. /\ st'    = [st EXCEPT ![child] = "ready"]
        /\ ppid'  = [ppid EXCEPT ![child] = curr]
        /\ kill'  = [kill EXCEPT ![child] = FALSE]
        /\ waitq' = [waitq EXCEPT ![child] = <<>>]
        /\ junk'  \subseteq junk \cup {child}
        /\ runq'  = Append(runq, child) /\ curr' = curr /\ cpu' = "user" /\ cpu = "user"
    BY <1>5 DEF Fork
  <2> HIDE DEF child
  <2>3. /\ st'[child] = "ready" /\ ppid'[child] = curr
        /\ st' \in [Pids -> States] /\ ppid' \in [Pids -> 0 .. (MAX_PIDS - 1)]
        /\ \A p \in Pids : p # child => st'[p] = st[p] /\ ppid'[p] = ppid[p]
    BY <1>1, <1>2, <2>1, <2>2 DEF TypeOK, States
  <2>4. child # curr /\ child \notin Range(runq) /\ child # InitPid
    BY <1>1, <1>2, <2>1 DEF RunQueueExact, InitIsRoot, Alive
  <2>5. \A q \in Queues : child \notin Range(waitq[q])
    BY <1>1, <2>1 DEF WaitQueuesExact
  <2>6. /\ runq' \in Seq(Pids) /\ IsInjective(runq')
        /\ Range(runq') = Range(runq) \cup {child}
    <3>1. IsInjective(runq) BY <1>1 DEF RunQueueExact
    <3> QED BY <1>3, <2>1, <2>2, <2>4, <3>1, QueueAppend
  <2>7. /\ waitq' \in [Queues -> Seq(Pids)] /\ IsInjective(waitq'[child])
        /\ Range(waitq'[child]) = {}
        /\ \A q \in Queues : q # child => waitq'[q] = waitq[q]
    BY <1>1, <2>1, <2>2, EmptyQueue DEF TypeOK
  <2>8. \A q \in Queues : Range(waitq'[q]) \subseteq Range(waitq[q])
    BY <2>7
  <2>9. TypeOK' BY <1>1, <1>2, <2>1, <2>2, <2>3, <2>6, <2>7, ZenonT(30) DEF TypeOK, CpuModes
  <2>10. RunQueueExact'
    BY <1>1, <1>2, <1>3, <2>2, <2>3, <2>4, <2>6 DEF RunQueueExact
  <2>11. WaitQueuesExact'
    <3>1. \A q \in Queues : IsInjective(waitq'[q]) BY <1>1, <2>7 DEF WaitQueuesExact
    <3>2. ASSUME NEW q \in Queues, NEW p \in Range(waitq'[q])
          PROVE  st'[p] = "waiting" /\ \A r \in Queues : p \in Range(waitq'[r]) => r = q
      <4>1. p \in Range(waitq[q]) /\ p # child BY <2>5, <2>8, <3>2
      <4>2. /\ p \in Pids /\ st[p] = "waiting"
            /\ \A r \in Queues : p \in Range(waitq[r]) => r = q
        BY <1>1, <4>1, QueueElements DEF WaitQueuesExact, TypeOK
      <4> QED BY <2>3, <2>8, <4>1, <4>2
    <3> QED BY <3>1, <3>2 DEF WaitQueuesExact
  <2>12. OwnQueueOnly' BY <1>1, <2>8 DEF OwnQueueOnly
  <2>13. NoProcessLost'
    <3> SUFFICES ASSUME NEW p \in Pids
                 PROVE  /\ st'[p] = "ready" => Scheduled(p)'
                        /\ st'[p] = "waiting" => \E q \in Queues : p \in Range(waitq'[q])
      BY DEF NoProcessLost
    <3>1. ASSUME st'[p] = "ready" PROVE Scheduled(p)'
      BY <1>1, <1>2, <2>2, <2>3, <2>6, <3>1 DEF NoProcessLost, Scheduled
    <3>2. ASSUME st'[p] = "waiting" PROVE \E q \in Queues : p \in Range(waitq'[q])
      <4>1. p # child /\ st[p] = "waiting" BY <2>3, <3>2
      <4>2. PICK q \in Queues : p \in Range(waitq[q])
        BY <1>1, <1>2, <4>1 DEF NoProcessLost
      <4>3. q # child BY <1>1, <2>1, <4>1, <4>2 DEF OwnQueueOnly
      <4> QED BY <2>7, <4>2, <4>3
    <3> QED BY <3>1, <3>2
  <2>14. \A p \in Pids : Alive(p) => Alive(p)' BY <2>1, <2>3 DEF Alive
  <2>15. ParentAlive'
    <3> SUFFICES ASSUME NEW p \in Pids, st'[p] # "free", p # InitPid
                 PROVE  (ppid[p] \in Pids /\ Alive(ppid[p]))'
      BY DEF ParentAlive, Alive
    <3>1. CASE p = child
      <4>1. Alive(curr)' BY <1>2, <2>2, <2>14 DEF Alive
      <4> QED BY <1>2, <2>3, <3>1, <4>1 DEF Alive
    <3>2. CASE p # child
      <4>1. ppid[p] \in Pids /\ Alive(ppid[p]) BY <1>1, <1>2, <2>3, <3>2 DEF ParentAlive
      <4> QED BY <2>3, <2>14, <3>2, <4>1 DEF Alive
    <3> QED BY <3>1, <3>2
  <2>16. InitIsRoot' BY <1>1, <1>2, <2>3, <2>4, <2>14 DEF InitIsRoot
  <2>17. ParentAssert' BY <2>2 DEF ParentAssert
  <2>18. NoSleepOnInput' BY <1>1, <1>2, <2>1, <2>7 DEF NoSleepOnInput
  <2>19. NoSleepOnZombie'
    <3> SUFFICES ASSUME NEW p \in Pids \ {InitPid}, p \in Range(waitq'[p])
                 PROVE  Children(p)' # {} /\ Zombies(p)' = {}
      BY DEF NoSleepOnZombie, SleepsForChild
    <3>1. Children(p) # {} /\ Zombies(p) = {}
      BY <1>1, <1>2, <2>8 DEF NoSleepOnZombie, SleepsForChild
    <3>2. PICK c \in Children(p) : TRUE BY <3>1
    <3>3. c \in Children(p)' BY <2>1, <2>3, <3>2 DEF Children
    <3>4. ASSUME NEW z \in Zombies(p)' PROVE FALSE
      <4>1. z \in Pids /\ st'[z] = "zombie" /\ ppid'[z] = p BY <3>4 DEF Zombies, Children
      <4>2. z # child BY <2>3, <4>1
      <4>3. z \in Zombies(p) BY <2>3, <4>1, <4>2 DEF Zombies, Children
      <4> QED BY <3>1, <4>3
    <3> QED BY <3>3, <3>4
  <2> QED BY <2>9, <2>10, <2>11, <2>12, <2>13, <2>15, <2>16, <2>17, <2>18, <2>19 DEF IInv
<1> QED BY <1>4, <1>5

-----------------------------------------------------------------------------
(* pm_wait reaps a zombie: its slot and its wait queue, which is empty.     *)
LEMMA WaitReapPreserves == IInv /\ WaitReap => IInv'
<1> SUFFICES ASSUME IInv, WaitReap PROVE IInv'
  OBVIOUS
<1> USE PidFacts
<1> DEFINE c == Min(Zombies(curr))
<1>1. /\ TypeOK /\ RunQueueExact /\ WaitQueuesExact /\ OwnQueueOnly /\ NoProcessLost
      /\ ParentAlive /\ InitIsRoot /\ ParentAssert /\ NoSleepOnInput /\ NoSleepOnZombie
  BY DEF IInv
<1>2. c \in Pids /\ st[c] = "zombie" /\ ppid[c] = curr
  <2>1. Zombies(curr) \in SUBSET Pids BY DEF Zombies, Children
  <2>2. c \in Zombies(curr) BY <2>1, MinFact DEF WaitReap
  <2> QED BY <2>2 DEF Zombies, Children
<1>3. /\ cpu = "user"
      /\ st'    = [st EXCEPT ![c] = "free"]
      /\ ppid'  = [ppid EXCEPT ![c] = 0]
      /\ kill'  = [kill EXCEPT ![c] = FALSE]
      /\ waitq' = [waitq EXCEPT ![c] = <<>>]
      /\ junk'  = junk \ {c}
      /\ UNCHANGED <<runq, curr, cpu, ticks, keys, kbdIrq>>
  BY DEF WaitReap
<1> HIDE DEF c
<1>4. Running /\ Running' /\ curr \in Pids BY <1>1, <1>3 DEF Running, TypeOK
<1>5. /\ st' \in [Pids -> States] /\ ppid' \in [Pids -> 0 .. (MAX_PIDS - 1)]
      /\ st'[c] = "free" /\ ppid'[c] = 0
      /\ \A p \in Pids : p # c => st'[p] = st[p] /\ ppid'[p] = ppid[p]
  BY <1>1, <1>2, <1>3 DEF TypeOK, States
<1>6. /\ waitq' \in [Queues -> Seq(Pids)] /\ IsInjective(waitq'[c]) /\ Range(waitq'[c]) = {}
      /\ \A q \in Queues : q # c => waitq'[q] = waitq[q]
  BY <1>1, <1>2, <1>3, EmptyQueue DEF TypeOK
<1>7. \A q \in Queues : Range(waitq'[q]) \subseteq Range(waitq[q])
  BY <1>6
<1>8. \A q \in Queues : c \notin Range(waitq[q]) BY <1>1, <1>2 DEF WaitQueuesExact
<1>9. runq \in Seq(Pids) /\ Range(runq) \subseteq Pids
  <2>1. runq \in Seq(Pids) BY <1>1 DEF TypeOK
  <2> QED BY <2>1, QueueElements
<1>10. TypeOK' BY <1>1, <1>2, <1>3, <1>5, <1>6 DEF TypeOK
<1>11. RunQueueExact' BY <1>1, <1>2, <1>3, <1>4, <1>5, <1>9 DEF RunQueueExact
<1>12. WaitQueuesExact'
  <2>1. \A q \in Queues : IsInjective(waitq'[q]) BY <1>1, <1>6 DEF WaitQueuesExact
  <2>2. ASSUME NEW q \in Queues, NEW p \in Range(waitq'[q])
        PROVE  st'[p] = "waiting" /\ \A r \in Queues : p \in Range(waitq'[r]) => r = q
    <3>1. p \in Range(waitq[q]) /\ p # c BY <1>7, <1>8, <2>2
    <3>2. /\ p \in Pids /\ st[p] = "waiting"
          /\ \A r \in Queues : p \in Range(waitq[r]) => r = q
      BY <1>1, <3>1, QueueElements DEF WaitQueuesExact, TypeOK
    <3> QED BY <1>5, <1>7, <3>1, <3>2
  <2> QED BY <2>1, <2>2 DEF WaitQueuesExact
<1>13. OwnQueueOnly' BY <1>1, <1>7 DEF OwnQueueOnly
<1>14. NoProcessLost'
  <2> SUFFICES ASSUME NEW p \in Pids
               PROVE  /\ st'[p] = "ready" => Scheduled(p)'
                      /\ st'[p] = "waiting" => \E q \in Queues : p \in Range(waitq'[q])
    BY DEF NoProcessLost
  <2>1. ASSUME st'[p] = "ready" PROVE Scheduled(p)'
    BY <1>1, <1>3, <1>4, <1>5, <2>1 DEF NoProcessLost, Scheduled
  <2>2. ASSUME st'[p] = "waiting" PROVE \E q \in Queues : p \in Range(waitq'[q])
    <3>1. p # c /\ st[p] = "waiting" BY <1>5, <2>2
    <3>2. PICK q \in Queues : p \in Range(waitq[q]) BY <1>1, <1>4, <3>1 DEF NoProcessLost
    <3>3. q # c BY <1>1, <1>2, <3>1, <3>2 DEF OwnQueueOnly
    <3> QED BY <1>6, <3>2, <3>3
  <2> QED BY <2>1, <2>2
<1>15. \A p \in Pids : Alive(p) => Alive(p)' BY <1>2, <1>5 DEF Alive
<1>16. ParentAlive'
  <2> SUFFICES ASSUME NEW p \in Pids, st'[p] # "free", p # InitPid
               PROVE  (ppid[p] \in Pids /\ Alive(ppid[p]))'
    BY DEF ParentAlive, Alive
  <2>1. p # c BY <1>5
  <2>2. ppid[p] \in Pids /\ Alive(ppid[p]) BY <1>1, <1>4, <1>5, <2>1 DEF ParentAlive
  <2> QED BY <1>5, <1>15, <2>1, <2>2 DEF Alive
<1>17. InitIsRoot'
  <2>1. c # InitPid BY <1>1, <1>2, <1>4 DEF InitIsRoot, Alive
  <2> QED BY <1>1, <1>2, <1>4, <1>5, <1>15, <2>1 DEF InitIsRoot
<1>18. ParentAssert' BY <1>3 DEF ParentAssert
<1>19. NoSleepOnInput' BY <1>1, <1>2, <1>3, <1>4, <1>6 DEF NoSleepOnInput
<1>20. NoSleepOnZombie'
  <2> SUFFICES ASSUME NEW p \in Pids \ {InitPid}, p \in Range(waitq'[p])
               PROVE  Children(p)' # {} /\ Zombies(p)' = {}
    BY DEF NoSleepOnZombie, SleepsForChild
  <2>1. Children(p) # {} /\ Zombies(p) = {} /\ p \in Range(waitq[p])
    BY <1>1, <1>4, <1>7 DEF NoSleepOnZombie, SleepsForChild
  <2>2. p # curr BY <1>1, <1>3, <2>1 DEF RunQueueExact, WaitQueuesExact
  <2>3. PICK k \in Children(p) : TRUE BY <2>1
  <2>4. k \in Children(p)' BY <1>2, <1>5, <2>2, <2>3 DEF Children
  <2>5. ASSUME NEW z \in Zombies(p)' PROVE FALSE
    <3>1. z \in Pids /\ st'[z] = "zombie" /\ ppid'[z] = p BY <2>5 DEF Zombies, Children
    <3>2. z # c BY <1>5, <3>1
    <3>3. z \in Zombies(p) BY <1>5, <3>1, <3>2 DEF Zombies, Children
    <3> QED BY <2>1, <3>3
  <2> QED BY <2>4, <2>5
<1> QED BY <1>10, <1>11, <1>12, <1>13, <1>14, <1>16, <1>17, <1>18, <1>19, <1>20 DEF IInv

(* The keyboard handler moves its whole wait queue to the run queue.        *)
LEMMA KeyStoredPreserves == IInv /\ KeyStored => IInv'
<1> SUFFICES ASSUME IInv, KeyStored PROVE IInv'
  OBVIOUS
<1> USE PidFacts
<1> DEFINE woken == waitq[Keyboard]
<1>1. /\ TypeOK /\ RunQueueExact /\ WaitQueuesExact /\ OwnQueueOnly /\ NoProcessLost
      /\ ParentAlive /\ InitIsRoot /\ ParentAssert /\ NoSleepOnInput /\ NoSleepOnZombie
  BY DEF IInv
<1>2. /\ UNCHANGED <<ppid, kill, junk, ticks>> /\ kbdIrq' = FALSE
      /\ keys' \in 0 .. KBD_CAPACITY /\ Running /\ cpu # "panic" /\ curr \in Pids
  BY <1>1, KbdAssumption DEF KeyStored, Push, TypeOK, Running, InterruptsOn
<1>3. CASE Keyboard \in junk
  <2>1. cpu' = "corrupt" /\ UNCHANGED <<st, waitq, runq, curr>>
    BY <1>3 DEF KeyStored, Stop
  <2>2. ~ Running' BY <2>1 DEF Running
  <2>3. TypeOK' BY <1>1, <1>2, <2>1 DEF TypeOK, CpuModes
  <2>4. RunQueueExact' /\ WaitQueuesExact' /\ OwnQueueOnly'
    BY <1>1, <2>1 DEF RunQueueExact, WaitQueuesExact, OwnQueueOnly
  <2>5. InitIsRoot' /\ ParentAssert'
    BY <1>1, <1>2, <2>1, <2>2 DEF InitIsRoot, ParentAssert
  <2> QED BY <2>2, <2>3, <2>4, <2>5
      DEF IInv, NoProcessLost, ParentAlive, NoSleepOnInput, NoSleepOnZombie, SleepsForChild
<1>4. CASE Keyboard \notin junk
  <2>1. /\ st' = [p \in Pids |-> IF p \in Range(woken) THEN "ready" ELSE st[p]]
        /\ runq' = runq \o woken
        /\ waitq' = [waitq EXCEPT ![Keyboard] = <<>>]
        /\ UNCHANGED <<curr, cpu>>
    BY <1>4 DEF KeyStored
  <2>2. /\ runq \in Seq(Pids) /\ woken \in Seq(Pids) /\ IsInjective(runq) /\ IsInjective(woken)
        /\ Range(runq) \cap Range(woken) = {}
    BY <1>1 DEF TypeOK, RunQueueExact, WaitQueuesExact
  <2>3. Range(runq) \subseteq Pids /\ Range(woken) \subseteq Pids BY <2>2, QueueElements
  <2>4. \A p \in Range(woken) : st[p] = "waiting" BY <1>1 DEF WaitQueuesExact
  <2>5. /\ runq' \in Seq(Pids) /\ IsInjective(runq')
        /\ Range(runq') = Range(runq) \cup Range(woken)
    BY <2>1, <2>2, QueueConcat
  <2>6. /\ waitq' \in [Queues -> Seq(Pids)] /\ IsInjective(waitq'[Keyboard])
        /\ Range(waitq'[Keyboard]) = {} /\ waitq'[Keyboard] = <<>>
        /\ \A q \in Queues : q # Keyboard => waitq'[q] = waitq[q]
    BY <1>1, <2>1, EmptyQueue DEF TypeOK
  <2>7. /\ st' \in [Pids -> States]
        /\ \A p \in Pids : st'[p] = IF p \in Range(woken) THEN "ready" ELSE st[p]
    BY <1>1, <2>1 DEF TypeOK, States
  <2> HIDE DEF woken
  <2>8. TypeOK' BY <1>1, <1>2, <2>1, <2>5, <2>6, <2>7 DEF TypeOK
  <2>9. RunQueueExact'
    <3>1. cpu = "user" => curr \notin Range(woken)
      BY <1>1, <2>4 DEF RunQueueExact
    <3>2. \A p \in Range(runq) \cup Range(woken) : st'[p] = "ready"
      BY <1>1, <2>3, <2>7 DEF RunQueueExact
    <3> QED BY <1>1, <1>2, <2>1, <2>5, <2>7, <3>1, <3>2 DEF RunQueueExact
  <2>10. WaitQueuesExact'
    <3>1. \A q \in Queues : IsInjective(waitq'[q]) BY <1>1, <2>6 DEF WaitQueuesExact
    <3>2. ASSUME NEW q \in Queues, NEW p \in Range(waitq'[q])
          PROVE  st'[p] = "waiting" /\ \A r \in Queues : p \in Range(waitq'[r]) => r = q
      <4>1. q # Keyboard /\ p \in Range(waitq[q]) BY <2>6, <3>2
      <4>2. /\ p \in Pids /\ st[p] = "waiting"
            /\ \A r \in Queues : p \in Range(waitq[r]) => r = q
        BY <1>1, <4>1, QueueElements DEF WaitQueuesExact, TypeOK
      <4>3. p \notin Range(woken) BY <4>1, <4>2 DEF woken
      <4>4. \A r \in Queues : p \in Range(waitq'[r]) => p \in Range(waitq[r])
        BY <2>6
      <4> QED BY <2>7, <4>2, <4>3, <4>4
    <3> QED BY <3>1, <3>2 DEF WaitQueuesExact
  <2>11. OwnQueueOnly' BY <1>1, <2>6 DEF OwnQueueOnly
  <2>12. NoProcessLost'
    <3> SUFFICES ASSUME NEW p \in Pids
                 PROVE  /\ st'[p] = "ready" => Scheduled(p)'
                        /\ st'[p] = "waiting" => \E q \in Queues : p \in Range(waitq'[q])
      BY DEF NoProcessLost
    <3>1. ASSUME st'[p] = "ready" PROVE Scheduled(p)'
      BY <1>1, <1>2, <2>1, <2>5, <2>7, <3>1 DEF NoProcessLost, Scheduled
    <3>2. ASSUME st'[p] = "waiting" PROVE \E q \in Queues : p \in Range(waitq'[q])
      <4>1. st[p] = "waiting" /\ p \notin Range(woken) BY <2>7, <3>2
      <4>2. PICK q \in Queues : p \in Range(waitq[q]) BY <1>1, <1>2, <4>1 DEF NoProcessLost
      <4>3. q # Keyboard BY <4>1, <4>2 DEF woken
      <4> QED BY <2>6, <4>2, <4>3
    <3> QED BY <3>1, <3>2
  <2>13. \A p \in Pids : /\ Alive(p) => Alive(p)'
                         /\ st'[p] = "free" <=> st[p] = "free"
                         /\ st'[p] = "zombie" <=> st[p] = "zombie"
    BY <2>4, <2>7 DEF Alive
  <2>14. ParentAlive' /\ InitIsRoot'
    <3>1. InitIsRoot' BY <1>1, <1>2, <2>13 DEF InitIsRoot
    <3>2. ASSUME NEW p \in Pids, st'[p] # "free", p # InitPid
          PROVE  (ppid[p] \in Pids /\ Alive(ppid[p]))'
      <4>1. ppid[p] \in Pids /\ Alive(ppid[p]) BY <1>1, <1>2, <2>13, <3>2 DEF ParentAlive
      <4> QED BY <1>2, <2>13, <4>1 DEF Alive
    <3> QED BY <3>1, <3>2 DEF ParentAlive, Alive
  <2>15. ParentAssert' /\ NoSleepOnInput'
    BY <1>2, <2>1, <2>6 DEF ParentAssert, NoSleepOnInput
  <2>16. NoSleepOnZombie'
    <3> SUFFICES ASSUME NEW p \in Pids \ {InitPid}, p \in Range(waitq'[p])
                 PROVE  Children(p)' # {} /\ Zombies(p)' = {}
      BY DEF NoSleepOnZombie, SleepsForChild
    <3>1. p # Keyboard /\ p \in Range(waitq[p]) BY <2>6
    <3>2. Children(p) # {} /\ Zombies(p) = {}
      BY <1>1, <1>2, <3>1 DEF NoSleepOnZombie, SleepsForChild
    <3>3. Children(p)' = Children(p) BY <1>2, <2>13 DEF Children
    <3>4. Zombies(p)' = Zombies(p) BY <2>13, <3>3 DEF Zombies, Children
    <3> QED BY <3>2, <3>3, <3>4
  <2> QED BY <2>8, <2>9, <2>10, <2>11, <2>12, <2>14, <2>15, <2>16 DEF IInv
<1> QED BY <1>3, <1>4

-----------------------------------------------------------------------------
(* The timer handler: quiet, or one of the three ends of the scheduler.     *)
LEMMA TimerTickPreserves == IInv /\ TimerTick => IInv'
<1> SUFFICES ASSUME IInv, TimerTick PROVE IInv'
  OBVIOUS
<1>1. TypeOK /\ RunQueueExact BY DEF IInv
<1>2. ticks' \in 0 .. (TICKS_PER_SWITCH - 1)
  BY <1>1, TicksAssumption DEF TimerTick, TypeOK
<1>3. UNCHANGED <<kill, junk, keys, kbdIrq>> BY DEF TimerTick
<1>4. CASE ~ (ticks' = 0 /\ cpu = "user")
  <2>1. UNCHANGED <<st, ppid, waitq, runq, curr, cpu>> BY <1>4 DEF TimerTick
  <2> QED BY <1>1, <1>2, <1>3, <2>1, QuietPreserves DEF TypeOK
<1>5. CASE ticks' = 0 /\ cpu = "user"
  <2>1. Reschedule BY <1>5 DEF TimerTick
  <2>2. CASE UNCHANGED <<st, ppid, waitq, runq, curr, cpu>>
    BY <1>1, <1>2, <1>3, <2>2, QuietPreserves DEF TypeOK
  <2>3. CASE ExitCurr("idle_in_timer")
    BY <1>1, <1>2, <1>3, <1>5, <2>3, ExitPreserves DEF TypeOK
  <2>4. CASE LoadNext(Append(runq, curr), "idle_in_timer") /\ UNCHANGED <<st, ppid, waitq>>
    <3> DEFINE rq == Append(runq, curr)
    <3>1. Running /\ curr \in Pids /\ runq \in Seq(Pids) /\ curr \notin Range(runq)
      BY <1>1, <1>5 DEF Running, TypeOK, RunQueueExact
    <3>2. rq \in Seq(Pids) /\ IsInjective(rq) /\ Range(rq) = Range(runq) \cup {curr}
      BY <1>1, <3>1, QueueAppend DEF RunQueueExact
    <3>3. LoadNext(rq, "idle_in_timer") /\ UNCHANGED <<st, ppid, waitq>> BY <2>4
    <3> HIDE DEF rq
    <3>4. rq # <<>> BY <3>2, QueueElements
    <3>5. \A p \in Pids : p \in Range(rq) <=> Scheduled(p)
      BY <1>5, <3>2 DEF Scheduled
    <3> QED BY <1>2, <1>3, <3>1, <3>2, <3>3, <3>4, <3>5, SwitchPreserves
  <2> QED BY <2>1, <2>2, <2>3, <2>4 DEF Reschedule, Preempted
<1> QED BY <1>4, <1>5

(* The idle loop leaves with the head of the run queue. *)
LEMMA IdleWakePreserves == IInv /\ IdleWake => IInv'
<1> SUFFICES ASSUME IInv, IdleWake PROVE IInv'
  OBVIOUS
<1>1. TypeOK /\ RunQueueExact BY DEF IInv
<1>2. runq \in Seq(Pids) /\ IsInjective(runq) /\ ticks' \in 0 .. (TICKS_PER_SWITCH - 1)
  BY <1>1 DEF TypeOK, RunQueueExact, IdleWake
<1>3. cpu \in {"idle", "idle_in_timer"} /\ Running BY DEF IdleWake, Running
<1>4. \A p \in Pids : p \in Range(runq) <=> Scheduled(p) BY <1>3 DEF Scheduled
<1> QED BY <1>2, <1>3, <1>4, SwitchPreserves DEF IdleWake

LEMMA InitEstablishes == Init => IInv
<1> SUFFICES ASSUME Init PROVE IInv
  OBVIOUS
<1> USE PidFacts
<1>1. \A q \in Queues : waitq[q] = <<>> /\ Range(waitq[q]) = {} /\ IsInjective(waitq[q])
  BY EmptyQueue DEF Init
<1>2. runq = <<>> /\ Range(runq) = {} /\ IsInjective(runq) BY EmptyQueue DEF Init
<1>3. TypeOK
  <2>1. waitq \in [Queues -> Seq(Pids)] BY EmptyQueue DEF Init
  <2>2. runq \in Seq(Pids) BY <1>2, EmptyQueue
  <2>3. ticks \in 0 .. (TICKS_PER_SWITCH - 1) BY TicksAssumption DEF Init
  <2>4. keys \in 0 .. KBD_CAPACITY BY KbdAssumption DEF Init
  <2> QED BY <2>1, <2>2, <2>3, <2>4 DEF Init, TypeOK, States, CpuModes
<1>4. RunQueueExact /\ WaitQueuesExact /\ OwnQueueOnly
  BY <1>1, <1>2 DEF Init, RunQueueExact, WaitQueuesExact, OwnQueueOnly
<1>5. NoProcessLost BY DEF Init, NoProcessLost, Scheduled
<1>6. ParentAlive /\ InitIsRoot /\ ParentAssert
  BY DEF Init, ParentAlive, InitIsRoot, ParentAssert, Alive
<1>7. NoSleepOnInput /\ NoSleepOnZombie
  BY <1>1 DEF Init, NoSleepOnInput, NoSleepOnZombie, SleepsForChild
<1> QED BY <1>3, <1>4, <1>5, <1>6, <1>7 DEF IInv

LEMMA NextPreserves == IInv /\ [Next]_vars => IInv'
<1> SUFFICES ASSUME IInv, [Next]_vars PROVE IInv'
  OBVIOUS
<1>1. TypeOK BY DEF IInv
<1>2. CASE Fork BY <1>2, ForkPreserves
<1>3. CASE Exit BY <1>1, <1>3, ExitPreserves DEF Exit, TypeOK
<1>4. CASE WaitReap BY <1>4, WaitReapPreserves
<1>5. CASE WaitBlock
  <2>1. curr # Keyboard BY <1>1, PidFacts DEF TypeOK
  <2> QED BY <1>5, <2>1, BlockPreserves DEF WaitBlock
<1>6. ASSUME NEW p \in Pids, Kill(p) PROVE IInv'
  <2>1. kill' \in [Pids -> BOOLEAN] BY <1>1, <1>6 DEF Kill, TypeOK
  <2> QED BY <1>1, <1>6, <2>1, QuietPreserves DEF Kill, TypeOK
<1>7. ASSUME NEW n \in 1 .. KBD_CAPACITY, Read(n) PROVE IInv'
  <2>1. curr # Keyboard BY <1>1, PidFacts DEF TypeOK
  <2>2. CASE keys = 0 BY <1>7, <2>1, <2>2, BlockPreserves DEF Read
  <2>3. CASE keys # 0
    <3>1. /\ keys' \in 0 .. KBD_CAPACITY /\ keys > 0
          /\ UNCHANGED <<st, waitq, runq, curr, cpu, ppid, kill, junk, ticks, kbdIrq>>
      BY <1>1, <1>7, <2>3, KbdAssumption DEF Read, TypeOK
    <3> QED BY <1>1, <3>1, QuietPreserves DEF TypeOK
  <2> QED BY <2>2, <2>3
<1>8. CASE TimerTick BY <1>8, TimerTickPreserves
<1>9. CASE KeyPress BY <1>1, <1>9, QuietPreserves DEF KeyPress, TypeOK
<1>10. CASE KeyIgnored BY <1>1, <1>10, QuietPreserves DEF KeyIgnored, TypeOK
<1>11. CASE KeyStored BY <1>11, KeyStoredPreserves
<1>12. CASE Exception
  <2>1. kill' \in [Pids -> BOOLEAN] BY <1>1, <1>12 DEF Exception, TypeOK
  <2> QED BY <1>1, <1>12, <2>1, ExitPreserves DEF Exception, TypeOK
<1>13. CASE IdleWake BY <1>13, IdleWakePreserves
<1>14. CASE UNCHANGED vars BY <1>1, <1>14, QuietPreserves DEF vars, TypeOK
<1> QED BY <1>2, <1>3, <1>4, <1>5, <1>6, <1>7, <1>8, <1>9, <1>10, <1>11, <1>12, <1>13, <1>14
    DEF Next, Syscall, Interrupt

(* The process manager keeps its invariant, whatever the programs do and    *)
(* however syscalls and interrupts interleave.                              *)
THEOREM Invariance == Spec => []IInv
BY InitEstablishes, NextPreserves, PTL DEF Spec

(* Every variable keeps its type. *)
THEOREM TypeCorrect == Spec => []TypeOK
<1>1. IInv => TypeOK BY DEF IInv
<1> QED BY <1>1, Invariance, PTL

(* No READY or WAITING process drops out of the queues that would let it    *)
(* run again (scheduler_add_task, pm_waitqueue_enqueue, dequeue_all).       *)
THEOREM NothingLost == Spec => []NoProcessLost
<1>1. IInv => NoProcessLost BY DEF IInv
<1> QED BY <1>1, Invariance, PTL

(* The one `next' link of a PCB suffices for the run queue and every wait   *)
(* queue together, so task_enqueue never cuts or joins two queues.          *)
THEOREM QueuesExact == Spec => []QueueLinksExact
<1>1. IInv => QueueLinksExact BY DEF IInv, QueueLinksExact
<1> QED BY <1>1, Invariance, PTL

(* pm_exit finds the parent it asserts, except when init itself exits.      *)
THEOREM ParentsLive == Spec => []FamilyTree
<1>1. IInv => FamilyTree BY DEF IInv, FamilyTree
<1> QED BY <1>1, Invariance, PTL

(* Nobody sleeps in read while a character is buffered: the keyboard        *)
(* interrupt wakes every reader.                                            *)
THEOREM NoLostWakeup == Spec => []NoSleepOnInput
<1>1. IInv => NoSleepOnInput BY DEF IInv
<1> QED BY <1>1, Invariance, PTL

(* Nobody but init sleeps in wait while a child of its own is a zombie:     *)
(* pm_exit wakes the parent it leaves its status to.                        *)
THEOREM NoLostChild == Spec => []NoSleepOnZombie
<1>1. IInv => NoSleepOnZombie BY DEF IInv
<1> QED BY <1>1, Invariance, PTL

(* A zombie stays one until its parent reaps it. *)
THEOREM ZombiesStay == Spec => ZombieFinal
<1> DEFINE A == \A p \in Pids : st[p] = "zombie" =>
                   \/ st'[p] = "zombie"
                   \/ st'[p] = "free" /\ cpu = "user" /\ curr = ppid[p]
<1>1. IInv /\ [Next]_vars => [A]_vars
  <2> SUFFICES ASSUME IInv, Next, NEW p \in Pids, st[p] = "zombie"
               PROVE  \/ st'[p] = "zombie"
                      \/ st'[p] = "free" /\ cpu = "user" /\ curr = ppid[p]
    OBVIOUS
  <2> USE PidFacts
  <2>1. st \in [Pids -> States] /\ curr \in Pids BY DEF IInv, TypeOK
  <2>2. \A q \in Queues : p \notin Range(waitq[q]) BY DEF IInv, WaitQueuesExact
  <2>3. \A m \in {"idle", "idle_in_timer"} : ExitCurr(m) => st'[p] = "zombie"
    BY <2>1, <2>2 DEF ExitCurr
  <2>4. \A q : cpu = "user" /\ Block(q) => st'[p] = "zombie"
    BY <2>1 DEF Block, IInv, RunQueueExact
  <2>5. CASE Fork
    <3>1. CASE FreePids = {} BY <2>5, <3>1 DEF Fork
    <3>2. CASE FreePids # {}
      <4>1. FreePids \in SUBSET Pids BY DEF FreePids
      <4>2. Min(FreePids) \in FreePids BY <3>2, <4>1, MinFact
      <4>3. st' = [st EXCEPT ![Min(FreePids)] = "ready"] BY <2>5, <3>2 DEF Fork
      <4>4. p # Min(FreePids) BY <4>2 DEF FreePids
      <4> QED BY <2>1, <4>3, <4>4
    <3> QED BY <3>1, <3>2
  <2>6. CASE WaitReap
    <3> DEFINE z == Min(Zombies(curr))
    <3>1. Zombies(curr) \in SUBSET Pids BY DEF Zombies, Children
    <3>2. z \in Zombies(curr) BY <2>6, <3>1, MinFact DEF WaitReap
    <3>3. z \in Pids /\ ppid[z] = curr BY <3>2 DEF Zombies, Children
    <3>4. cpu = "user" /\ st' = [st EXCEPT ![z] = "free"] BY <2>6 DEF WaitReap
    <3> HIDE DEF z
    <3> QED BY <2>1, <3>3, <3>4
  <2>7. CASE KeyStored BY <2>1, <2>2, <2>7 DEF KeyStored
  <2>8. CASE Exit BY <2>3, <2>8 DEF Exit
  <2>9. CASE Exception BY <2>3, <2>9 DEF Exception
  <2>10. CASE TimerTick BY <2>3, <2>10 DEF TimerTick, Reschedule
  <2>11. CASE WaitBlock BY <2>4, <2>11 DEF WaitBlock
  <2>12. ASSUME NEW n \in 1 .. KBD_CAPACITY, Read(n) PROVE st'[p] = "zombie"
    BY <2>4, <2>12 DEF Read
  <2>13. CASE (\E x \in Pids : Kill(x)) \/ KeyPress \/ KeyIgnored \/ IdleWake
    BY <2>13 DEF Kill, KeyPress, KeyIgnored, IdleWake
  <2> QED BY <2>5, <2>6, <2>7, <2>8, <2>9, <2>10, <2>11, <2>12, <2>13
      DEF Next, Syscall, Interrupt
<1> QED BY <1>1, Invariance, PTL DEF Spec, ZombieFinal

-----------------------------------------------------------------------------
(* The refinement of ProcessLifecycle: each syscall, interrupt and switch   *)
(* is a step of the abstract specification or invisible in it.  The step    *)
(* simulation uses IInv.                                                    *)

Lives == {"free", "running", "runnable", "blocked", "zombie"}

(* What the refinement mapping shows of a process while the kernel runs,    *)
(* before and after a step.                                                 *)
LEMMA LifeFacts ==
    ASSUME TypeOK, Running
    PROVE  \A p \in Pids :
        /\ cpu = "user" /\ curr = p => Life(p) = "running"
        /\ ~ (cpu = "user" /\ curr = p) =>
              /\ st[p] = "ready"   => Life(p) = "runnable"
              /\ st[p] = "waiting" => Life(p) = "blocked"
              /\ st[p] = "zombie"  => Life(p) = "zombie"
              /\ st[p] = "free"    => Life(p) = "free"
BY DEF Life

(* The same after the step. *)
LEMMA LifeFactsPrimed ==
    ASSUME TypeOK', Running'
    PROVE  \A p \in Pids :
        /\ cpu' = "user" /\ curr' = p => Life(p)' = "running"
        /\ ~ (cpu' = "user" /\ curr' = p) =>
              /\ st'[p] = "ready"   => Life(p)' = "runnable"
              /\ st'[p] = "waiting" => Life(p)' = "blocked"
              /\ st'[p] = "zombie"  => Life(p)' = "zombie"
              /\ st'[p] = "free"    => Life(p)' = "free"
BY DEF Life

(* A step that stops the machine (KERNEL_PANIC, or a wait queue that holds  *)
(* garbage) is the Halt of the abstract specification.                      *)
LEMMA StopIsHalt ==
    ASSUME Running, ~ Running'
    PROVE  Lifecycle!Next
<1>1. Lifecycle!Halt
  BY DEF Lifecycle!Halt, Life
<1> QED BY <1>1 DEF Lifecycle!Next

(* pm_load_next_ready_process is Dispatch: when the run queue rq holds      *)
(* exactly those who can run after the change l, one of them is given the   *)
(* CPU, and the CPU idles only if there is none.                            *)
LEMMA LoadNextDispatches ==
    ASSUME TypeOK', Running', NEW l \in [Pids -> Lives],
           NEW rq \in Seq(Pids), NEW m \in {"idle", "idle_in_timer"},
           IsInjective(rq), curr \in Pids, LoadNext(rq, m),
           \A p \in Pids : /\ l[p] = "runnable" <=> p \in Range(rq)
                           /\ l[p] # "running"
                           /\ l[p] = "runnable" <=> st'[p] = "ready"
                           /\ l[p] = "blocked"  <=> st'[p] = "waiting"
                           /\ l[p] = "zombie"   <=> st'[p] = "zombie"
    PROVE  Lifecycle!Dispatch(l)
<1> DEFINE ready == {p \in Pids : l[p] = "runnable"}
           life1 == [p \in Pids |-> Life(p)']
<1>1. Range(rq) \subseteq Pids BY QueueElements
<1>2. ready = Range(rq) BY <1>1
<1>3. ASSUME NEW p \in Pids, ~ (cpu' = "user" /\ curr' = p)
      PROVE  Life(p)' = l[p]
  <2>1. st'[p] \in States /\ l[p] \in Lives BY DEF TypeOK
  <2> QED BY <1>3, <2>1, LifeFactsPrimed DEF States, Lives
<1>4. CASE rq = <<>>
  <2>1. cpu' = m BY <1>4 DEF LoadNext
  <2>2. ready = {} BY <1>2, <1>4, EmptyQueue
  <2>3. \A p \in Pids : Life(p)' = l[p] BY <1>3, <2>1
  <2>4. life1 = l BY <2>3
  <2> QED BY <2>2, <2>4 DEF Lifecycle!Dispatch
<1>5. CASE rq # <<>>
  <2>1. cpu' = "user" /\ curr' = Head(rq) /\ Head(rq) \in Range(rq)
    BY <1>5, QueueTail DEF LoadNext
  <2>2. curr' \in ready BY <1>2, <2>1
  <2>4. \A q \in Pids : Life(q)' = IF q = curr' THEN "running" ELSE l[q]
    BY <1>3, <2>1, <2>2, LifeFactsPrimed
  <2>5. life1 = [q \in Pids |-> IF q = curr' THEN "running" ELSE l[q]] BY <2>4
  <2> QED BY <2>2, <2>5 DEF Lifecycle!Dispatch
<1> QED BY <1>4, <1>5

-----------------------------------------------------------------------------
(* pm_fork is Create, or the Halt of its panic. *)
LEMMA ForkCreates ==
    ASSUME IInv, IInv', Fork
    PROVE  Lifecycle!Next
<1> USE PidFacts
<1>1. TypeOK /\ TypeOK' /\ Running /\ curr \in Pids /\ cpu = "user" /\ st[curr] = "ready"
  BY DEF IInv, Fork, Running, TypeOK, RunQueueExact
<1>2. CASE ~ Running' BY <1>1, <1>2, StopIsHalt
<1>3. CASE Running'
  <2> DEFINE c == Min(FreePids)
  <2>1. FreePids # {} BY <1>3 DEF Fork, Stop, Running
  <2>2. c \in Pids /\ st[c] = "free"
    <3>1. FreePids \in SUBSET Pids BY DEF FreePids
    <3>2. c \in FreePids BY <2>1, <3>1, MinFact
    <3> QED BY <3>2 DEF FreePids
  <2>3. /\ st' = [st EXCEPT ![c] = "ready"] /\ ppid' = [ppid EXCEPT ![c] = curr]
        /\ curr' = curr /\ cpu' = cpu
    BY <2>1 DEF Fork
  <2> HIDE DEF c
  <2>4. c # curr BY <1>1, <2>2
  <2>5. Life(curr) = "running" /\ Life(c) = "free"
    BY <1>1, <2>2, <2>4, LifeFacts
  <2>6. \A p \in Pids : Life(p)' = IF p = c THEN "runnable" ELSE Life(p)
    <3> SUFFICES ASSUME NEW p \in Pids
                 PROVE  Life(p)' = IF p = c THEN "runnable" ELSE Life(p)
      OBVIOUS
    <3>1. st'[p] = IF p = c THEN "ready" ELSE st[p] BY <1>1, <2>2, <2>3 DEF TypeOK
    <3>2. st[p] \in States BY <1>1 DEF TypeOK
    <3> QED BY <1>1, <1>3, <2>3, <2>4, <3>1, <3>2, LifeFacts, LifeFactsPrimed DEF States
  <2>7. \A p \in Pids : ppid'[p] = IF p = c THEN curr ELSE ppid[p]
    BY <1>1, <2>2, <2>3 DEF TypeOK
  <2>8. Lifecycle!Create(curr, c)
    BY <1>1, <1>3, <2>2, <2>5, <2>6, <2>7 DEF Lifecycle!Create
  <2>9. \E p, d \in Pids : Lifecycle!Create(p, d) \/ Lifecycle!Reap(p, d)
    BY <1>1, <2>2, <2>8 DEF Lifecycle!Create
  <2> QED BY <1>1, <1>3, <2>9 DEF Lifecycle!Next
<1> QED BY <1>2, <1>3

(* pm_wait that finds a zombie is Reap. *)
LEMMA WaitReaps ==
    ASSUME IInv, IInv', WaitReap
    PROVE  Lifecycle!Next
<1> USE PidFacts
<1> DEFINE c == Min(Zombies(curr))
<1>1. /\ TypeOK /\ TypeOK' /\ Running /\ Running' /\ curr \in Pids /\ cpu = "user"
      /\ st[curr] = "ready"
  BY DEF IInv, WaitReap, Running, TypeOK, RunQueueExact
<1>2. c \in Pids /\ st[c] = "zombie" /\ ppid[c] = curr
  <2>1. Zombies(curr) \in SUBSET Pids BY DEF Zombies, Children
  <2>2. c \in Zombies(curr) BY <2>1, MinFact DEF WaitReap
  <2> QED BY <2>2 DEF Zombies, Children
<1>3. /\ st' = [st EXCEPT ![c] = "free"] /\ ppid' = [ppid EXCEPT ![c] = 0]
      /\ curr' = curr /\ cpu' = cpu
  BY DEF WaitReap
<1> HIDE DEF c
<1>4. c # curr BY <1>1, <1>2
<1>5. Life(curr) = "running" /\ Life(c) = "zombie"
  BY <1>1, <1>2, <1>4, LifeFacts
<1>6. \A p \in Pids : Life(p)' = IF p = c THEN "free" ELSE Life(p)
  <2> SUFFICES ASSUME NEW p \in Pids
               PROVE  Life(p)' = IF p = c THEN "free" ELSE Life(p)
    OBVIOUS
  <2>1. st'[p] = IF p = c THEN "free" ELSE st[p] BY <1>1, <1>2, <1>3 DEF TypeOK
  <2>2. st[p] \in States BY <1>1 DEF TypeOK
  <2> QED BY <1>1, <1>3, <1>4, <2>1, <2>2, LifeFacts, LifeFactsPrimed DEF States
<1>7. \A p \in Pids : ppid'[p] = IF p = c THEN 0 ELSE ppid[p]
  BY <1>1, <1>2, <1>3 DEF TypeOK
<1>8. Lifecycle!Reap(curr, c)
  BY <1>1, <1>2, <1>5, <1>6, <1>7 DEF Lifecycle!Reap
<1>9. \E p, d \in Pids : Lifecycle!Create(p, d) \/ Lifecycle!Reap(p, d)
  <2>1. curr \in Pids /\ c \in Pids BY <1>1, <1>2
  <2> QED BY <2>1, <1>8, ZenonT(30) DEF Lifecycle!Reap
<1> QED BY <1>1, <1>9 DEF Lifecycle!Next

(* A process that blocks in read or wait: Sleep. *)
LEMMA BlockSleeps ==
    ASSUME IInv, IInv', cpu = "user", NEW q \in Queues, Block(q), UNCHANGED ppid
    PROVE  Lifecycle!Next
<1> USE PidFacts
<1>1. /\ TypeOK /\ TypeOK' /\ Running /\ curr \in Pids /\ st[curr] = "ready"
      /\ runq \in Seq(Pids) /\ IsInjective(runq) /\ curr \notin Range(runq)
  BY DEF IInv, Running, TypeOK, RunQueueExact
<1>2. CASE ~ Running' BY <1>1, <1>2, StopIsHalt
<1>3. CASE Running'
  <2> DEFINE l == [[p \in Pids |-> Life(p)] EXCEPT ![curr] = "blocked"]
  <2>1. LoadNext(runq, "idle") BY <1>3 DEF Block, Stop, Running
  <2>2. \A p \in Pids : st'[p] = IF p = curr THEN "waiting" ELSE st[p]
    BY <1>1 DEF Block, TypeOK
  <2>3. \A p \in Pids : l[p] = IF p = curr THEN "blocked" ELSE Life(p) OBVIOUS
  <2>4. ASSUME NEW p \in Pids
        PROVE  /\ l[p] \in Lives
               /\ l[p] = "runnable" <=> p \in Range(runq)
               /\ l[p] # "running"
               /\ l[p] = "runnable" <=> st'[p] = "ready"
               /\ l[p] = "blocked"  <=> st'[p] = "waiting"
               /\ l[p] = "zombie"   <=> st'[p] = "zombie"
    <3>1. st[p] \in States BY <1>1 DEF TypeOK
    <3>2. st[p] = "ready" => p = curr \/ p \in Range(runq)
      BY <1>1 DEF IInv, NoProcessLost, Scheduled
    <3>3. p \in Range(runq) => st[p] = "ready" BY DEF IInv, RunQueueExact
    <3>4. CASE p = curr BY <1>1, <2>2, <2>3, <3>4 DEF Lives
    <3>5. CASE p # curr
      BY <1>1, <2>2, <2>3, <3>1, <3>2, <3>3, <3>5, LifeFacts DEF Lives, States
    <3> QED BY <3>4, <3>5
  <2>5. l \in [Pids -> Lives] BY <2>4
  <2>6. Lifecycle!Dispatch(l)
    <3> HIDE DEF l
    <3> QED BY <1>1, <1>3, <2>1, <2>4, <2>5, LoadNextDispatches
  <2>7. Life(curr) = "running" BY <1>1, LifeFacts
  <2>8. Lifecycle!Sleep(curr)
    BY <1>1, <1>3, <2>6, <2>7 DEF Lifecycle!Sleep
  <2> QED BY <1>1, <1>3, <2>8 DEF Lifecycle!Next
<1> QED BY <1>2, <1>3

-----------------------------------------------------------------------------
(* pm_exit with the switch that follows: Die, which may wake the parent and *)
(* nobody else; or the Halt of init's exit and of an uninitialised queue.   *)
LEMMA ExitDies ==
    ASSUME IInv, IInv', cpu = "user", NEW m \in {"idle", "idle_in_timer"}, ExitCurr(m)
    PROVE  Lifecycle!Next
<1> USE PidFacts
<1> DEFINE parent == ppid[curr]
           woken  == waitq[parent]
<1>1. /\ TypeOK /\ TypeOK' /\ Running /\ curr \in Pids /\ st[curr] = "ready"
      /\ runq \in Seq(Pids) /\ IsInjective(runq) /\ curr \notin Range(runq)
  BY DEF IInv, Running, TypeOK, RunQueueExact
<1>2. CASE ~ Running' BY <1>1, <1>2, StopIsHalt
<1>3. CASE Running'
  <2>1. parent \in Pids /\ st[parent] # "free" /\ parent \notin junk
    BY <1>3 DEF ExitCurr, Stop, Running
  <2>2. /\ st' = [p \in Pids |-> IF p \in Range(woken) THEN "ready"
                                 ELSE IF p = curr THEN "zombie" ELSE st[p]]
        /\ LoadNext(runq \o woken, m)
    BY <2>1 DEF ExitCurr
  <2>3. /\ woken \in Seq(Pids) /\ IsInjective(woken) /\ Range(woken) \subseteq {parent}
        /\ \A p \in Range(woken) : st[p] = "waiting"
    BY <2>1 DEF IInv, TypeOK, WaitQueuesExact, OwnQueueOnly
  <2>4. parent # curr /\ curr # InitPid
    BY <1>1, <2>1 DEF IInv, InitIsRoot
  <2>5. Range(runq) \cap Range(woken) = {} BY <2>3 DEF IInv, RunQueueExact
  <2>6. /\ runq \o woken \in Seq(Pids) /\ IsInjective(runq \o woken)
        /\ Range(runq \o woken) = Range(runq) \cup Range(woken)
    BY <1>1, <2>3, <2>5, QueueConcat
  <2>7. \A p \in Pids : st'[p] = IF p \in Range(woken) THEN "ready"
                                 ELSE IF p = curr THEN "zombie" ELSE st[p]
    BY <2>2
  <2>8. Life(curr) = "running" BY <1>1, LifeFacts
  <2>9. \A c \in Pids : Life(c) = "free" <=> st[c] = "free"
    <3> SUFFICES ASSUME NEW c \in Pids PROVE Life(c) = "free" <=> st[c] = "free"
      OBVIOUS
    <3>1. st[c] \in States BY <1>1 DEF TypeOK
    <3> QED BY <1>1, <3>1, LifeFacts DEF States
  <2>10. \A c \in Pids : ppid'[c] = IF Life(c) # "free" /\ ppid[c] = curr THEN InitPid ELSE ppid[c]
    BY <2>9 DEF ExitCurr, HandOver, Children
  <2> DEFINE l0 == [[p \in Pids |-> Life(p)] EXCEPT ![curr] = "zombie"]
             l1 == [[p \in Pids |-> Life(p)] EXCEPT ![curr] = "zombie", ![parent] = "runnable"]
             l  == IF Range(woken) = {} THEN l0 ELSE l1
  <2>11. \A p \in Pids : l[p] = IF p \in Range(woken) THEN "runnable"
                                ELSE IF p = curr THEN "zombie" ELSE Life(p)
    BY <2>1, <2>3, <2>4
  <2>12. l \in [Pids -> Lives] /\ \A p \in Pids :
               /\ l[p] = "runnable" <=> p \in Range(runq \o woken)
               /\ l[p] # "running"
               /\ l[p] = "runnable" <=> st'[p] = "ready"
               /\ l[p] = "blocked"  <=> st'[p] = "waiting"
               /\ l[p] = "zombie"   <=> st'[p] = "zombie"
    <3>1. ASSUME NEW p \in Pids
          PROVE  /\ l[p] \in Lives
                 /\ l[p] = "runnable" <=> p \in Range(runq \o woken)
                 /\ l[p] # "running"
                 /\ l[p] = "runnable" <=> st'[p] = "ready"
                 /\ l[p] = "blocked"  <=> st'[p] = "waiting"
                 /\ l[p] = "zombie"   <=> st'[p] = "zombie"
      <4> HIDE DEF l, woken
      <4>1. st[p] \in States BY <1>1 DEF TypeOK
      <4>2. st[p] = "ready" => p = curr \/ p \in Range(runq)
        BY <1>1 DEF IInv, NoProcessLost, Scheduled
      <4>3. p \in Range(runq) => st[p] = "ready" BY DEF IInv, RunQueueExact
      <4>4. CASE p \in Range(woken) BY <2>6, <2>7, <2>11, <4>4 DEF Lives
      <4>5. CASE p \notin Range(woken) /\ p = curr
        BY <1>1, <2>6, <2>7, <2>11, <4>5 DEF Lives
      <4>6. CASE p \notin Range(woken) /\ p # curr
        BY <1>1, <2>6, <2>7, <2>11, <4>1, <4>2, <4>3, <4>6, LifeFacts DEF Lives, States
      <4> QED BY <4>4, <4>5, <4>6
    <3>2. l = [p \in Pids |-> l[p]] OBVIOUS
    <3> HIDE DEF l
    <3> QED BY <3>1, <3>2
  <2>13. Lifecycle!Dispatch(l)
    <3> DEFINE rq == runq \o woken
    <3>1. rq \in Seq(Pids) /\ IsInjective(rq) /\ LoadNext(rq, m) BY <2>2, <2>6
    <3>2. \A p \in Pids : l[p] = "runnable" <=> p \in Range(rq) BY <2>12
    <3> HIDE DEF l, rq
    <3> QED BY <1>1, <1>3, <2>12, <3>1, <3>2, LoadNextDispatches
  <2>14. CASE Range(woken) = {}
    <3>1. Lifecycle!Dispatch(l0) BY <2>13, <2>14
    <3>2. Lifecycle!Die(curr)
      BY <1>1, <1>3, <2>4, <2>8, <2>10, <3>1 DEF Lifecycle!Die
    <3>3. \E p \in Pids : Lifecycle!Die(p) BY <1>1, <3>2 DEF Lifecycle!Die
    <3> QED BY <1>1, <1>3, <3>3 DEF Lifecycle!Next
  <2>15. CASE Range(woken) # {}
    <3>1. Lifecycle!Dispatch(l1) BY <2>13, <2>15
    <3>2. parent \in Range(woken) BY <2>3, <2>15
    <3>3. Life(parent) = "blocked" BY <1>1, <2>1, <2>3, <2>4, <3>2, LifeFacts
    <3>4. Lifecycle!Die(curr)
      BY <1>1, <1>3, <2>1, <2>4, <2>8, <2>10, <3>1, <3>3 DEF Lifecycle!Die
    <3>5. \E p \in Pids : Lifecycle!Die(p) BY <1>1, <3>4 DEF Lifecycle!Die
    <3> QED BY <1>1, <1>3, <3>5 DEF Lifecycle!Next
  <2> QED BY <2>14, <2>15
<1> QED BY <1>2, <1>3

-----------------------------------------------------------------------------
(* Steps that leave states, parents and the CPU alone are invisible. *)
LEMMA QuietStutters ==
    ASSUME UNCHANGED <<st, ppid, curr, cpu>>
    PROVE  UNCHANGED Lifecycle!vars
BY DEF Lifecycle!vars, Life, Running

(* The keyboard handler wakes the readers: Wake, or the Halt of an          *)
(* uninitialised wait queue.                                                *)
LEMMA KeyWakes ==
    ASSUME IInv, IInv', KeyStored
    PROVE  Lifecycle!Next
<1> USE PidFacts
<1> DEFINE woken == waitq[Keyboard]
<1>1. TypeOK /\ TypeOK' /\ Running /\ UNCHANGED ppid
  BY DEF IInv, KeyStored, Running, InterruptsOn
<1>2. CASE ~ Running' BY <1>1, <1>2, StopIsHalt
<1>3. CASE Running'
  <2>1. /\ st' = [p \in Pids |-> IF p \in Range(woken) THEN "ready" ELSE st[p]]
        /\ UNCHANGED <<curr, cpu>>
    BY <1>3 DEF KeyStored, Stop, Running
  <2>2. /\ Range(woken) \subseteq Pids
        /\ \A p \in Range(woken) : st[p] = "waiting" /\ ~ (cpu = "user" /\ curr = p)
    <3>1. woken \in Seq(Pids) BY <1>1 DEF TypeOK
    <3> QED BY <3>1, QueueElements DEF IInv, WaitQueuesExact, RunQueueExact
  <2> DEFINE S == Range(woken)
  <2>3. \A p \in S : p \in Pids /\ Life(p) = "blocked" BY <1>1, <2>2, LifeFacts
  <2>4. \A p \in Pids : Life(p)' = IF p \in S THEN "runnable" ELSE Life(p)
    <3> SUFFICES ASSUME NEW p \in Pids
                 PROVE  Life(p)' = IF p \in S THEN "runnable" ELSE Life(p)
      OBVIOUS
    <3>1. st'[p] = (IF p \in S THEN "ready" ELSE st[p]) /\ st[p] \in States
      BY <1>1, <2>1 DEF TypeOK
    <3> QED BY <1>1, <1>3, <2>1, <2>2, <3>1, LifeFacts, LifeFactsPrimed DEF States
  <2> HIDE DEF S
  <2>5. S \in SUBSET Lifecycle!With("blocked") BY <2>3 DEF Lifecycle!With
  <2>6. Lifecycle!Wake BY <1>1, <1>3, <2>4, <2>5 DEF Lifecycle!Wake
  <2> QED BY <1>1, <1>3, <2>6 DEF Lifecycle!Next
<1> QED BY <1>2, <1>3

(* The idle loop finds a process that can run: Resume. *)
LEMMA IdleResumes ==
    ASSUME IInv, IInv', IdleWake
    PROVE  Lifecycle!Next
<1> DEFINE l == [p \in Pids |-> Life(p)]
<1>1. /\ TypeOK /\ TypeOK' /\ Running /\ Running' /\ curr \in Pids
      /\ UNCHANGED <<st, ppid>> /\ cpu \in {"idle", "idle_in_timer"}
      /\ runq \in Seq(Pids) /\ IsInjective(runq) /\ runq # <<>> /\ LoadNext(runq, cpu)
  BY DEF IInv, IdleWake, Running, TypeOK, RunQueueExact, LoadNext
<1>2. ASSUME NEW p \in Pids
      PROVE  /\ l[p] \in Lives
             /\ l[p] = "runnable" <=> p \in Range(runq)
             /\ l[p] # "running"
             /\ l[p] = "runnable" <=> st'[p] = "ready"
             /\ l[p] = "blocked"  <=> st'[p] = "waiting"
             /\ l[p] = "zombie"   <=> st'[p] = "zombie"
  <2>1. st[p] \in States BY <1>1 DEF TypeOK
  <2>2. st[p] = "ready" => p \in Range(runq)
    BY <1>1 DEF IInv, NoProcessLost, Scheduled
  <2>3. p \in Range(runq) => st[p] = "ready" BY DEF IInv, RunQueueExact
  <2>4. l[p] = Life(p) OBVIOUS
  <2> QED BY <1>1, <2>1, <2>2, <2>3, <2>4, LifeFacts DEF Lives, States
<1>3. l \in [Pids -> Lives] BY <1>2
<1>4. Lifecycle!Dispatch(l)
  <2> HIDE DEF l
  <2> QED BY <1>1, <1>2, <1>3, LoadNextDispatches
<1>5. Lifecycle!With("running") = {} BY <1>2 DEF Lifecycle!With
<1>6. Lifecycle!With("runnable") # {}
  <2>1. Head(runq) \in Range(runq) /\ Head(runq) \in Pids BY <1>1, QueueTail
  <2> QED BY <1>2, <2>1 DEF Lifecycle!With
<1>7. Lifecycle!Resume BY <1>1, <1>4, <1>5, <1>6 DEF Lifecycle!Resume
<1> QED BY <1>1, <1>7 DEF Lifecycle!Next

(* The timer switches from the running process to the head of the run       *)
(* queue: Preempt.                                                          *)
LEMMA SwitchPreempts ==
    ASSUME IInv, IInv', cpu = "user", runq # <<>>, UNCHANGED <<st, ppid>>,
           LoadNext(Append(runq, curr), "idle_in_timer")
    PROVE  Lifecycle!Next
<1> DEFINE h == Head(runq)
<1>1. /\ TypeOK /\ TypeOK' /\ Running /\ curr \in Pids /\ st[curr] = "ready"
      /\ runq \in Seq(Pids) /\ curr \notin Range(runq)
  BY DEF IInv, Running, TypeOK, RunQueueExact
<1>2. h \in Range(runq) /\ h \in Pids BY <1>1, QueueTail
<1>3. cpu' = "user" /\ curr' = h
  BY <1>1 DEF LoadNext
<1>4. Running' BY <1>3 DEF Running
<1> HIDE DEF h
<1>5. h # curr /\ st[h] = "ready" BY <1>1, <1>2 DEF IInv, RunQueueExact
<1>6. Life(curr) = "running" /\ Life(h) = "runnable"
  BY <1>1, <1>2, <1>5, LifeFacts
<1>7. \A p \in Pids : Life(p)' = IF p = h THEN "running"
                                 ELSE IF p = curr THEN "runnable" ELSE Life(p)
  <2> SUFFICES ASSUME NEW p \in Pids
               PROVE  Life(p)' = IF p = h THEN "running"
                                 ELSE IF p = curr THEN "runnable" ELSE Life(p)
    OBVIOUS
  <2>1. st[p] \in States BY <1>1 DEF TypeOK
  <2> QED BY <1>1, <1>3, <1>4, <1>5, <2>1, LifeFacts, LifeFactsPrimed DEF States
<1>8. h \in Lifecycle!With("runnable") BY <1>2, <1>6 DEF Lifecycle!With
<1>9. \E p \in Pids : Lifecycle!Preempt(p)
  <2>1. [p \in Pids |-> Life(p)'] =
          [[p \in Pids |-> Life(p)] EXCEPT ![curr] = "runnable", ![h] = "running"]
    BY <1>1, <1>2, <1>5, <1>7
  <2> QED BY <1>1, <1>4, <1>6, <1>8, <2>1 DEF Lifecycle!Preempt
<1> QED BY <1>1, <1>4, <1>9 DEF Lifecycle!Next

-----------------------------------------------------------------------------
(* The initial state maps to the abstract one. *)
LEMMA InitImplements == Init => Lifecycle!Init
BY PidFacts DEF Init, Lifecycle!Init, Life, Running

(* Every step maps to a step or to a stutter. *)
LEMMA StepImplements ==
    ASSUME IInv, IInv', [Next]_vars
    PROVE  [Lifecycle!Next]_Lifecycle!vars
<1> USE PidFacts
<1>1. TypeOK BY DEF IInv
<1>2. CASE Fork BY <1>2, ForkCreates
<1>3. CASE Exit BY <1>3, ExitDies DEF Exit
<1>4. CASE WaitReap BY <1>4, WaitReaps
<1>5. CASE WaitBlock
  <2>1. curr \in Queues BY <1>1 DEF TypeOK
  <2> QED BY <1>5, <2>1, BlockSleeps DEF WaitBlock
<1>6. ASSUME NEW p \in Pids, Kill(p) PROVE UNCHANGED Lifecycle!vars
  BY <1>6, QuietStutters DEF Kill
<1>7. ASSUME NEW n \in 1 .. KBD_CAPACITY, Read(n) PROVE [Lifecycle!Next]_Lifecycle!vars
  <2>1. CASE keys = 0 BY <1>7, <2>1, BlockSleeps DEF Read
  <2>2. CASE keys # 0 BY <1>7, <2>2, QuietStutters DEF Read
  <2> QED BY <2>1, <2>2
<1>8. CASE TimerTick
  <2>1. CASE UNCHANGED <<st, ppid, waitq, runq, curr, cpu>>
    BY <2>1, QuietStutters
  <2>2. CASE cpu = "user" /\ ExitCurr("idle_in_timer") BY <2>2, ExitDies
  <2>3. CASE /\ cpu = "user" /\ runq # <<>> /\ UNCHANGED <<st, ppid>>
             /\ LoadNext(Append(runq, curr), "idle_in_timer")
    BY <2>3, SwitchPreempts
  <2> QED BY <1>8, <2>1, <2>2, <2>3 DEF TimerTick, Reschedule, Preempted
<1>9. CASE KeyPress \/ KeyIgnored BY <1>9, QuietStutters DEF KeyPress, KeyIgnored
<1>10. CASE KeyStored BY <1>10, KeyWakes
<1>11. CASE Exception BY <1>11, ExitDies DEF Exception
<1>12. CASE IdleWake BY <1>12, IdleResumes
<1>13. CASE UNCHANGED vars BY <1>13, QuietStutters DEF vars
<1> QED BY <1>2, <1>3, <1>4, <1>5, <1>6, <1>7, <1>8, <1>9, <1>10, <1>11, <1>12, <1>13
    DEF Next, Syscall, Interrupt

(* The process manager keeps the promise of ProcessLifecycle: with any      *)
(* number of slots and any interleaving of syscalls, interrupts and         *)
(* switches one process runs at a time, the CPU idles only when nobody can  *)
(* run, a death wakes at most the parent, orphans go to init and a zombie   *)
(* is reaped by its parent alone.                                           *)
THEOREM LifecycleImplemented == Spec => ImplementsLifecycle
<1>1. Init => Lifecycle!Init BY InitImplements
<1>2. IInv /\ IInv' /\ [Next]_vars => [Lifecycle!Next]_Lifecycle!vars
  BY StepImplements
<1> QED BY <1>1, <1>2, Invariance, PTL DEF Spec, ImplementsLifecycle, Lifecycle!Spec

=============================================================================
