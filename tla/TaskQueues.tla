----------------------------- MODULE TaskQueues -----------------------------
(***************************************************************************)
(* The queues of the scheduler as kernel/process_manager/scheduler.c links *)
(* them: a queue is its head and its rear, and one `next' link in every    *)
(* task serves the run queue and all wait queues.  ProcessManager has      *)
(* sequences for these queues.                                             *)
(***************************************************************************)
EXTENDS Integers, Sequences

CONSTANTS
    MAX_TASKS,    \* tasks there can be
    WAIT_QUEUES   \* what a task can wait for

NIL     == 0
TASKS   == 1 .. MAX_TASKS
RUN     == "runnable"
QUEUES  == {RUN} \cup WAIT_QUEUES

ASSUME TasksAssumption  == MAX_TASKS \in Nat \ {0}
ASSUME QueuesAssumption == RUN \notin WAIT_QUEUES

Idle == [queue |-> [q \in QUEUES |-> [head |-> NIL, rear |-> NIL]],
         next  |-> [t \in TASKS |-> NIL], curr |-> NIL, first |-> TRUE, idle |-> FALSE]

task_queue_empty(s, q) == s.queue[q].head = NIL

task_enqueue(s, q, task) ==
    LET rear == s.queue[q].rear
        cut  == [s.next EXCEPT ![task] = NIL]
    IN IF rear = NIL THEN [s EXCEPT !.next = cut, !.queue[q] = [head |-> task, rear |-> task]]
       ELSE [s EXCEPT !.next = [cut EXCEPT ![rear] = task], !.queue[q].rear = task]

RearKept(s, q) ==                                                   \* mutant
    LET task == s.queue[q].head
    IN [task |-> task,
        s    |-> [s EXCEPT !.queue[q].head = s.next[task], !.next[task] = NIL]]
task_dequeue(s, q) ==
    LET task == s.queue[q].head
        rear == s.queue[q].rear
    IN [task |-> task,
        s    |-> [s EXCEPT !.queue[q] = [head |-> s.next[task], rear |-> IF task = rear THEN NIL ELSE rear],
                           !.next[task] = NIL]]

scheduler_add_task(s, task) ==
    LET added == task_enqueue(s, RUN, task)
        taken == task_dequeue(added, RUN)
    IN IF s.first THEN [taken.s EXCEPT !.curr = taken.task, !.first = FALSE] ELSE added

pm_waitqueue_enqueue(s, q) == task_enqueue(s, q, s.curr)

pm_waitqueue_dequeue_all(s, q) ==
    LET after[n \in 0 .. MAX_TASKS] ==       \* at most all tasks
            IF n = 0 THEN s
            ELSE LET taken == task_dequeue(after[n - 1], q)
                 IN IF task_queue_empty(after[n - 1], q) THEN after[n - 1]
                    ELSE task_enqueue(taken.s, RUN, taken.task)
    IN after[MAX_TASKS]

(* Without a runnable task, until an interrupt has made one. *)
pm_load_next_ready_process(s) ==
    LET taken == task_dequeue(s, RUN)
    IN IF task_queue_empty(s, RUN) THEN [s EXCEPT !.idle = TRUE]
       ELSE [taken.s EXCEPT !.curr = taken.task, !.idle = FALSE]

(* For a task that is not being killed. *)
pm_scheduler_context_switch(s) ==
    IF s.idle \/ task_queue_empty(s, RUN) THEN s
    ELSE pm_load_next_ready_process(task_enqueue(s, RUN, s.curr))

-----------------------------------------------------------------------------
(* What happens to the queues: a fork, a tick, a task that waits, an event. *)

Ops == ({"fork", "tick"} \X {RUN}) \cup ({"wait", "wake"} \X WAIT_QUEUES)

Do(s, op, added) ==
    CASE op[1] = "fork" -> IF s.idle \/ added = MAX_TASKS THEN s ELSE scheduler_add_task(s, added + 1)
      [] op[1] = "tick" -> pm_scheduler_context_switch(s)
      [] OTHER -> LET woken == pm_waitqueue_dequeue_all(s, op[2])
                  IN IF op[1] = "wait"
                     THEN IF s.idle THEN s ELSE pm_load_next_ready_process(pm_waitqueue_enqueue(s, op[2]))
                     ELSE IF s.idle THEN pm_load_next_ready_process(woken) ELSE woken

-----------------------------------------------------------------------------
(* The reference: the same with sequences. *)
Lines == [queue |-> [q \in QUEUES |-> <<>>], curr |-> 1, idle |-> FALSE]

NextInLine(l) ==
    IF l.queue[RUN] = <<>> THEN [l EXCEPT !.idle = TRUE]
    ELSE [l EXCEPT !.curr = Head(l.queue[RUN]), !.queue[RUN] = Tail(@), !.idle = FALSE]

InLine(l, op, added) ==
    CASE op[1] = "fork" -> IF l.idle \/ added = MAX_TASKS THEN l ELSE [l EXCEPT !.queue[RUN] = Append(@, added + 1)]
      [] op[1] = "tick" -> IF l.idle THEN l ELSE NextInLine([l EXCEPT !.queue[RUN] = Append(@, l.curr)])
      [] OTHER -> LET woken == [l EXCEPT !.queue[RUN] = @ \o l.queue[op[2]], !.queue[op[2]] = <<>>]
                  IN IF op[1] = "wait"
                     THEN IF l.idle THEN l ELSE NextInLine([l EXCEPT !.queue[op[2]] = Append(@, l.curr)])
                     ELSE IF l.idle THEN NextInLine(woken) ELSE woken

(* Both behind the first task and a history; forks number the tasks. *)
After(history) ==
    LET both[n \in 0 .. Len(history)] ==
            IF n = 0 THEN [s |-> scheduler_add_task(Idle, 1), l |-> Lines, added |-> 1]
            ELSE LET b == both[n - 1]
                     forks == history[n][1] = "fork" /\ ~ b.l.idle /\ b.added < MAX_TASKS
                 IN [s |-> Do(b.s, history[n], b.added), l |-> InLine(b.l, history[n], b.added),
                     added |-> IF forks THEN b.added + 1 ELSE b.added]
    IN both[Len(history)]

(* From the head along the links it is the line, and the rear is its end.   *)
LinksOf(s, q, line) ==
    LET ends == <<NIL>> \o line \o <<NIL>>
    IN /\ s.queue[q].head = ends[2] /\ s.queue[q].rear = ends[Len(ends) - 1]
       /\ \A i \in DOMAIN line : s.next[line[i]] = ends[i + 2]

=============================================================================
