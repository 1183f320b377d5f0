---------------------------- MODULE DeferredProps ----------------------------
(***************************************************************************)
(* What timers, deferred tasks and nested interrupts must guarantee.       *)
(***************************************************************************)
EXTENDS Deferred

\* Every variable keeps its type, and neither pool gives out more nodes than it has.
TypeOK ==
  /\ now \in Nat /\ nextTick \in Nat /\ hw \in Nat
  /\ timers \in Seq(TimerEvent) /\ Len(timers) <= TimerPool
  /\ tasks \in Seq(TaskEvent) /\ Len(tasks) <= TaskPool
  /\ prio \in Nat \cup {NoPriority}
  /\ used \in SUBSET Msgs
  /\ sie \in BOOLEAN
  /\ shell \in Shell
  /\ frames \in Seq(Frame)

\* notes.md of lab 4, line 131: the hardware timer is always set to the event
\* that expires first.  In every state the comparator holds the earlier of the
\* next scheduler tick and the first timer, or its interrupt is already due.
EarliestArmed == hw = Earliest(timers, nextTick) \/ hw <= now

\* Where a message slot is referred to: by the shell between the two halves of
\* setTimeout, by a timer, by a task, or by a callback that has not released it.
Owners(m) ==
  {o \in {<<"shell", 1>>} : shell.at = "add" /\ shell.msg = m}
    \cup {"timer"} \X {i \in 1 .. Len(timers) : timers[i].cb = m}
    \cup {"task"} \X {i \in 1 .. Len(tasks) : tasks[i].cb = m}
    \cup {"frame"} \X {i \in 1 .. Len(frames) : frames[i].at = "body" /\ frames[i].cb = m}

\* timeout_msgs[]: a slot in use has exactly one owner and a free one has none, so
\* none is lost for ever and none is handed out while a timeout still holds it.
SlotsOwned ==
  \A m \in Msgs :
    IF m \in used THEN \E o \in Owners(m) : Owners(m) = {o} ELSE Owners(m) = {}

\* The frames that are inside a callback, the innermost has the lowest index.
Active == {i \in 1 .. Len(frames) : frames[i].cb # None}

\* run_pending_task: a callback runs only on top of callbacks of its priority or
\* a lower one, and task_current_priority is that of the innermost one, which it
\* finds again after all that nest in it, down to no priority after the outermost.
PrioritiesNest ==
  /\ Active = {} => prio = NoPriority
  /\ \A i \in Active :
       /\ prio >= frames[i].prev
       /\ \A j \in Active : i < j => frames[i].prev >= frames[j].prev
       /\ (\A j \in Active : j <= i) => frames[i].prev = NoPriority

\* task.c:176 and task.c:206: a task that adds one of higher priority and triggers
\* the timer is preempted: when it ends nothing of higher priority is left.
HigherRunsFirst ==
  [][In("end") /\ Running \in {"p2", "p3", "p4"} /\ Finish =>
       \A i \in 1 .. Len(tasks) : tasks[i].prio <= prio]_vars

\* The timeouts that wait, first those whose callback is a task already.  Without
\* the command tasktest all timers and tasks are timeouts.
Waiting ==
  [i \in 1 .. Len(tasks) |-> [cb |-> tasks[i].cb, due |-> tasks[i].due]]
    \o [i \in 1 .. Len(timers) |-> [cb |-> timers[i].cb, due |-> timers[i].at]]

\* timer.c:183: the callbacks of the timeouts start in the order in which these fall
\* due, and in the order of the commands when they fall due together.
Promised == INSTANCE Timeouts WITH now <- now, waiting <- Waiting
PrintsInOrder == Promised!Spec

\* The shell itself runs with interrupts disabled, and no trap is in progress.
Masked == frames = <<>> /\ shell.at # "user" /\ ~sie

\* An accepted timeout is printed some time, unless the shell comes to run with
\* interrupts disabled before that: missed ticks, other interrupts and user
\* processes do not make the comparator pass over it.
UnmaskedTimeoutsFire ==
  \A m \in Msgs :
    (\E i \in 1 .. Len(timers) : timers[i].cb = m) ~> m \notin used \/ Masked

\* shell.c:127 and timer.c:65: an accepted timeout is printed some time.
TimeoutsFire ==
  \A m \in Msgs : (\E i \in 1 .. Len(timers) : timers[i].cb = m) ~> m \notin used
=============================================================================
