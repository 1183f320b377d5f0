------------------------------ MODULE ProcProps ------------------------------
(***************************************************************************)
(* What the process layer must guarantee: the invariants, action           *)
(* properties and liveness properties of Proc.                             *)
(***************************************************************************)
EXTENDS Proc

\* Every variable keeps its type: tasks[], the run queue, tp, next_pid, the
\* kernel continuations and the loaded image.
TypeOK ==
  /\ task \in [Slots -> Task]
  /\ runq \in Queue
  /\ cur \in Slots
  /\ nextPid \in Nat
  /\ kpc \in [Slots -> Continuation]
  /\ loaded \in Images

Closed(q, S) == \A t \in S : q.next[t] \in S

\* The next pointers lead from every task of T through all of T and back, and no
\* other task has one.
OneRing(q, T) ==
  /\ q.tail \in T
  /\ Closed(q, T)
  /\ \A S \in SUBSET T : S # {} /\ Closed(q, S) => S = T
  /\ \A s, t \in T : q.next[s] = q.next[t] => s = t
  /\ \A t \in Slots \ T : q.next[t] = Nil

\* The ring that runq_add, runq_remove, thread_exit and task_kill maintain holds
\* every runnable task exactly once and no other: from any of them pick_next gets to
\* each, and the links of the others are null.  tp is in it and is the only task in
\* state TASK_RUNNING; the idle task never leaves it.
RunQueueExact ==
  /\ OneRing(runq, {t \in Slots : Runnable(task, t)})
  /\ \A t \in Slots : task[t].st = "running" <=> t = cur
  /\ Runnable(task, Idle)

Used(t) == task[t].st # "unused"

\* task_find_by_pid is unambiguous: no two used slots have one pid, and pids
\* are never reused (as far as the model tells pids apart).
PidsUnique ==
  /\ \A s, t \in Slots :
       /\ Used(s) /\ Used(t)
       /\ task[s].pid = task[t].pid /\ task[s].pid <= MaxPid
       => s = t
  /\ \A t \in Slots : nextPid <= MaxPid => task[t].pid < nextPid

\* signal_saved_tf and handling_signal agree with what the process executes: it
\* runs a handler exactly while a main context is saved for sigreturn, so that a
\* handler's sigreturn never fails.  Programs whose handlers fork are excluded.
HandlerContext ==
  \A t \in Slots : Runnable(task, t) /\ task[t].user =>
    /\ task[t].u.mode = "handler" <=> task[t].handling # 0
    /\ task[t].handling # 0 <=> task[t].saved.mode = "main"
    /\ task[t].u.mode # "stuck"

StacksOf(t) ==
  {<<c.stack, c.of>> : c \in {k \in {task[t].u, task[t].saved} : k.mode # "none"}}

\* user.c:246: the child's user stack is memory of its own.  No two live
\* processes run, or will resume after a handler, on one stack.
StacksDisjoint ==
  \A s, t \in Slots :
    s # t /\ Runnable(task, s) /\ Runnable(task, t) => StacksOf(s) \cap StacksOf(t) = {}

\* A pending signal of a process leaves pending_signals only when its handler
\* starts, when the process is replaced by exec, or with the process itself.
SignalsKept ==
  [][\A t \in Slots, sig \in Signals :
       Runnable(task, t) /\ sig \in task[t].pend /\ sig \notin task'[t].pend =>
         \/ task'[t].handling = sig /\ task[t].handling = 0
         \/ t = cur /\ task'[t].hdl = {} /\ task'[t].u.mode = "main"
         \/ ~Runnable(task', t)]_vars

\* thread.c:231 (kill_zombies): a zombie whose parent is a living user process
\* is kept until that parent collects it with waitpid.
ParentCollects ==
  [][\A t \in Slots :
       /\ task[t].st = "zombie" /\ task'[t].st # "zombie"
       /\ ParentAlive(task, t) /\ task[task[t].parent].user
       => cur = task[t].parent /\ kpc[cur].at = "waitpid"]_vars

SameTask(t) == \A w \in kpc[t].on : task[w[1]].pid = w[2]

\* The task_struct pointer that waitpid or the shell's wait for a program holds
\* across schedule() still denotes the task it was taken for: the slot was not
\* freed and given to another task meanwhile.
WaitsForSameTask ==
  \A t \in Slots : kpc[t].at \in {"waitpid", "shwait"} => SameTask(t)

\* A step of thread_create that succeeds.
CreatesTask == \E t \in Slots : kpc[t].at # "new" /\ kpc'[t].at = "new"

\* While the shell waits for a command it started, every runnable task gets the
\* hart again (unless it ends or the shell returns to its prompt first), or tasks
\* are created for ever.  The exception is real.  thread_exit prefers a living
\* parent to the next task on the ring (thread.c:202-205): a process that forks,
\* loses the hart to its child by a tick, gets it back by the child's exit, collects
\* it and forks again passes the others over for ever.  So does a chain of tasks
\* that fork and are ended by their children, because runq_add (thread.c:18-28)
\* puts a newcomer behind the last one added, not behind the task on the hart.
EveryTaskRuns ==
  \/ []<><<CreatesTask>>_vars
  \/ \A t \in Slots :
       Runnable(task, t) /\ kpc[Idle].at # "prompt" ~>
         cur = t \/ ~Runnable(task, t) \/ kpc[Idle].at = "prompt"

\* A parent in waitpid whose child has ended collects it and returns.
WaitpidReturns ==
  \A t \in Slots :
    /\ kpc[t].at = "waitpid" /\ kpc[Idle].at # "prompt"
    /\ \A w \in kpc[t].on : ~Runnable(task, w[1])
    ~> kpc[t].at # "waitpid" \/ kpc[Idle].at = "prompt"
=============================================================================
