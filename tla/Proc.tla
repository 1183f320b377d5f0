-------------------------------- MODULE Proc --------------------------------
(***************************************************************************)
(* The process layer of the kernel on its single hart: the task table, the *)
(* round-robin run queue and the exit/reap protocol of thread.c, the user  *)
(* processes of user.c, the signals of signal.c, the system calls of       *)
(* syscall.c, the part of do_trap that schedules and delivers signals, and *)
(* the shell loops that wait for what the shell started.                   *)
(*                                                                         *)
(* Only the task in `cur` (the tp register) executes.  kpc[t] is where the *)
(* kernel code of t continues: the points after a call of schedule(), and  *)
(* "user" while t executes in U-mode.  A stretch of kernel code between    *)
(* two such points is one action, because the timer interrupt does not     *)
(* schedule in S-mode.  Exit statuses and return values are left out.      *)
(***************************************************************************)
EXTENDS Integers, FiniteSets

CONSTANTS
  MaxThreads,   \* MAX_THREADS, the number of task_structs
  Signals,      \* the signal numbers the programs use
  Files,        \* the program images of the initramfs
  Linked,       \* stands for the programs linked into the kernel (user_test.c)
  Calls,        \* the system calls the programs of the initramfs make
  EndsOthers,   \* whether programs end others than their own children, by a stop
                \* or by a signal without a handler
  HandlerForks, \* whether a signal handler may call fork
  TestThreads,  \* threads of run_thread_test
  Rounds,       \* schedule() calls of each test thread
  MaxPid        \* the largest pid told apart from the later ones

ASSUME ProcAssumption ==
  /\ MaxThreads \in Nat \ {0}
  /\ Signals \subseteq Nat \ {0}
  /\ IsFiniteSet(Signals)
  /\ Linked \notin Files
  /\ EndsOthers \in BOOLEAN /\ HandlerForks \in BOOLEAN
  /\ TestThreads \in Nat /\ Rounds \in Nat /\ MaxPid \in Nat

VARIABLES
  task,     \* tasks[]
  runq,     \* run_queue_tail and the next pointer of every task
  cur,      \* tp, the task on the hart
  nextPid,  \* next_pid
  kpc,      \* where each task continues in the kernel, and what it waits for
  loaded    \* the image at USER_PROG_BASE

vars == <<task, runq, cur, nextPid, kpc, loaded>>

Slots == 0 .. MaxThreads - 1
Idle == 0
Nil == -1
Images == Files \cup {Linked}
LinkedCalls == {"fork", "waitpid", "exit", "stop"}

\* What the U-mode registers of a process refer to: the code it executes (the
\* program, a signal handler, or the endless loop of the signal trampoline), the
\* stack its sp points into, and the image its pc points into.
Context ==
  [mode : {"none", "main", "handler", "stuck"},
   stack : {"user", "signal"}, of : Slots, img : Images]

NoContext == [mode |-> "none", stack |-> "user", of |-> Idle, img |-> Linked]

Task ==
  [st : {"unused", "runnable", "running", "zombie"}, pid : Nat \cup {-1},
   user : BOOLEAN, parent : Slots \cup {Nil},
   hdl : SUBSET Signals, pend : SUBSET Signals, handling : Signals \cup {0},
   u : Context, saved : Context]

Points ==
  {"dead", "new", "user", "trapret", "waitpid", "poll", "kthread",
   "prompt", "shwait", "spawn", "thwait"}

\* A wait loop keeps a pointer to each task_struct it watches; the pid the slot
\* held when the wait began is recorded beside it.
Continuation == [at : Points, on : SUBSET (Slots \X Int), n : Nat]

At(p) == [at |-> p, on |-> {}, n |-> 0]
Watching(p, w) == [at |-> p, on |-> w, n |-> 0]

(***************************************************************************)
(* thread.c                                                                *)
(***************************************************************************)
Blank ==
  [st |-> "unused", pid |-> -1, user |-> FALSE, parent |-> Nil,
   hdl |-> {}, pend |-> {}, handling |-> 0, u |-> NoContext, saved |-> NoContext]

Runnable(tk, t) == tk[t].st \in {"runnable", "running"}

\* The run queue is a ring of next pointers, entered at run_queue_tail, the task
\* that was added last.  A pointer that denotes no task is null.
Queue == [tail : Slots \cup {Nil}, next : [Slots -> Slots \cup {Nil}]]

EmptyQueue == [tail |-> Nil, next |-> [t \in Slots |-> Nil]]

\* runq_add: after the tail, as the new tail.
RunqAdd(q, t) ==
  IF q.tail = Nil
  THEN [tail |-> t, next |-> [q.next EXCEPT ![t] = t]]
  ELSE [tail |-> t, next |-> [q.next EXCEPT ![t] = q.next[q.tail], ![q.tail] = t]]

\* The loop of runq_remove: the task before t on one turn from the tail, or null.
Before(q, t) ==
  LET prev[p \in Slots] ==
        IF q.next[p] = t THEN p
        ELSE IF q.next[p] \in {q.tail, Nil} THEN Nil ELSE prev[q.next[p]]
  IN  prev[q.tail]

\* Mutant: run_queue_tail is not moved off the removed task.
MutRemoveKeepsTail(q, t) ==
  LET prev == Before(q, t)
  IN  IF prev = Nil THEN q ELSE [q EXCEPT !.next[prev] = q.next[t], !.next[t] = Nil]

RunqRemove(q, t) ==
  LET prev == Before(q, t)
  IN  IF q.tail = Nil THEN q
      ELSE IF q.next[t] = t THEN [tail |-> Nil, next |-> [q.next EXCEPT ![t] = Nil]]
      ELSE IF prev = Nil THEN q
      ELSE [tail |-> IF q.tail = t THEN prev ELSE q.tail,
            next |-> [q.next EXCEPT ![prev] = q.next[t], ![t] = Nil]]

\* task_reap and thread_create clear the next of a slot: those of the free slots of
\* tk are null.
Unlinked(q, tk) ==
  [q EXCEPT !.next = [t \in Slots |-> IF tk[t].st = "unused" THEN Nil ELSE q.next[t]]]

\* The first task on the ring from `from` that can run or is `me`.
FirstFrom(q, tk, me, from) ==
  LET scan[t \in Slots \cup {Nil}] ==
        IF t \in {me, Nil} \/ Runnable(tk, t) THEN t ELSE scan[q.next[t]]
  IN  scan[from]

\* Mutant: the scan starts at the head of the queue instead of after `me`.
MutPickFromHead(q, tk, me) == FirstFrom(q, tk, me, q.next[q.tail])

\* pick_next: the first runnable task after `me`, and `me` itself if there is none.
PickNext(q, tk, me) == FirstFrom(q, tk, me, q.next[me])

ParentAlive(tk, t) == tk[t].parent # Nil /\ Runnable(tk, tk[t].parent)

Reap(tk, T) ==
  [t \in Slots |-> IF t \in T /\ t # Idle /\ tk[t].st = "zombie" THEN Blank ELSE tk[t]]

\* Mutant: kill_zombies without the test of the parent.
MutReapAll(tk) == Reap(tk, Slots)

\* The children of living user processes are left to waitpid.
KillZombies(tk) ==
  Reap(tk, {t \in Slots : ~(ParentAlive(tk, t) /\ tk[tk[t].parent].user)})

\* Mutant: the scan of tasks[] runs one past its end.
MutAllocPastEnd(tk) ==
  LET Free == {t \in Slots : tk[t].st = "unused"} \cup {MaxThreads}
  IN  CHOOSE t \in Free : \A o \in Free : t <= o

AllocTask(tk) ==
  LET Free == {t \in Slots : tk[t].st = "unused"}
  IN  IF Free = {} THEN Nil ELSE CHOOSE t \in Free : \A o \in Free : t <= o

\* next_pid++.  No decision depends on a pid but by way of the task it names, and
\* the model cannot count for ever: all pids after MaxPid are one value.
Later(n) == IF n > MaxPid THEN n ELSE n + 1

\* Mutant: next_pid is not advanced.
MutCreateSamePid(tk, s, new, ok, fail) ==
  IF s = Nil
  THEN /\ task' = tk
       /\ kpc' = [kpc EXCEPT ![cur] = fail]
       /\ runq' = Unlinked(runq, tk)
       /\ UNCHANGED nextPid
  ELSE /\ task' = [tk EXCEPT ![s] = [new EXCEPT !.st = "runnable", !.pid = nextPid]]
       /\ kpc' = [kpc EXCEPT ![s] = At("new"), ![cur] = ok]
       /\ runq' = RunqAdd(Unlinked(runq, tk), s)
       /\ UNCHANGED nextPid

\* thread_create of the caller's sweep `tk`: s is the slot alloc_task found in it.
Create(tk, s, new, ok, fail) ==
  IF s = Nil
  THEN /\ task' = tk
       /\ kpc' = [kpc EXCEPT ![cur] = fail]
       /\ runq' = Unlinked(runq, tk)
       /\ UNCHANGED nextPid
  ELSE /\ task' = [tk EXCEPT ![s] = [new EXCEPT !.st = "runnable", !.pid = nextPid]]
       /\ kpc' = [kpc EXCEPT ![s] = At("new"), ![cur] = ok]
       /\ runq' = RunqAdd(Unlinked(runq, tk), s)
       /\ nextPid' = Later(nextPid)

\* schedule() called by cur, which will continue at k.
Schedule(k) ==
  LET next == PickNext(runq, task, cur)
  IN  /\ task' = [t \in Slots |->
                    IF t = next THEN [task[t] EXCEPT !.st = "running"]
                    ELSE IF t = cur THEN [task[t] EXCEPT !.st = "runnable"]
                    ELSE task[t]]
      /\ cur' = next
      /\ kpc' = [kpc EXCEPT ![cur] = k]
      /\ UNCHANGED <<runq, nextPid, loaded>>

\* Mutant: the parent is not preferred.
MutExitToNext == PickNext(runq, task, cur)

\* thread_exit by cur: a living parent runs next, whatever the queue says.
ExitTo ==
  IF ParentAlive(task, cur) THEN task[cur].parent ELSE PickNext(runq, task, cur)

ThreadExit ==
  LET next == IF ExitTo = cur THEN Idle ELSE ExitTo
  IN  /\ cur # Idle
      /\ runq' = RunqRemove(runq, cur)
      /\ task' = [task EXCEPT ![cur].st = "zombie", ![next].st = "running"]
      /\ cur' = next
      /\ kpc' = [kpc EXCEPT ![cur] = At("dead")]
      /\ UNCHANGED <<nextPid, loaded>>

\* task_kill of another task than the caller.
Terminate(t) ==
  /\ runq' = RunqRemove(runq, t)
  /\ task' = [task EXCEPT ![t].st = "zombie"]
  /\ kpc' = [kpc EXCEPT ![t] = At("dead"), ![cur] = At("trapret")]
  /\ UNCHANGED <<cur, nextPid, loaded>>

TaskKill(t) == t # Idle /\ IF t = cur THEN ThreadExit ELSE Terminate(t)

Init ==
  /\ task = [t \in Slots |->
               IF t = Idle THEN [Blank EXCEPT !.pid = 0, !.st = "running"] ELSE Blank]
  /\ runq = RunqAdd(EmptyQueue, Idle)
  /\ cur = Idle
  /\ nextPid = 1
  /\ kpc = [t \in Slots |-> At(IF t = Idle THEN "prompt" ELSE "dead")]
  /\ loaded = Linked

(***************************************************************************)
(* A task runs for the first time: thread_trampoline, then either          *)
(* user_process_entry and its sret, or test_thread.                        *)
(***************************************************************************)
Start ==
  /\ kpc[cur].at = "new"
  /\ kpc' = [kpc EXCEPT ![cur] =
               IF task[cur].user THEN At("user") ELSE [At("kthread") EXCEPT !.n = Rounds]]
  /\ UNCHANGED <<task, runq, cur, nextPid, loaded>>

KThread ==
  /\ kpc[cur].at = "kthread"
  /\ IF kpc[cur].n > 0
     THEN Schedule([kpc[cur] EXCEPT !.n = @ - 1])
     ELSE ThreadExit

(***************************************************************************)
(* Traps from U-mode.                                                      *)
(***************************************************************************)
InUser == kpc[cur].at = "user" /\ task[cur].u.mode # "stuck"

Issues(call) ==
  /\ InUser
  /\ IF task[cur].u.img = Linked THEN call \in LinkedCalls ELSE call \in Calls

GoTo(k) == kpc' = [kpc EXCEPT ![cur] = k]

\* The timer interrupt of a task in U-mode.
Tick == kpc[cur].at = "user" /\ Schedule(At("trapret"))

\* A trap that changes nothing here: an external interrupt, a call that only
\* reports or prints, and any call that fails its checks.
PlainTrap ==
  /\ kpc[cur].at = "user"
  /\ GoTo(At("trapret"))
  /\ UNCHANGED <<task, runq, cur, nextPid, loaded>>

\* uart_read and usleep call schedule() until there is input or time is up.
SysPoll ==
  /\ Issues("poll")
  /\ GoTo(At("poll"))
  /\ UNCHANGED <<task, runq, cur, nextPid, loaded>>

Poll ==
  /\ kpc[cur].at = "poll"
  /\ \/ Schedule(At("poll"))
     \/ GoTo(At("trapret")) /\ UNCHANGED <<task, runq, cur, nextPid, loaded>>

SysWaitpid ==
  /\ Issues("waitpid")
  /\ \E t \in Slots :
       /\ task[t].st # "unused" /\ task[t].parent = cur
       /\ GoTo(Watching("waitpid", {<<t, task[t].pid>>}))
  /\ UNCHANGED <<task, runq, cur, nextPid, loaded>>

\* Mutant: the loop waits until the slot is freed, by somebody else.
MutWaitForUnused(then) ==
  IF \E w \in kpc[cur].on : task[w[1]].st # "unused"
  THEN Schedule(kpc[cur])
  ELSE /\ GoTo(then)
       /\ UNCHANGED <<task, runq, cur, nextPid, loaded>>

\* One turn of `while (t->state != TASK_ZOMBIE && t->state != TASK_UNUSED)
\* schedule();` and, when the loop is over, task_reap(t).
WaitLoop(then) ==
  IF \E w \in kpc[cur].on : Runnable(task, w[1])
  THEN Schedule(kpc[cur])
  ELSE /\ task' = Reap(task, {w[1] : w \in kpc[cur].on})
       /\ runq' = Unlinked(runq, task')
       /\ GoTo(then)
       /\ UNCHANGED <<cur, nextPid, loaded>>

WaitpidStep == kpc[cur].at = "waitpid" /\ WaitLoop(At("trapret"))

SysExit == Issues("exit") /\ ThreadExit

\* Whom a program ends.  The kernel lets it be any task; the linked ones stop the
\* child they forked.
MayEnd(t) ==
  \/ task[t].parent = cur
  \/ task[cur].u.img # Linked /\ (t = cur \/ EndsOthers)

SysStop ==
  /\ Issues("stop")
  /\ \E t \in Slots : Runnable(task, t) /\ MayEnd(t) /\ TaskKill(t)

\* A signal with a handler becomes pending, one without terminates the target.
SysKill ==
  /\ Issues("kill")
  /\ \E t \in Slots, sig \in Signals :
       /\ task[t].user /\ Runnable(task, t)
       /\ IF sig \notin task[t].hdl
          THEN MayEnd(t) /\ TaskKill(t)
          ELSE /\ task' = [task EXCEPT ![t].pend = @ \cup {sig}]
               /\ GoTo(At("trapret"))
               /\ UNCHANGED <<runq, cur, nextPid, loaded>>

SysSignal ==
  /\ Issues("signal")
  /\ \E sig \in Signals : \E h \in {{}, {sig}} :
       task' = [task EXCEPT ![cur].hdl = (@ \ {sig}) \cup h]
  /\ GoTo(At("trapret"))
  /\ UNCHANGED <<runq, cur, nextPid, loaded>>

\* The handler returns to the trampoline, which calls sigreturn; when that fails
\* the trampoline loops for ever.
Sigreturn ==
  /\ InUser /\ task[cur].u.mode = "handler"
  /\ task' = [task EXCEPT ![cur] =
                IF @.handling = 0
                THEN [@ EXCEPT !.u.mode = "stuck"]
                ELSE [@ EXCEPT !.u = task[cur].saved, !.saved = NoContext, !.handling = 0]]
  /\ GoTo(At("trapret"))
  /\ UNCHANGED <<runq, cur, nextPid, loaded>>

\* Mutant: handling_signal and signal_saved_tf survive.
MutInitKeepsHandling(p) == [p EXCEPT !.hdl = {}, !.pend = {}]

\* signal_task_init.
SignalInit(p) ==
  [p EXCEPT !.hdl = {}, !.pend = {}, !.handling = 0, !.saved = NoContext]

FreshContext(t, f) == [mode |-> "main", stack |-> "user", of |-> t, img |-> f]

SysExec ==
  /\ Issues("exec")
  /\ \E f \in Files :
       /\ loaded' = f
       /\ task' = [task EXCEPT ![cur] =
                     [SignalInit(@) EXCEPT !.u = FreshContext(cur, f)]]
  /\ GoTo(At("trapret"))
  /\ UNCHANGED <<runq, cur, nextPid>>

\* Mutant: the copied sp is not translated.
MutTranslateNothing(u, parent, child) == u

\* translate_stack_ptr: only a pointer into the parent's user stack is moved.
Translate(u, parent, child) ==
  IF u.stack = "user" /\ u.of = parent THEN [u EXCEPT !.of = child] ELSE u

SysFork ==
  /\ Issues("fork")
  /\ HandlerForks \/ task[cur].u.mode = "main"
  /\ LET tk == KillZombies(task)
         s == AllocTask(tk)
         child == [Blank EXCEPT !.user = TRUE, !.parent = cur, !.hdl = task[cur].hdl,
                                !.u = Translate(task[cur].u, cur, s)]
     IN  Create(tk, s, child, At("trapret"), At("trapret"))
  /\ UNCHANGED <<cur, loaded>>

\* The end of do_trap for a trap from U-mode: signal_try_deliver, then sret.
FirstPending(t) == CHOOSE sig \in task[t].pend : \A o \in task[t].pend : sig <= o

HandlerContextOf(p) ==
  [mode |-> "handler", stack |-> "signal", of |-> cur, img |-> p.u.img]

\* Mutant: all pending bits are cleared.
MutDeliverClears(p, sig) ==
  [p EXCEPT !.pend = {}, !.handling = sig, !.saved = p.u, !.u = HandlerContextOf(p)]

Delivered(p, sig) ==
  [p EXCEPT !.pend = @ \ {sig}, !.handling = sig, !.saved = p.u, !.u = HandlerContextOf(p)]

Deliver(sig) ==
  /\ task' = [task EXCEPT ![cur] = Delivered(@, sig)]
  /\ GoTo(At("user"))
  /\ UNCHANGED <<runq, cur, nextPid, loaded>>

TrapReturn ==
  /\ kpc[cur].at = "trapret"
  /\ IF task[cur].handling # 0 \/ task[cur].pend = {}
     THEN GoTo(At("user")) /\ UNCHANGED <<task, runq, cur, nextPid, loaded>>
     ELSE IF FirstPending(cur) \in task[cur].hdl
     THEN Deliver(FirstPending(cur))
     ELSE ThreadExit

(***************************************************************************)
(* The shell, which is the idle task.                                      *)
(***************************************************************************)
AtPrompt == cur = Idle /\ kpc[Idle].at = "prompt"

\* Waiting for input, and the commands that leave this state alone.
ShellIdle == AtPrompt /\ UNCHANGED vars

\* exec <file>, and usertest, forktest and stoptest (img = Linked).
ShellRun ==
  /\ AtPrompt
  /\ \E f \in Images :
       LET tk == KillZombies(task)
           s == AllocTask(tk)
           new == [Blank EXCEPT !.user = TRUE, !.parent = cur, !.u = FreshContext(s, f)]
       IN  /\ Create(tk, s, new, Watching("shwait", {<<s, nextPid>>}), At("prompt"))
           /\ loaded' = IF f = Linked THEN loaded ELSE f
  /\ UNCHANGED cur

ShellWait == kpc[cur].at = "shwait" /\ WaitLoop(At("prompt"))

\* run_thread_test: create the threads, wait until all are done, kill_zombies().
ShellThreadTest ==
  /\ AtPrompt
  /\ GoTo([At("spawn") EXCEPT !.n = TestThreads])
  /\ UNCHANGED <<task, runq, cur, nextPid, loaded>>

ShellSpawn ==
  /\ kpc[cur].at = "spawn"
  /\ IF kpc[cur].n = 0
     THEN /\ GoTo([kpc[cur] EXCEPT !.at = "thwait"])
          /\ UNCHANGED <<task, runq, nextPid>>
     ELSE LET tk == KillZombies(task)
              s == AllocTask(tk)
              less == [kpc[cur] EXCEPT !.n = @ - 1]
          IN  Create(tk, s, Blank, [less EXCEPT !.on = @ \cup {<<s, nextPid>>}], less)
  /\ UNCHANGED <<cur, loaded>>

ThreadsWait ==
  /\ kpc[cur].at = "thwait"
  /\ IF \E w \in kpc[cur].on : Runnable(task, w[1])
     THEN Schedule(kpc[cur])
     ELSE /\ task' = KillZombies(task)
          /\ runq' = Unlinked(runq, task')
          /\ GoTo(At("prompt"))
          /\ UNCHANGED <<cur, nextPid, loaded>>

(***************************************************************************)
(* The specification.                                                      *)
(***************************************************************************)
KernelStep ==
  Start \/ KThread \/ Poll \/ WaitpidStep \/ TrapReturn
        \/ ShellWait \/ ShellSpawn \/ ThreadsWait

UserStep ==
  PlainTrap \/ SysPoll \/ SysWaitpid \/ SysExit \/ SysStop \/ SysKill
            \/ SysSignal \/ Sigreturn \/ SysExec \/ SysFork

ShellStep == ShellIdle \/ ShellRun \/ ShellThreadTest

Next == KernelStep \/ Tick \/ UserStep \/ ShellStep

Spec == Init /\ [][Next]_vars

\* Kernel code runs on, and a process in U-mode is interrupted by the timer again
\* and again: a tick that falls into kernel code stays pending until the sret.
FairSpec == Spec /\ WF_vars(KernelStep) /\ SF_vars(Tick)
=============================================================================
