----------------------------- MODULE ProcSafety -----------------------------
(***************************************************************************)
(* Proofs of what the process layer guarantees to processes, for every     *)
(* number of tasks, signals, images and pids: pids are unique, no signal   *)
(* is lost, handlers return to the context they interrupted, stacks are    *)
(* disjoint, and a wait ends on the task it was for.                       *)
(***************************************************************************)
EXTENDS ProcProofs

(***************************************************************************)
(* What a step can do to the task table.                                   *)
(***************************************************************************)
\* A runnable task changes its state and nothing else, and is not freed.
Moved(t) ==
  /\ Runnable(task, t) /\ task'[t].st \in {"runnable", "running", "zombie"}
  /\ task'[t] = [task[t] EXCEPT !.st = task'[t].st]

Reaped(t) == task[t].st = "zombie" /\ t # Idle /\ task'[t] = Blank

\* Tasks run, wait or end, and the zombies in `swept` may be freed.
Moves(swept) ==
  /\ nextPid' = nextPid
  /\ \A t \in Slots : task'[t] = task[t] \/ Moved(t) \/ (t \in swept /\ Reaped(t))

\* thread_create puts `new` into slot s, after the sweep.
Creates(swept, s, new) ==
  /\ nextPid' = Later(nextPid)
  /\ s \in Slots /\ s # Idle /\ s # cur
  /\ task[s].st = "unused" \/ (s \in swept /\ task[s].st = "zombie")
  /\ task'[s] = [new EXCEPT !.st = "runnable", !.pid = nextPid]
  /\ \A t \in Slots \ {s} : task'[t] = task[t] \/ (t \in swept /\ Reaped(t))

\* A signal or a system call changes the registers or the signals of t.
Changes(t, p) ==
  /\ nextPid' = nextPid
  /\ t \in Slots /\ Runnable(task, t) /\ task' = [task EXCEPT ![t] = p]
  /\ p.st = task[t].st /\ p.pid = task[t].pid /\ p.user = task[t].user
  /\ p.parent = task[t].parent

\* The zombies that kill_zombies frees.
Swept == {t \in Slots : ~(ParentAlive(task, t) /\ task[task[t].parent].user)}

Watched == {w[1] : w \in kpc[cur].on}

ShellTask(s, f) ==
  [Blank EXCEPT !.user = TRUE, !.parent = cur, !.u = FreshContext(s, f)]

ForkedTask(s) ==
  [Blank EXCEPT !.user = TRUE, !.parent = cur, !.hdl = task[cur].hdl,
                !.u = Translate(task[cur].u, cur, s)]

\* schedule() picks a runnable task.
LEMMA SchedulePicks ==
  ASSUME Inv
  PROVE  PickNext(runq, task, cur) \in Slots /\ Runnable(task, PickNext(runq, task, cur))
BY RingFacts DEF Ready

\* The task on the hart is one of the table, and runnable.
LEMMA CurRuns == Inv => cur \in Slots /\ Runnable(task, cur) /\ task \in [Slots -> Task]
  BY DEF Inv, TypeOK, RunQueueExact, Runnable

\* schedule() changes the states of two runnable tasks, and who runs on.
LEMMA ScheduleMoves ==
  ASSUME Inv, NEW k, Schedule(k)
  PROVE  /\ Moves({}) /\ cur' = PickNext(runq, task, cur) /\ kpc' = [kpc EXCEPT ![cur] = k]
         /\ \A t \in Slots : Runnable(task', t) <=> Runnable(task, t)
<1> DEFINE n == PickNext(runq, task, cur)
<1>1. n \in Slots /\ Runnable(task, n) /\ cur \in Slots /\ Runnable(task, cur)
      /\ task \in [Slots -> Task]
  BY SchedulePicks, CurRuns
<1>2. /\ task' = [t \in Slots |->
                   IF t = n THEN [task[t] EXCEPT !.st = "running"]
                   ELSE IF t = cur THEN [task[t] EXCEPT !.st = "runnable"]
                   ELSE task[t]]
      /\ cur' = n /\ kpc' = [kpc EXCEPT ![cur] = k] /\ nextPid' = nextPid
  BY DEF Schedule
<1> HIDE DEF n
<1>3. ASSUME NEW t \in Slots
      PROVE  /\ task'[t] = task[t] \/ Moved(t)
             /\ Runnable(task', t) <=> Runnable(task, t)
  <2>1. task[t] \in Task
    BY <1>1
  <2>2. CASE t = n
    <3>1. task'[t] = [task[t] EXCEPT !.st = "running"]
      BY <1>2, <2>2
    <3>2. task'[t].st = "running"
      BY <2>1, <3>1, StateFacts
    <3> QED BY <1>1, <2>2, <3>1, <3>2 DEF Moved, Runnable
  <2>3. CASE t # n /\ t = cur
    <3>1. task'[t] = [task[t] EXCEPT !.st = "runnable"]
      BY <1>2, <2>3
    <3>2. task'[t].st = "runnable"
      BY <2>1, <3>1, StateFacts
    <3> QED BY <1>1, <2>3, <3>1, <3>2 DEF Moved, Runnable
  <2>4. CASE t # n /\ t # cur
    <3>1. task'[t] = task[t]
      BY <1>2, <2>4
    <3> QED BY <3>1 DEF Runnable
  <2> QED BY <2>2, <2>3, <2>4
<1> QED BY <1>2, <1>3 DEF Moves, n

\* thread_exit() ends the caller and nobody else, and prefers a living parent.
LEMMA ExitMoves ==
  ASSUME Inv, ThreadExit
  PROVE  /\ Moves({}) /\ kpc' = [kpc EXCEPT ![cur] = At("dead")] /\ cur # Idle
         /\ cur' \in Slots /\ Runnable(task, cur') /\ cur' # cur
         /\ ParentAlive(task, cur) /\ task[cur].parent # cur => cur' = task[cur].parent
         /\ \A t \in Slots : Runnable(task', t) <=> Runnable(task, t) /\ t # cur
<1> DEFINE n == IF ExitTo = cur THEN Idle ELSE ExitTo
<1>0. cur \in Slots /\ Runnable(task, cur) /\ task \in [Slots -> Task] /\ Runnable(task, Idle)
  BY CurRuns DEF Inv, RunQueueExact
<1>1. ExitTo \in Slots /\ Runnable(task, ExitTo)
  <2>1. CASE ParentAlive(task, cur)
    <3>1. task[cur].parent \in Slots \cup {Nil}
      BY <1>0 DEF Task
    <3> QED BY <2>1, <3>1 DEF ParentAlive, ExitTo
  <2>2. CASE ~ParentAlive(task, cur)
    BY <2>2, SchedulePicks DEF ExitTo
  <2> QED BY <2>1, <2>2
<1>2. n \in Slots /\ n # cur /\ Runnable(task, n) /\ cur # Idle
  BY <1>0, <1>1, ConstantFacts DEF ThreadExit
<1>3. ParentAlive(task, cur) /\ task[cur].parent # cur => n = task[cur].parent
  BY DEF ExitTo
<1>4. /\ task' = [task EXCEPT ![cur].st = "zombie", ![n].st = "running"]
      /\ cur' = n /\ kpc' = [kpc EXCEPT ![cur] = At("dead")] /\ nextPid' = nextPid
  BY DEF ThreadExit
<1> HIDE DEF n
<1>5. ASSUME NEW t \in Slots
      PROVE  /\ task'[t] = task[t] \/ Moved(t)
             /\ Runnable(task', t) <=> Runnable(task, t) /\ t # cur
  <2>1. task[t] \in Task
    BY <1>0
  <2>2. CASE t = n
    <3>1. task'[t] = [task[t] EXCEPT !.st = "running"]
      BY <1>0, <1>2, <1>4, <2>2
    <3>2. task'[t].st = "running"
      BY <2>1, <3>1, StateFacts
    <3> QED BY <1>2, <2>2, <3>1, <3>2 DEF Moved, Runnable
  <2>3. CASE t = cur
    <3>1. task'[t] = [task[t] EXCEPT !.st = "zombie"]
      BY <1>0, <1>2, <1>4, <2>3
    <3>2. task'[t].st = "zombie"
      BY <2>1, <3>1, StateFacts
    <3> QED BY <1>0, <2>3, <3>1, <3>2 DEF Moved, Runnable
  <2>4. CASE t # n /\ t # cur
    <3>1. task'[t] = task[t]
      BY <1>0, <1>2, <1>4, <2>4
    <3> QED BY <2>4, <3>1 DEF Runnable
  <2> QED BY <2>2, <2>3, <2>4
<1>6. Moves({}) /\ \A t \in Slots : Runnable(task', t) <=> Runnable(task, t) /\ t # cur
  BY <1>4, <1>5 DEF Moves
<1> QED BY <1>2, <1>3, <1>4, <1>6

\* task_kill() of another task ends it and nobody else.
LEMMA TerminateMoves ==
  ASSUME Inv, NEW t \in Slots, Terminate(t), Runnable(task, t)
  PROVE  /\ Moves({}) /\ cur' = cur
         /\ kpc' = [kpc EXCEPT ![t] = At("dead"), ![cur] = At("trapret")]
         /\ \A x \in Slots : Runnable(task', x) <=> Runnable(task, x) /\ x # t
<1>1. task \in [Slots -> Task] /\ cur' = cur /\ nextPid' = nextPid
      /\ task' = [task EXCEPT ![t].st = "zombie"]
      /\ kpc' = [kpc EXCEPT ![t] = At("dead"), ![cur] = At("trapret")]
  BY CurRuns DEF Terminate
<1>2. ASSUME NEW x \in Slots
      PROVE  /\ task'[x] = task[x] \/ Moved(x)
             /\ Runnable(task', x) <=> Runnable(task, x) /\ x # t
  <2>1. task[x] \in Task
    BY <1>1
  <2>2. CASE x = t
    <3>1. task'[x] = [task[x] EXCEPT !.st = "zombie"]
      BY <1>1, <2>2
    <3>2. task'[x].st = "zombie"
      BY <2>1, <3>1, StateFacts
    <3> QED BY <2>2, <3>1, <3>2 DEF Moved, Runnable
  <2>3. CASE x # t
    <3>1. task'[x] = task[x]
      BY <1>1, <2>3
    <3> QED BY <2>3, <3>1 DEF Runnable
  <2> QED BY <2>2, <2>3
<1> QED BY <1>1, <1>2 DEF Moves

\* task_reap frees zombies, and nothing else.
LEMMA ReapMoves ==
  ASSUME Inv, NEW T
  PROVE  \A t \in Slots : \/ Reap(task, T)[t] = task[t]
                          \/ /\ t \in T /\ task[t].st = "zombie" /\ t # Idle
                             /\ Reap(task, T)[t] = Blank
BY DEF Reap

\* thread_create after its sweep: there was no slot, or `new` is in the table.
LEMMA CreateMoves ==
  ASSUME Inv, NEW new, NEW ok, NEW fail, NEW s, s = AllocTask(KillZombies(task)),
         Create(KillZombies(task), s, new, ok, fail)
  PROVE  \/ /\ s = Nil /\ Moves(Swept) /\ kpc' = [kpc EXCEPT ![cur] = fail]
         \/ /\ Creates(Swept, s, new)
            /\ kpc' = [kpc EXCEPT ![s] = At("new"), ![cur] = ok]
<1> DEFINE tk == KillZombies(task)
<1>1. tk \in [Slots -> Task] /\ \A t \in Slots : Runnable(tk, t) <=> Runnable(task, t)
  BY ReapFacts DEF KillZombies, Inv, TypeOK
<1>2. \A t \in Slots : \/ tk[t] = task[t]
                       \/ t \in Swept /\ task[t].st = "zombie" /\ t # Idle /\ tk[t] = Blank
  BY ReapMoves DEF KillZombies, Swept
<1> HIDE DEF tk
<1>3. Create(tk, s, new, ok, fail)
  BY DEF tk
<1>4. CASE s = Nil
  <2>1. task' = tk /\ nextPid' = nextPid /\ kpc' = [kpc EXCEPT ![cur] = fail]
    BY <1>3, <1>4 DEF Create
  <2> QED BY <1>2, <1>4, <2>1 DEF Moves, Reaped
<1>5. CASE s # Nil
  <2>1. /\ task' = [tk EXCEPT ![s] = [new EXCEPT !.st = "runnable", !.pid = nextPid]]
        /\ nextPid' = Later(nextPid) /\ kpc' = [kpc EXCEPT ![s] = At("new"), ![cur] = ok]
    BY <1>3, <1>5 DEF Create
  <2>2. s \in Slots /\ tk[s].st = "unused"
    BY <1>1, <1>5, AllocFacts DEF tk
  <2>3. task[s].st = "unused" \/ (s \in Swept /\ task[s].st = "zombie")
    BY <1>2, <2>2
  <2>4. s # Idle /\ s # cur
    BY <2>2, <2>3, CurRuns, ConstantFacts DEF Inv, RunQueueExact, Runnable
  <2>5. task'[s] = [new EXCEPT !.st = "runnable", !.pid = nextPid]
    BY <1>1, <2>1, <2>2
  <2>6. \A t \in Slots \ {s} : task'[t] = task[t] \/ (t \in Swept /\ Reaped(t))
    BY <1>1, <1>2, <2>1 DEF Reaped
  <2> QED BY <2>1, <2>2, <2>3, <2>4, <2>5, <2>6 DEF Creates
<1> QED BY <1>4, <1>5

\* A wait loop schedules or, when nothing it watches runs, frees what it watches.
LEMMA WaitLoopMoves ==
  ASSUME Inv, NEW k, WaitLoop(k)
  PROVE  \/ Schedule(kpc[cur]) /\ \E w \in kpc[cur].on : Runnable(task, w[1])
         \/ /\ ~\E w \in kpc[cur].on : Runnable(task, w[1])
            /\ Moves(Watched) /\ kpc' = [kpc EXCEPT ![cur] = k] /\ cur' = cur
<1>1. CASE \E w \in kpc[cur].on : Runnable(task, w[1])
  BY <1>1 DEF WaitLoop
<1>2. CASE ~\E w \in kpc[cur].on : Runnable(task, w[1])
  <2>1. /\ task' = Reap(task, Watched) /\ nextPid' = nextPid /\ cur' = cur
        /\ kpc' = [kpc EXCEPT ![cur] = k]
    BY <1>2 DEF WaitLoop, Watched, GoTo
  <2>2. Moves(Watched)
    BY <2>1, ReapMoves DEF Moves, Reaped
  <2> QED BY <1>2, <2>1, <2>2
<1> QED BY <1>1, <1>2

(***************************************************************************)
(* The kinds of steps, as far as task_structs and next_pid are concerned.  *)
(***************************************************************************)
\* Tasks are scheduled or end; or kill_zombies, or the end of a wait, frees tasks.
Lifecycle ==
  \/ Moves({})
  \/ Moves(Swept)
  \/ kpc[cur].at \in {"waitpid", "shwait"} /\ Moves(Watched)

\* A process is created by the shell, a thread by run_thread_test, or a process
\* by fork.
Creation ==
  \E s \in Slots :
    \/ \E f \in Images : Creates(Swept, s, ShellTask(s, f))
    \/ Creates(Swept, s, Blank)
    \/ Creates(Swept, s, ForkedTask(s)) /\ (HandlerForks \/ task[cur].u.mode = "main")

\* kill makes a signal pending.
Pended ==
  \E t \in Slots, sig \in Signals : Changes(t, [task[t] EXCEPT !.pend = @ \cup {sig}])

\* signal() sets or clears a handler.
Handles == \E h \in SUBSET Signals : Changes(cur, [task[cur] EXCEPT !.hdl = h])

\* sigreturn fails, or restores the saved context.
ReturnFails ==
  /\ task[cur].u.mode = "handler" /\ task[cur].handling = 0
  /\ Changes(cur, [task[cur] EXCEPT !.u.mode = "stuck"])

Returns ==
  /\ task[cur].u.mode = "handler" /\ task[cur].handling # 0
  /\ Changes(cur, [task[cur] EXCEPT !.u = task[cur].saved, !.saved = NoContext,
                                    !.handling = 0])

Replaced ==
  \E f \in Images :
    Changes(cur, [SignalInit(task[cur]) EXCEPT !.u = FreshContext(cur, f)])

Delivers ==
  \E sig \in Signals :
    /\ task[cur].handling = 0
    /\ Changes(cur, Delivered(task[cur], sig))

Kinds ==
  Lifecycle \/ Creation \/ Pended \/ Handles \/ ReturnFails \/ Returns \/ Replaced \/ Delivers

\* Moving tasks, with or without a sweep, is a lifecycle step.
LEMMA AnyMoves == Moves({}) \/ Moves(Swept) => Lifecycle
BY DEF Lifecycle

\* A step that leaves the table alone frees nothing.
LEMMA StillMoves == ASSUME UNCHANGED <<task, nextPid>> PROVE Moves({})
BY DEF Moves

\* The lifecycle steps of the actions that only schedule, wait or end.
LEMMA KernelKinds == ASSUME Inv, KernelStep PROVE Kinds
<1>1. CASE Start
  BY <1>1, StillMoves, AnyMoves DEF Start, Kinds
<1>2. CASE KThread
  BY <1>2, ScheduleMoves, ExitMoves, AnyMoves DEF KThread, Kinds
<1>3. CASE Poll
  BY <1>3, ScheduleMoves, StillMoves, AnyMoves DEF Poll, Kinds
<1>4. CASE WaitpidStep
  BY <1>4, WaitLoopMoves, ScheduleMoves, AnyMoves DEF WaitpidStep, Lifecycle, Kinds
<1>5. CASE TrapReturn
  <2>1. CASE task[cur].handling # 0 \/ task[cur].pend = {}
    BY <1>5, <2>1, StillMoves, AnyMoves DEF TrapReturn, Kinds
  <2>2. CASE /\ ~(task[cur].handling # 0 \/ task[cur].pend = {})
             /\ FirstPending(cur) \in task[cur].hdl
    <3> DEFINE sig == FirstPending(cur)
    <3>1. cur \in Slots /\ task[cur] \in Task /\ Runnable(task, cur)
      BY CurRuns
    <3>2. sig \in Signals
      BY <2>2, <3>1 DEF Task
    <3>3. task' = [task EXCEPT ![cur] = Delivered(task[cur], sig)] /\ nextPid' = nextPid
      BY <1>5, <2>2 DEF TrapReturn, Deliver
    <3> HIDE DEF sig
    <3> DEFINE p == Delivered(task[cur], sig)
    <3>4. /\ p.st = task[cur].st /\ p.pid = task[cur].pid
          /\ p.user = task[cur].user /\ p.parent = task[cur].parent
      BY <3>1 DEF Delivered, Task
    <3>5. Changes(cur, p)
      BY <3>1, <3>3, <3>4 DEF Changes
    <3> QED BY <2>2, <3>2, <3>5 DEF Delivers, Kinds
  <2>3. CASE /\ ~(task[cur].handling # 0 \/ task[cur].pend = {})
             /\ FirstPending(cur) \notin task[cur].hdl
    BY <1>5, <2>3, ExitMoves, AnyMoves DEF TrapReturn, Kinds
  <2> QED BY <2>1, <2>2, <2>3
<1>6. CASE ShellWait
  BY <1>6, WaitLoopMoves, ScheduleMoves, AnyMoves DEF ShellWait, Lifecycle, Kinds
<1>7. CASE ShellSpawn
  <2>1. CASE kpc[cur].n = 0
    BY <1>7, <2>1, StillMoves, AnyMoves DEF ShellSpawn, Kinds
  <2>2. CASE kpc[cur].n # 0
    <3>1. PICK s : s = AllocTask(KillZombies(task))
      OBVIOUS
    <3>2. \E ok, fail : Create(KillZombies(task), s, Blank, ok, fail)
      BY <1>7, <2>2, <3>1 DEF ShellSpawn
    <3>3. Moves(Swept) \/ Creates(Swept, s, Blank)
      BY <3>1, <3>2, CreateMoves
    <3>4. Creates(Swept, s, Blank) => Creation
      BY DEF Creates, Creation
    <3> QED BY <3>3, <3>4, AnyMoves DEF Kinds
  <2> QED BY <2>1, <2>2
<1>8. CASE ThreadsWait
  <2>1. CASE \E w \in kpc[cur].on : Runnable(task, w[1])
    BY <1>8, <2>1, ScheduleMoves, AnyMoves DEF ThreadsWait, Kinds
  <2>2. CASE ~\E w \in kpc[cur].on : Runnable(task, w[1])
    <3>1. task' = Reap(task, Swept) /\ nextPid' = nextPid
      BY <1>8, <2>2 DEF ThreadsWait, KillZombies, Swept
    <3>2. Moves(Swept)
      BY <3>1, ReapMoves DEF Moves, Reaped
    <3> QED BY <3>2, AnyMoves DEF Kinds
  <2> QED BY <2>1, <2>2
<1> QED BY <1>1, <1>2, <1>3, <1>4, <1>5, <1>6, <1>7, <1>8 DEF KernelStep

\* task_kill() of any task frees nothing.
LEMMA TaskKillMoves ==
  ASSUME Inv, NEW t \in Slots, Runnable(task, t), TaskKill(t)
  PROVE  Moves({})
BY ExitMoves, TerminateMoves DEF TaskKill

\* signal(), sigreturn and exec change the task_struct of the caller only.
LEMMA OwnKinds ==
  ASSUME Inv, SysSignal \/ Sigreturn \/ SysExec
  PROVE  Handles \/ ReturnFails \/ Returns \/ Replaced
<1>0. cur \in Slots /\ task[cur] \in Task /\ Runnable(task, cur) /\ task \in [Slots -> Task]
  BY CurRuns
<1>1. CASE SysSignal
  <2>1. PICK h \in SUBSET Signals :
          task' = [task EXCEPT ![cur] = [@ EXCEPT !.hdl = h]] /\ nextPid' = nextPid
    <3>1. PICK sig \in Signals, g \in SUBSET Signals :
            task' = [task EXCEPT ![cur].hdl = (@ \ {sig}) \cup g] /\ nextPid' = nextPid
      BY <1>1 DEF SysSignal
    <3>2. (task[cur].hdl \ {sig}) \cup g \in SUBSET Signals
      BY <1>0 DEF Task
    <3>3. task' = [task EXCEPT ![cur] = [@ EXCEPT !.hdl = (task[cur].hdl \ {sig}) \cup g]]
      BY <1>0, <3>1
    <3> QED BY <3>1, <3>2, <3>3
  <2> DEFINE p == [task[cur] EXCEPT !.hdl = h]
  <2>2. /\ p.st = task[cur].st /\ p.pid = task[cur].pid
        /\ p.user = task[cur].user /\ p.parent = task[cur].parent
    BY <1>0 DEF Task
  <2>3. Changes(cur, p)
    BY <1>0, <2>1, <2>2 DEF Changes
  <2> QED BY <2>3 DEF Handles
<1>2. CASE Sigreturn
  <2>1. task[cur].u.mode = "handler" /\ nextPid' = nextPid
    BY <1>2 DEF Sigreturn
  <2>2. CASE task[cur].handling = 0
    <3> DEFINE p == [task[cur] EXCEPT !.u.mode = "stuck"]
    <3>1. task' = [task EXCEPT ![cur] = p]
      BY <1>0, <1>2, <2>2 DEF Sigreturn
    <3>2. /\ p.st = task[cur].st /\ p.pid = task[cur].pid
          /\ p.user = task[cur].user /\ p.parent = task[cur].parent
      BY <1>0 DEF Task
    <3>3. Changes(cur, p)
      BY <1>0, <2>1, <3>1, <3>2 DEF Changes
    <3> QED BY <2>1, <2>2, <3>3 DEF ReturnFails
  <2>3. CASE task[cur].handling # 0
    <3> DEFINE p == [task[cur] EXCEPT !.u = task[cur].saved, !.saved = NoContext,
                                      !.handling = 0]
    <3>1. task' = [task EXCEPT ![cur] = p]
      BY <1>0, <1>2, <2>3 DEF Sigreturn
    <3>2. /\ p.st = task[cur].st /\ p.pid = task[cur].pid
          /\ p.user = task[cur].user /\ p.parent = task[cur].parent
      BY <1>0 DEF Task
    <3>3. Changes(cur, p)
      BY <1>0, <2>1, <3>1, <3>2 DEF Changes
    <3> QED BY <2>1, <2>3, <3>3 DEF Returns
  <2> QED BY <2>2, <2>3
<1>3. CASE SysExec
  <2>1. PICK f \in Images :
          /\ task' = [task EXCEPT ![cur] = [SignalInit(@) EXCEPT !.u = FreshContext(cur, f)]]
          /\ nextPid' = nextPid
    BY <1>3 DEF SysExec, Images
  <2> DEFINE p == [SignalInit(task[cur]) EXCEPT !.u = FreshContext(cur, f)]
  <2>2. task' = [task EXCEPT ![cur] = p]
    BY <1>0, <2>1
  <2>3. /\ p.st = task[cur].st /\ p.pid = task[cur].pid
        /\ p.user = task[cur].user /\ p.parent = task[cur].parent
    BY <1>0 DEF Task, SignalInit
  <2>4. Changes(cur, p)
    BY <1>0, <2>1, <2>2, <2>3 DEF Changes
  <2> QED BY <2>4 DEF Replaced
<1> QED BY <1>1, <1>2, <1>3

\* Every trap of a process is a step of one of the kinds.
LEMMA UserKinds == ASSUME Inv, Tick \/ UserStep PROVE Kinds
<1>0. cur \in Slots /\ task[cur] \in Task /\ Runnable(task, cur) /\ task \in [Slots -> Task]
  BY CurRuns
<1>1. CASE Tick
  BY <1>1, ScheduleMoves, AnyMoves DEF Tick, Kinds
<1>2. CASE PlainTrap \/ SysPoll \/ SysWaitpid
  BY <1>2, StillMoves, AnyMoves DEF PlainTrap, SysPoll, SysWaitpid, Kinds
<1>3. CASE SysExit
  BY <1>3, ExitMoves, AnyMoves DEF SysExit, Kinds
<1>4. CASE SysStop
  BY <1>4, TaskKillMoves, AnyMoves DEF SysStop, Kinds
<1>5. CASE SysKill
  <2>1. PICK t \in Slots, sig \in Signals :
          /\ Runnable(task, t)
          /\ IF sig \notin task[t].hdl
             THEN TaskKill(t)
             ELSE /\ task' = [task EXCEPT ![t].pend = @ \cup {sig}]
                  /\ nextPid' = nextPid
    BY <1>5 DEF SysKill
  <2>2. CASE sig \notin task[t].hdl
    BY <2>1, <2>2, TaskKillMoves, AnyMoves DEF Kinds
  <2>3. CASE sig \in task[t].hdl
    <3> DEFINE p == [task[t] EXCEPT !.pend = @ \cup {sig}]
    <3>1. task[t] \in Task /\ task' = [task EXCEPT ![t] = p] /\ nextPid' = nextPid
      BY <1>0, <2>1, <2>3
    <3>2. /\ p.st = task[t].st /\ p.pid = task[t].pid
          /\ p.user = task[t].user /\ p.parent = task[t].parent
      BY <3>1 DEF Task
    <3>3. Changes(t, p)
      BY <2>1, <3>1, <3>2 DEF Changes
    <3> QED BY <3>3 DEF Pended, Kinds
  <2> QED BY <2>2, <2>3
<1>6. CASE SysSignal \/ Sigreturn \/ SysExec
  BY <1>6, OwnKinds DEF Kinds
<1>7. CASE SysFork
  <2>1. PICK s : s = AllocTask(KillZombies(task))
    OBVIOUS
  <2>2. /\ Create(KillZombies(task), s, ForkedTask(s), At("trapret"), At("trapret"))
        /\ HandlerForks \/ task[cur].u.mode = "main"
    BY <1>7, <2>1 DEF SysFork, ForkedTask
  <2>3. Moves(Swept) \/ Creates(Swept, s, ForkedTask(s))
    BY <2>1, <2>2, CreateMoves
  <2>4. Creates(Swept, s, ForkedTask(s)) => Creation
    BY <2>2 DEF Creates, Creation
  <2> QED BY <2>3, <2>4, AnyMoves DEF Kinds
<1> QED BY <1>1, <1>2, <1>3, <1>4, <1>5, <1>6, <1>7 DEF UserStep

\* Every step of the process layer is of one of the kinds.
LEMMA StepKinds == ASSUME Inv, [Next]_vars PROVE Kinds
<1>1. CASE KernelStep
  BY <1>1, KernelKinds
<1>2. CASE Tick \/ UserStep
  BY <1>2, UserKinds
<1>3. CASE ShellRun
  <2>0. PICK s : s = AllocTask(KillZombies(task))
    OBVIOUS
  <2>1. PICK f \in Images :
          /\ s = AllocTask(KillZombies(task))
          /\ Create(KillZombies(task), s, ShellTask(s, f),
                    Watching("shwait", {<<s, nextPid>>}), At("prompt"))
    BY <1>3, <2>0 DEF ShellRun, ShellTask
  <2>2. Moves(Swept) \/ Creates(Swept, s, ShellTask(s, f))
    BY <2>1, CreateMoves
  <2>3. Creates(Swept, s, ShellTask(s, f)) => Creation
    BY DEF Creates, Creation
  <2> QED BY <2>2, <2>3, AnyMoves DEF Kinds
<1>4. CASE ShellIdle \/ ShellThreadTest \/ UNCHANGED vars
  BY <1>4, StillMoves, AnyMoves DEF ShellIdle, ShellThreadTest, vars, Kinds
<1> QED BY <1>1, <1>2, <1>3, <1>4 DEF Next, ShellStep

\* A task that a step changed, and did not create, keeps its pid and all the
\* step does not name, or is freed.
LEMMA ChangesFacts ==
  ASSUME NEW t, NEW p, Changes(t, p), task \in [Slots -> Task]
  PROVE  /\ nextPid' = nextPid /\ t \in Slots /\ Runnable(task, t) /\ task'[t] = p
         /\ p.st = task[t].st /\ p.pid = task[t].pid /\ p.user = task[t].user
         /\ p.parent = task[t].parent
         /\ \A x \in Slots \ {t} : task'[x] = task[x]
BY DEF Changes

(***************************************************************************)
(* Pids.                                                                   *)
(***************************************************************************)
\* What a step may do to the pid of a slot.
PidKept(t) ==
  task'[t].st = "unused" \/ (task[t].st # "unused" /\ task'[t].pid = task[t].pid)

PidBlank(t) == task'[t].pid = task[t].pid \/ task'[t].pid = -1

\* A step gives out one new pid or none; all others stay or go with their task.
LEMMA PidStep ==
  ASSUME Inv, Kinds
  PROVE  \/ nextPid' = nextPid /\ \A t \in Slots : PidKept(t) /\ PidBlank(t)
         \/ /\ nextPid' = Later(nextPid)
            /\ \E s \in Slots : /\ task'[s].pid = nextPid
                                /\ \A t \in Slots \ {s} : PidKept(t) /\ PidBlank(t)
<1>0. task \in [Slots -> Task] /\ \A t \in Slots : task[t] \in Task
  BY CurRuns
<1>1. ASSUME NEW t \in Slots, task'[t] = task[t] \/ Moved(t) \/ Reaped(t)
      PROVE  PidKept(t) /\ PidBlank(t)
  <2>1. CASE task'[t] = task[t]
    BY <2>1 DEF PidKept, PidBlank
  <2>2. CASE Moved(t)
    <3>1. task'[t].pid = task[t].pid /\ task[t].st # "unused"
      <4>1. task[t] \in Task
        BY <1>0
      <4>2. task'[t] = [task[t] EXCEPT !.st = task'[t].st] /\ Runnable(task, t)
        BY <2>2 DEF Moved
      <4>3. PICK st : st = task'[t].st
        OBVIOUS
      <4>4. [task[t] EXCEPT !.st = st].pid = task[t].pid
        BY <4>1 DEF Task
      <4> QED BY <4>2, <4>3, <4>4 DEF Runnable
    <3> QED BY <3>1 DEF PidKept, PidBlank
  <2>3. CASE Reaped(t)
    BY <2>3 DEF Reaped, Blank, PidKept, PidBlank
  <2> QED BY <1>1, <2>1, <2>2, <2>3
<1>2. CASE Lifecycle
  BY <1>1, <1>2 DEF Lifecycle, Moves
<1>3. ASSUME NEW s, NEW new, Creates(Swept, s, new), new \in Task
      PROVE  /\ nextPid' = Later(nextPid)
             /\ s \in Slots /\ task'[s].pid = nextPid
             /\ \A t \in Slots \ {s} : PidKept(t) /\ PidBlank(t)
  <2>1. task'[s] = [new EXCEPT !.st = "runnable", !.pid = nextPid]
    BY <1>3 DEF Creates
  <2>2. task'[s].pid = nextPid
    BY <1>3, <2>1 DEF Task
  <2> QED BY <1>1, <1>3, <2>2 DEF Creates
<1>4. CASE Creation
  <2>1. \A s \in Slots : /\ \A f \in Images : ShellTask(s, f) \in Task
                         /\ ForkedTask(s) \in Task
    BY NewTaskFacts DEF ShellTask, ForkedTask
  <2> QED BY <1>3, <1>4, <2>1, ConstantFacts DEF Creation
<1>5. ASSUME NEW t, NEW p, Changes(t, p)
      PROVE  nextPid' = nextPid /\ \A x \in Slots : PidKept(x) /\ PidBlank(x)
  BY <1>0, <1>5, ChangesFacts DEF PidKept, PidBlank, Runnable
<1>6. CASE Pended \/ Handles \/ ReturnFails \/ Returns \/ Replaced \/ Delivers
  BY <1>5, <1>6 DEF Pended, Handles, ReturnFails, Returns, Replaced, Delivers
<1> QED BY <1>2, <1>4, <1>6 DEF Kinds

\* The idle task alone has a pid at first.
LEMMA PidsInit == Init => PidsUnique
<1> SUFFICES ASSUME Init PROVE PidsUnique
  OBVIOUS
<1>1. \A t \in Slots : /\ task[t].st = IF t = Idle THEN "running" ELSE "unused"
                       /\ task[t].pid = IF t = Idle THEN 0 ELSE -1
  BY DEF Init, Blank
<1>2. nextPid = 1
  BY DEF Init
<1> QED BY <1>1, <1>2, ProcAssumption DEF PidsUnique, Used

\* No step gives a pid to two tasks.
LEMMA PidsNext == ASSUME Inv, PidsUnique, [Next]_vars PROVE PidsUnique'
<1>1. nextPid \in Nat /\ MaxPid \in Nat /\ \A t \in Slots : task[t].pid \in Int
  <2>1. \A t \in Slots : task[t] \in Task
    BY CurRuns
  <2> QED BY <2>1, ProcAssumption DEF Inv, TypeOK, Task
<1>2. /\ \A s, t \in Slots :
           /\ task[s].st # "unused" /\ task[t].st # "unused"
           /\ task[s].pid = task[t].pid /\ task[s].pid <= MaxPid
           => s = t
      /\ \A t \in Slots : nextPid <= MaxPid => task[t].pid < nextPid
  BY DEF PidsUnique, Used
<1>3. CASE nextPid' = nextPid /\ \A t \in Slots : PidKept(t) /\ PidBlank(t)
  <2>1. ASSUME NEW x \in Slots, NEW y \in Slots, task'[x].pid = task'[y].pid,
               task'[x].pid <= MaxPid, task'[x].st # "unused", task'[y].st # "unused"
        PROVE  x = y
    BY <1>2, <1>3, <2>1 DEF PidKept
  <2>2. \A t \in Slots : nextPid' <= MaxPid => task'[t].pid < nextPid'
    BY <1>1, <1>2, <1>3 DEF PidBlank
  <2> QED BY <2>1, <2>2 DEF PidsUnique, Used
<1>4. CASE /\ nextPid' = Later(nextPid)
           /\ \E s \in Slots : /\ task'[s].pid = nextPid
                               /\ \A t \in Slots \ {s} : PidKept(t) /\ PidBlank(t)
  <2>1. PICK s \in Slots : /\ task'[s].pid = nextPid
                           /\ \A t \in Slots \ {s} : PidKept(t) /\ PidBlank(t)
    BY <1>4
  <2>2. \A t \in Slots \ {s} : nextPid <= MaxPid => task'[t].pid < nextPid
    BY <1>1, <1>2, <2>1 DEF PidBlank
  <2>3. \A t \in Slots : nextPid' <= MaxPid => task'[t].pid < nextPid'
    <3>1. CASE nextPid > MaxPid
      BY <1>1, <1>4, <3>1 DEF Later
    <3>2. CASE nextPid <= MaxPid
      <4>1. nextPid' = nextPid + 1
        BY <1>1, <1>4, <3>2 DEF Later
      <4>2. ASSUME NEW t \in Slots \ {s} PROVE task'[t].pid < nextPid'
        <5>1. task'[t].pid = task[t].pid \/ task'[t].pid = -1
          BY <2>1 DEF PidBlank
        <5> QED BY <1>1, <2>2, <3>2, <4>1, <5>1
      <4> QED BY <1>1, <2>1, <4>1, <4>2
    <3> QED BY <1>1, <3>1, <3>2
  <2>4. ASSUME NEW x \in Slots, NEW y \in Slots, task'[x].pid = task'[y].pid,
               task'[x].pid <= MaxPid, task'[x].st # "unused", task'[y].st # "unused"
        PROVE  x = y
    <3>1. CASE x = s \/ y = s
      BY <1>1, <2>1, <2>2, <2>4, <3>1
    <3>2. CASE x # s /\ y # s
      BY <1>2, <2>1, <2>4, <3>2 DEF PidKept
    <3> QED BY <3>1, <3>2
  <2> QED BY <2>3, <2>4 DEF PidsUnique, Used
<1> QED BY <1>3, <1>4, StepKinds, PidStep

\* A pid never names two tasks: task_find_by_pid, and so kill, stop and waitpid,
\* finds the task that was given the pid or none.
THEOREM PidsAlwaysUnique == Spec => []PidsUnique
BY InitInv, NextInv, PidsInit, PidsNext, PTL DEF Spec

(***************************************************************************)
(* Signals.                                                                *)
(***************************************************************************)
\* What a task that a step does not name keeps: all but its state.
Kept(t) ==
  /\ Runnable(task, t)
  /\ task'[t].user = task[t].user /\ task'[t].pend = task[t].pend
  /\ task'[t].handling = task[t].handling
  /\ task'[t].u = task[t].u /\ task'[t].saved = task[t].saved

\* A task that is moved keeps its registers and signals; a freed one does not run.
LEMMA KeptFacts ==
  ASSUME Inv, NEW t \in Slots, task'[t] = task[t] \/ Moved(t) \/ Reaped(t)
  PROVE  Runnable(task', t) \/ Runnable(task, t) => Kept(t)
<1>1. task[t] \in Task
  BY CurRuns
<1>2. CASE task'[t] = task[t]
  BY <1>2 DEF Kept, Runnable
<1>3. CASE Moved(t)
  <2>1. PICK st : st = task'[t].st
    OBVIOUS
  <2>2. task'[t] = [task[t] EXCEPT !.st = st] /\ Runnable(task, t)
    BY <1>3, <2>1 DEF Moved
  <2> QED BY <1>1, <2>2 DEF Kept, Task
<1>4. CASE Reaped(t)
  BY <1>4 DEF Reaped, Runnable, Blank
<1> QED BY <1>2, <1>3, <1>4

\* A change of one task_struct keeps the others.
LEMMA OthersKept ==
  ASSUME Inv, NEW t, NEW p, Changes(t, p), NEW x \in Slots \ {t}
  PROVE  Runnable(task', x) \/ Runnable(task, x) => Kept(x)
BY ChangesFacts, KeptFacts, CurRuns

\* Scheduling, ending and freeing keep registers and signals.
LEMMA LifecycleKept ==
  ASSUME Inv, Lifecycle, NEW t \in Slots
  PROVE  Runnable(task', t) \/ Runnable(task, t) => Kept(t)
BY KeptFacts DEF Lifecycle, Moves

\* thread_create() keeps the tasks that run.
LEMMA CreatesKept ==
  ASSUME Inv, NEW s, NEW new, Creates(Swept, s, new), NEW t \in Slots \ {s}
  PROVE  Runnable(task', t) \/ Runnable(task, t) => Kept(t)
BY KeptFacts DEF Creates

\* The created task has what its creator put into the task_struct.
LEMMA NewKept ==
  ASSUME Inv, NEW s, NEW new \in Task, Creates(Swept, s, new)
  PROVE  /\ s \in Slots /\ ~Runnable(task, s)
         /\ task'[s].user = new.user /\ task'[s].handling = new.handling
         /\ task'[s].u = new.u /\ task'[s].saved = new.saved
<1>1. task'[s] = [new EXCEPT !.st = "runnable", !.pid = nextPid] /\ s \in Slots
  BY DEF Creates
<1>2. ~Runnable(task, s)
  BY DEF Creates, Runnable
<1> QED BY <1>1, <1>2 DEF Task

\* One step cannot make a pending signal of a process vanish.
LEMMA SignalsStep ==
  ASSUME Inv, [Next]_vars, NEW t \in Slots, NEW sig \in Signals,
         Runnable(task, t), sig \in task[t].pend, sig \notin task'[t].pend
  PROVE  \/ task'[t].handling = sig /\ task[t].handling = 0
         \/ t = cur /\ task'[t].hdl = {} /\ task'[t].u.mode = "main"
         \/ ~Runnable(task', t)
<1>0. task[t] \in Task /\ Kinds /\ cur \in Slots /\ ~Kept(t)
  BY CurRuns, StepKinds DEF Kept
<1>1. CASE Lifecycle
  BY <1>0, <1>1, LifecycleKept
<1>2. CASE Creation
  <2>1. PICK s, new : Creates(Swept, s, new)
    BY <1>2 DEF Creation
  <2>2. t # s
    BY <2>1 DEF Creates, Runnable
  <2> QED BY <1>0, <2>1, <2>2, CreatesKept
<1>3. CASE Pended
  <2>1. PICK x \in Slots, g \in Signals : Changes(x, [task[x] EXCEPT !.pend = @ \cup {g}])
    BY <1>3 DEF Pended
  <2>2. CASE x = t
    <3>1. task'[t] = [task[t] EXCEPT !.pend = @ \cup {g}]
      BY <2>1, <2>2, ChangesFacts, CurRuns
    <3> QED BY <1>0, <3>1 DEF Task
  <2>3. CASE x # t
    BY <1>0, <2>1, <2>3, OthersKept
  <2> QED BY <2>2, <2>3
<1>4. CASE Handles \/ ReturnFails \/ Returns
  <2>1. PICK p : Changes(cur, p) /\ p.pend = task[cur].pend
    <3>1. task[cur] \in Task
      BY CurRuns
    <3>2. CASE Handles
      <4>1. PICK h \in SUBSET Signals : Changes(cur, [task[cur] EXCEPT !.hdl = h])
        BY <3>2 DEF Handles
      <4>2. [task[cur] EXCEPT !.hdl = h].pend = task[cur].pend
        BY <3>1 DEF Task
      <4> QED BY <4>1, <4>2
    <3>3. CASE ReturnFails
      <4>1. [task[cur] EXCEPT !.u.mode = "stuck"].pend = task[cur].pend
        BY <3>1 DEF Task
      <4> QED BY <3>3, <4>1 DEF ReturnFails
    <3>4. CASE Returns
      <4> DEFINE p == [task[cur] EXCEPT !.u = task[cur].saved, !.saved = NoContext,
                                        !.handling = 0]
      <4>1. p.pend = task[cur].pend
        BY <3>1 DEF Task
      <4> QED BY <3>4, <4>1 DEF Returns
    <3> QED BY <1>4, <3>2, <3>3, <3>4
  <2>2. CASE t = cur
    BY <2>1, <2>2, ChangesFacts, CurRuns
  <2>3. CASE t # cur
    BY <1>0, <2>1, <2>3, OthersKept
  <2> QED BY <2>2, <2>3
<1>5. CASE Replaced
  <2>1. PICK f \in Images :
          Changes(cur, [SignalInit(task[cur]) EXCEPT !.u = FreshContext(cur, f)])
    BY <1>5 DEF Replaced
  <2>2. CASE t = cur
    <3>1. task'[t] = [SignalInit(task[t]) EXCEPT !.u = FreshContext(cur, f)]
      BY <2>1, <2>2, ChangesFacts, CurRuns
    <3>2. task'[t].hdl = {} /\ task'[t].u.mode = "main"
      BY <1>0, <3>1 DEF Task, SignalInit, FreshContext
    <3> QED BY <2>2, <3>2
  <2>3. CASE t # cur
    BY <1>0, <2>1, <2>3, OthersKept
  <2> QED BY <2>2, <2>3
<1>6. CASE Delivers
  <2>1. PICK g \in Signals : task[cur].handling = 0 /\ Changes(cur, Delivered(task[cur], g))
    BY <1>6 DEF Delivers
  <2>2. CASE t = cur
    <3>1. task'[t] = Delivered(task[t], g)
      BY <2>1, <2>2, ChangesFacts, CurRuns
    <3>2. task'[t].pend = task[t].pend \ {g} /\ task'[t].handling = g
      BY <1>0, <3>1 DEF Task, Delivered
    <3> QED BY <2>1, <2>2, <3>2
  <2>3. CASE t # cur
    BY <1>0, <2>1, <2>3, OthersKept
  <2> QED BY <2>2, <2>3
<1> QED BY <1>0, <1>1, <1>2, <1>3, <1>4, <1>5, <1>6 DEF Kinds

\* No pending signal of a process is lost: it goes when its handler starts, when
\* exec replaces the program, or with the process.
THEOREM SignalsAlwaysKept == Spec => SignalsKept
<1>1. Inv /\ [Next]_vars =>
        [\A t \in Slots, sig \in Signals :
           Runnable(task, t) /\ sig \in task[t].pend /\ sig \notin task'[t].pend =>
             \/ task'[t].handling = sig /\ task[t].handling = 0
             \/ t = cur /\ task'[t].hdl = {} /\ task'[t].u.mode = "main"
             \/ ~Runnable(task', t)]_vars
  BY SignalsStep
<1> QED BY InitInv, NextInv, <1>1, PTL DEF Spec, SignalsKept

(***************************************************************************)
(* What the registers of a process refer to, while handlers do not fork.   *)
(***************************************************************************)
\* A context of t uses the stacks of t; the program runs on the user stack.
OwnStack(c, t) ==
  /\ c.mode # "none" => c.of = t
  /\ c.mode = "main" => c.stack = "user"

\* handling_signal and signal_saved_tf say what the process executes.
Matches(p) ==
  /\ p.u.mode \in {"main", "handler"}
  /\ p.u.mode = "handler" <=> p.handling # 0
  /\ p.handling # 0 <=> p.saved.mode = "main"

ContextOK(t) ==
  Runnable(task, t) =>
    /\ OwnStack(task[t].u, t) /\ OwnStack(task[t].saved, t)
    /\ task[t].user => Matches(task[t])

ContextsOK == \A t \in Slots : ContextOK(t)

\* A task whose registers and signals stay keeps its contexts in order.
LEMMA KeptContext ==
  ASSUME NEW t \in Slots, ContextOK(t), Runnable(task', t) => Kept(t)
  PROVE  ContextOK(t)'
BY DEF ContextOK, Kept, OwnStack, Matches

\* The idle task has no user context.
LEMMA ContextsInit == Init => ContextsOK
<1> SUFFICES ASSUME Init, NEW t \in Slots, Runnable(task, t) PROVE ContextOK(t)
  BY DEF ContextsOK, ContextOK
<1>1. task[t] = IF t = Idle THEN [Blank EXCEPT !.pid = 0, !.st = "running"] ELSE Blank
  BY DEF Init
<1>2. task[t].u = NoContext /\ task[t].saved = NoContext /\ ~task[t].user
  BY <1>1 DEF Blank
<1>3. OwnStack(NoContext, t)
  BY DEF OwnStack, NoContext
<1> QED BY <1>2, <1>3 DEF ContextOK

\* While handlers do not fork, every step keeps the contexts in order.
LEMMA ContextsNext ==
  ASSUME Inv, ContextsOK, [Next]_vars, ~HandlerForks
  PROVE  ContextsOK'
<1> SUFFICES ASSUME NEW t \in Slots, Runnable(task', t) PROVE ContextOK(t)'
  BY DEF ContextsOK, ContextOK
<1>0. /\ task[t] \in Task /\ Kinds /\ ContextOK(t)
      /\ cur \in Slots /\ task[cur] \in Task /\ Runnable(task, cur) /\ ContextOK(cur)
  BY CurRuns, StepKinds DEF ContextsOK
<1>1. CASE Lifecycle
  BY <1>0, <1>1, LifecycleKept, KeptContext
<1>2. CASE Creation
  <2>1. PICK s \in Slots :
          \/ \E f \in Images : Creates(Swept, s, ShellTask(s, f))
          \/ Creates(Swept, s, Blank)
          \/ Creates(Swept, s, ForkedTask(s)) /\ task[cur].u.mode = "main"
    BY <1>2 DEF Creation
  <2>2. CASE t # s
    BY <1>0, <2>1, <2>2, CreatesKept, KeptContext
  <2>3. CASE t = s
    <3>1. PICK new \in Task :
            /\ Creates(Swept, s, new)
            /\ OwnStack(new.u, s) /\ OwnStack(new.saved, s)
            /\ new.user => Matches(new)
      <4>0. OwnStack(NoContext, s)
        BY DEF OwnStack, NoContext
      <4>1. ASSUME NEW f \in Images, Creates(Swept, s, ShellTask(s, f))
            PROVE  \E new \in Task :
                     /\ Creates(Swept, s, new)
                     /\ OwnStack(new.u, s) /\ OwnStack(new.saved, s)
                     /\ new.user => Matches(new)
        <5>1. ShellTask(s, f) \in Task
          BY NewTaskFacts DEF ShellTask
        <5>2. /\ ShellTask(s, f).u = FreshContext(s, f) /\ ShellTask(s, f).saved = NoContext
              /\ ShellTask(s, f).handling = 0
          BY DEF ShellTask, Blank
        <5>3. OwnStack(FreshContext(s, f), s) /\ FreshContext(s, f).mode = "main"
          BY DEF OwnStack, FreshContext
        <5>4. Matches(ShellTask(s, f))
          BY <5>2, <5>3 DEF Matches, NoContext
        <5> QED BY <4>0, <4>1, <5>1, <5>2, <5>3, <5>4
      <4>2. ASSUME Creates(Swept, s, Blank)
            PROVE  \E new \in Task :
                     /\ Creates(Swept, s, new)
                     /\ OwnStack(new.u, s) /\ OwnStack(new.saved, s)
                     /\ new.user => Matches(new)
        <5>1. Blank.u = NoContext /\ Blank.saved = NoContext /\ ~Blank.user
          BY DEF Blank
        <5> QED BY <4>0, <4>2, <5>1, ConstantFacts
      <4>3. ASSUME Creates(Swept, s, ForkedTask(s)), task[cur].u.mode = "main"
            PROVE  \E new \in Task :
                     /\ Creates(Swept, s, new)
                     /\ OwnStack(new.u, s) /\ OwnStack(new.saved, s)
                     /\ new.user => Matches(new)
        <5>1. ForkedTask(s) \in Task
          BY NewTaskFacts DEF ForkedTask
        <5>2. /\ ForkedTask(s).u = Translate(task[cur].u, cur, s)
              /\ ForkedTask(s).saved = NoContext /\ ForkedTask(s).handling = 0
          BY DEF ForkedTask, Blank
        <5>3. task[cur].u.of = cur /\ task[cur].u.stack = "user" /\ task[cur].u \in Context
          BY <1>0, <4>3 DEF ContextOK, OwnStack, Task
        <5>4. /\ OwnStack(Translate(task[cur].u, cur, s), s)
              /\ Translate(task[cur].u, cur, s).mode = "main"
          BY <4>3, <5>3 DEF OwnStack, Translate, Context
        <5>5. Matches(ForkedTask(s))
          BY <5>2, <5>4 DEF Matches, NoContext
        <5> QED BY <4>0, <4>3, <5>1, <5>2, <5>4, <5>5
      <4> QED BY <2>1, <4>1, <4>2, <4>3
    <3>2. /\ task'[s].user = new.user /\ task'[s].handling = new.handling
          /\ task'[s].u = new.u /\ task'[s].saved = new.saved
      BY <3>1, NewKept
    <3> QED BY <2>3, <3>1, <3>2 DEF ContextOK, Matches
  <2> QED BY <2>2, <2>3
<1>3. CASE Pended
  <2>1. PICK x \in Slots, g \in Signals : Changes(x, [task[x] EXCEPT !.pend = @ \cup {g}])
    BY <1>3 DEF Pended
  <2>2. CASE x = t
    <3>1. task'[t] = [task[t] EXCEPT !.pend = @ \cup {g}] /\ Runnable(task, t)
      BY <2>1, <2>2, ChangesFacts, CurRuns
    <3>2. /\ task'[t].user = task[t].user /\ task'[t].handling = task[t].handling
          /\ task'[t].u = task[t].u /\ task'[t].saved = task[t].saved
      BY <1>0, <3>1 DEF Task
    <3> QED BY <1>0, <3>1, <3>2 DEF ContextOK, Matches
  <2>3. CASE x # t
    BY <1>0, <2>1, <2>3, OthersKept, KeptContext
  <2> QED BY <2>2, <2>3
\* The other kinds of steps change the running task; p is what it becomes.
<1>4. ASSUME NEW p, Changes(cur, p),
             OwnStack(p.u, cur), OwnStack(p.saved, cur), p.user => Matches(p)
      PROVE  ContextOK(t)'
  <2>1. CASE t = cur
    <3>1. task'[t] = p
      BY <1>4, <2>1, ChangesFacts, CurRuns
    <3> QED BY <1>4, <2>1, <3>1 DEF ContextOK
  <2>2. CASE t # cur
    BY <1>0, <1>4, <2>2, OthersKept, KeptContext
  <2> QED BY <2>1, <2>2
<1>5. /\ OwnStack(task[cur].u, cur) /\ OwnStack(task[cur].saved, cur)
      /\ task[cur].user => Matches(task[cur])
  BY <1>0 DEF ContextOK
<1>6. CASE Handles
  <2>1. PICK h \in SUBSET Signals : Changes(cur, [task[cur] EXCEPT !.hdl = h])
    BY <1>6 DEF Handles
  <2> DEFINE p == [task[cur] EXCEPT !.hdl = h]
  <2>2. /\ p.user = task[cur].user /\ p.handling = task[cur].handling
        /\ p.u = task[cur].u /\ p.saved = task[cur].saved
    BY <1>0 DEF Task
  <2>3. Changes(cur, p)
    BY <2>1
  <2> HIDE DEF p
  <2> QED BY <1>4, <1>5, <2>2, <2>3 DEF Matches
<1>7. CASE ReturnFails
  <2> DEFINE p == [task[cur] EXCEPT !.u.mode = "stuck"]
  <2>1. /\ p.user = task[cur].user /\ p.saved = task[cur].saved
        /\ p.u = [task[cur].u EXCEPT !.mode = "stuck"]
    BY <1>0 DEF Task
  <2>2. OwnStack(p.u, cur)
    <3>1. task[cur].u \in Context /\ task[cur].u.mode = "handler"
      BY <1>0, <1>7 DEF Task, ReturnFails
    <3> QED BY <1>5, <2>1, <3>1 DEF OwnStack, Context
  <2>3. ~task[cur].user
    BY <1>5, <1>7 DEF Matches, ReturnFails
  <2>4. Changes(cur, p)
    BY <1>7 DEF ReturnFails
  <2> HIDE DEF p
  <2> QED BY <1>4, <1>5, <2>1, <2>2, <2>3, <2>4
<1>8. CASE Returns
  <2> DEFINE p == [task[cur] EXCEPT !.u = task[cur].saved, !.saved = NoContext,
                                    !.handling = 0]
  <2>1. /\ p.user = task[cur].user /\ p.u = task[cur].saved
        /\ p.saved = NoContext /\ p.handling = 0
    BY <1>0 DEF Task
  <2>2. OwnStack(NoContext, cur)
    BY DEF OwnStack, NoContext
  <2>3. p.user => Matches(p)
    BY <1>5, <1>8, <2>1 DEF Matches, NoContext, Returns
  <2>4. Changes(cur, p)
    BY <1>8 DEF Returns
  <2> HIDE DEF p
  <2> QED BY <1>4, <1>5, <2>1, <2>2, <2>3, <2>4
<1>9. CASE Replaced
  <2>1. PICK f \in Images :
          Changes(cur, [SignalInit(task[cur]) EXCEPT !.u = FreshContext(cur, f)])
    BY <1>9 DEF Replaced
  <2> DEFINE p == [SignalInit(task[cur]) EXCEPT !.u = FreshContext(cur, f)]
  <2>2. p.u = FreshContext(cur, f) /\ p.saved = NoContext /\ p.handling = 0
    BY <1>0 DEF Task, SignalInit
  <2>3. OwnStack(p.u, cur) /\ OwnStack(p.saved, cur) /\ Matches(p)
    BY <2>2 DEF OwnStack, Matches, FreshContext, NoContext
  <2>4. Changes(cur, p)
    BY <2>1
  <2> HIDE DEF p
  <2> QED BY <1>4, <2>3, <2>4
<1>10. CASE Delivers
  <2>1. PICK g \in Signals : task[cur].handling = 0 /\ Changes(cur, Delivered(task[cur], g))
    BY <1>10 DEF Delivers
  <2> DEFINE p == Delivered(task[cur], g)
  <2>2. /\ p.u = HandlerContextOf(task[cur]) /\ p.saved = task[cur].u
        /\ p.handling = g /\ p.user = task[cur].user
    BY <1>0 DEF Task, Delivered
  <2>3. g # 0
    BY ProcAssumption
  <2>4. OwnStack(p.u, cur)
    BY <2>2 DEF OwnStack, HandlerContextOf
  <2>5. p.user => Matches(p)
    BY <1>5, <2>1, <2>2, <2>3 DEF Matches, HandlerContextOf
  <2>6. Changes(cur, p)
    BY <2>1
  <2> HIDE DEF p
  <2> QED BY <1>4, <1>5, <2>2, <2>4, <2>5, <2>6
<1> QED BY <1>0, <1>1, <1>2, <1>3, <1>6, <1>7, <1>8, <1>9, <1>10 DEF Kinds

\* Contexts in order means handlers that can return, and disjoint stacks.
LEMMA ContextsFacts == ContextsOK => HandlerContext /\ StacksDisjoint
<1> SUFFICES ASSUME ContextsOK PROVE HandlerContext /\ StacksDisjoint
  OBVIOUS
<1>1. HandlerContext
  BY DEF ContextsOK, ContextOK, Matches, HandlerContext
<1>2. ASSUME NEW t \in Slots, Runnable(task, t), NEW x \in StacksOf(t)
      PROVE  x[2] = t
  <2>1. PICK c \in {task[t].u, task[t].saved} : c.mode # "none" /\ x = <<c.stack, c.of>>
    BY <1>2 DEF StacksOf
  <2>2. OwnStack(c, t)
    BY <1>2, <2>1 DEF ContextsOK, ContextOK
  <2> QED BY <2>1, <2>2 DEF OwnStack
<1>3. StacksDisjoint
  BY <1>2 DEF StacksDisjoint
<1> QED BY <1>1, <1>3

\* While handlers do not fork, the contexts are always in order.
LEMMA ContextsAlways == ASSUME ~HandlerForks PROVE Spec => []ContextsOK
<1>1. Inv /\ ContextsOK /\ [Next]_vars => ContextsOK'
  BY ContextsNext
<1> QED BY InitInv, NextInv, ContextsInit, <1>1, PTL DEF Spec

\* While handlers do not fork, a process runs a handler exactly while a main
\* context is saved, so that the sigreturn of a handler never fails.
THEOREM HandlersReturn == ASSUME ~HandlerForks PROVE Spec => []HandlerContext
BY ContextsAlways, ContextsFacts, PTL

\* While handlers do not fork, no two live processes have a stack in common.
THEOREM StacksAlwaysDisjoint == ASSUME ~HandlerForks PROVE Spec => []StacksDisjoint
BY ContextsAlways, ContextsFacts, PTL

(***************************************************************************)
(* Waiting.  The programs end none but themselves and their own children   *)
(* here: a task that another one terminates does not hand the hart to its  *)
(* parent, and kill_zombies may free it before the shell looks.            *)
(***************************************************************************)
UserPoints == {"user", "trapret", "waitpid", "poll"}
ShellPoints == {"prompt", "shwait", "spawn", "thwait"}

\* What t waits for at waitpid is its own child, the one it was told to wait for.
OwnChild(t, w) ==
  /\ w[1] \in Slots /\ task[w[1]].st # "unused"
  /\ task[w[1]].pid = w[2] /\ task[w[1]].parent = t

\* What the shell waits for runs, or has just ended and handed it the hart.
ShellChild(t, w) ==
  /\ OwnChild(t, w)
  /\ Runnable(task, w[1]) \/ (task[w[1]].st = "zombie" /\ cur = t)

WaitOK(t) ==
  /\ kpc[t].at # "dead" => Runnable(task, t)
  /\ kpc[t].at \in UserPoints => task[t].user
  /\ kpc[t].at \in ShellPoints <=> t = Idle
  /\ kpc[t].at = "waitpid" => \A w \in kpc[t].on : OwnChild(t, w)
  /\ kpc[t].at = "shwait" => \E w : kpc[t].on = {w} /\ ShellChild(t, w)

WaitsOK == ~task[Idle].user /\ \A t \in Slots : WaitOK(t)

WaitInv == Inv /\ WaitsOK

\* The slot still holds the same task.
SameHolder(t) ==
  /\ task'[t].st # "unused" /\ task'[t].pid = task[t].pid
  /\ task'[t].user = task[t].user /\ task'[t].parent = task[t].parent

\* A task that is left alone or moved stays in its slot.
LEMMA SameHolderFacts ==
  ASSUME Inv, NEW t \in Slots, task[t].st # "unused", task'[t] = task[t] \/ Moved(t)
  PROVE  SameHolder(t)
<1>1. task[t] \in Task
  BY CurRuns
<1>2. CASE task'[t] = task[t]
  BY <1>2 DEF SameHolder
<1>3. CASE Moved(t)
  <2>1. PICK st : st = task'[t].st
    OBVIOUS
  <2>2. /\ task'[t] = [task[t] EXCEPT !.st = st] /\ st \in {"runnable", "running", "zombie"}
    BY <1>3, <2>1 DEF Moved
  <2> QED BY <1>1, <2>2 DEF SameHolder, Task
<1> QED BY <1>2, <1>3

\* A used slot that is not swept keeps its task.
LEMMA MovesHolder ==
  ASSUME Inv, NEW T, Moves(T), NEW t \in Slots, task[t].st # "unused",
         t \notin T \/ Runnable(task, t)
  PROVE  SameHolder(t)
BY SameHolderFacts DEF Moves, Reaped, Runnable

\* thread_create() leaves every used slot that it does not sweep to its task.
LEMMA CreatesHolder ==
  ASSUME Inv, NEW T, NEW s, NEW new, Creates(T, s, new), NEW t \in Slots,
         task[t].st # "unused", t \notin T \/ Runnable(task, t)
  PROVE  SameHolder(t)
<1>1. t # s
  BY DEF Creates, Runnable
<1> QED BY <1>1, SameHolderFacts DEF Creates, Reaped, Runnable

\* A change of signals or registers leaves every slot to its task.
LEMMA ChangesHolder ==
  ASSUME Inv, NEW x, NEW p, Changes(x, p), NEW t \in Slots, task[t].st # "unused"
  PROVE  SameHolder(t) /\ (Runnable(task', t) <=> Runnable(task, t))
BY ChangesFacts, CurRuns DEF SameHolder, Runnable

\* The continuation of a task is right after a step that leaves it, and what it
\* waits for, alone.
LEMMA WaitKept ==
  ASSUME NEW t \in Slots, WaitOK(t),
         kpc'[t].at = kpc[t].at, kpc'[t].on = kpc[t].on,
         kpc[t].at # "dead" => Runnable(task', t) /\ SameHolder(t),
         kpc[t].at = "waitpid" => \A w \in kpc[t].on : SameHolder(w[1]),
         kpc[t].at = "shwait" =>
           \A w \in kpc[t].on : /\ SameHolder(w[1])
                                /\ \/ Runnable(task', w[1])
                                   \/ task'[w[1]].st = "zombie" /\ cur' = t
  PROVE  WaitOK(t)'
<1>1. kpc[t].at \in UserPoints => task'[t].user
  BY DEF WaitOK, SameHolder, UserPoints
<1>2. kpc[t].at = "waitpid" => \A w \in kpc[t].on : OwnChild(t, w)'
  BY DEF WaitOK, OwnChild, SameHolder
<1>3. kpc[t].at = "shwait" => \E w : kpc[t].on = {w} /\ ShellChild(t, w)'
  <2> SUFFICES ASSUME kpc[t].at = "shwait"
               PROVE  \E w : kpc[t].on = {w} /\ ShellChild(t, w)'
    OBVIOUS
  <2>1. PICK w : kpc[t].on = {w} /\ ShellChild(t, w)
    BY DEF WaitOK
  <2>2. OwnChild(t, w)'
    BY <2>1 DEF ShellChild, OwnChild, SameHolder
  <2> QED BY <2>1, <2>2 DEF ShellChild
<1> QED BY <1>1, <1>2, <1>3 DEF WaitOK

\* A process that runs on, or leaves a trap.
LEMMA WaitsForNone ==
  ASSUME NEW t \in Slots, t # Idle, kpc'[t].at \in {"user", "trapret", "poll"},
         Runnable(task', t), task'[t].user
  PROVE  WaitOK(t)'
BY DEF WaitOK, ShellPoints

\* A task that has ended, or has not run yet, or is a kernel thread.
LEMMA WaitsNot ==
  ASSUME NEW t \in Slots, t # Idle, kpc'[t].at \in {"dead", "new", "kthread"},
         kpc'[t].at # "dead" => Runnable(task', t)
  PROVE  WaitOK(t)'
BY DEF WaitOK, ShellPoints, UserPoints

\* The shell, when it does not wait for a program.
LEMMA ShellFree ==
  ASSUME kpc'[Idle].at \in {"prompt", "spawn", "thwait"}, Runnable(task', Idle)
  PROVE  WaitOK(Idle)'
BY DEF WaitOK, ShellPoints, UserPoints

\* At first the shell is at its prompt and nobody waits.
LEMMA WaitsInit == Init => WaitsOK
<1> SUFFICES ASSUME Init PROVE WaitsOK
  OBVIOUS
<1>1. \A t \in Slots :
        task[t] = IF t = Idle THEN [Blank EXCEPT !.pid = 0, !.st = "running"] ELSE Blank
  BY DEF Init
<1>2. ~task[Idle].user /\ Runnable(task, Idle)
  BY <1>1, ConstantFacts DEF Blank, Runnable
<1>3. \A t \in Slots : kpc[t].at = IF t = Idle THEN "prompt" ELSE "dead"
  BY DEF Init, At
<1> QED BY <1>2, <1>3 DEF WaitsOK, WaitOK, UserPoints, ShellPoints

\* Only the running task goes on at another point.
LEMMA ContinuesAt ==
  ASSUME Inv, NEW k, kpc' = [kpc EXCEPT ![cur] = k]
  PROVE  kpc'[cur] = k /\ \A t \in Slots \ {cur} : kpc'[t] = kpc[t]
BY DEF Inv, TypeOK

\* The running task runs, is the idle task exactly when it is at a point of the
\* shell, and belongs to the user at the points of a trap.
LEMMA CurWaits ==
  ASSUME WaitInv
  PROVE  /\ cur \in Slots /\ Runnable(task, cur) /\ WaitOK(cur)
         /\ kpc[cur].at \in ShellPoints <=> cur = Idle
         /\ kpc[cur].at \in UserPoints => task[cur].user
BY CurRuns DEF WaitInv, WaitsOK, WaitOK

\* The shell's child runs while another task than the shell does.
LEMMA ShellChildRuns ==
  ASSUME WaitsOK, cur # Idle, kpc[Idle].at = "shwait", NEW w \in kpc[Idle].on, WaitOK(Idle)
  PROVE  OwnChild(Idle, w) /\ Runnable(task, w[1])
BY DEF WaitOK, ShellChild

\* schedule(), from a loop that goes on waiting or at the timer interrupt.
LEMMA ScheduleWaits ==
  ASSUME WaitInv, NEW k, Schedule(k),
         \/ k.at = kpc[cur].at /\ k.on = kpc[cur].on
         \/ kpc[cur].at \in {"user", "poll"} /\ k.at \in {"trapret", "poll"},
         kpc[cur].at = "shwait" => \E w \in kpc[cur].on : Runnable(task, w[1])
  PROVE  WaitsOK'
<1>0. Inv /\ WaitsOK
  BY DEF WaitInv
<1> PICK me : me = cur
  OBVIOUS
<1>1. /\ Moves({}) /\ kpc' = [kpc EXCEPT ![cur] = k]
      /\ \A t \in Slots : Runnable(task', t) <=> Runnable(task, t)
  BY <1>0, ScheduleMoves
<1>2. \A t \in Slots : task[t].st # "unused" => SameHolder(t)
  BY <1>0, <1>1, MovesHolder
<1>3. kpc'[cur] = k /\ \A t \in Slots \ {cur} : kpc'[t] = kpc[t]
  BY <1>0, <1>1, ContinuesAt
<1>4. ASSUME NEW t \in Slots, kpc'[t].at = kpc[t].at, kpc'[t].on = kpc[t].on
      PROVE  WaitOK(t)'
  <2>1. WaitOK(t)
    BY <1>0 DEF WaitsOK
  <2>2. kpc[t].at # "dead" => Runnable(task', t) /\ SameHolder(t)
    BY <1>1, <1>2, <2>1 DEF WaitOK, Runnable
  <2>3. kpc[t].at = "waitpid" => \A w \in kpc[t].on : SameHolder(w[1])
    BY <1>2, <2>1 DEF WaitOK, OwnChild
  <2>4. ASSUME kpc[t].at = "shwait", NEW w \in kpc[t].on
        PROVE  SameHolder(w[1]) /\ Runnable(task', w[1])
    <3>1. OwnChild(t, w) /\ Runnable(task, w[1])
      BY <1>0, <2>1, <2>4, CurWaits DEF WaitOK, ShellChild
    <3> QED BY <1>1, <1>2, <3>1 DEF OwnChild
  <2> QED BY <1>4, <2>1, <2>2, <2>3, <2>4, WaitKept
<1>5. WaitOK(me)'
  <2>1. CASE k.at = kpc[cur].at /\ k.on = kpc[cur].on
    BY <1>3, <1>4, <2>1, CurWaits
  <2>2. CASE kpc[cur].at \in {"user", "poll"} /\ k.at \in {"trapret", "poll"}
    <3>1. cur # Idle /\ task[cur].user /\ Runnable(task, cur) /\ cur \in Slots
      BY <2>2, CurWaits DEF ShellPoints, UserPoints
    <3>2. task'[cur].user /\ Runnable(task', cur)
      BY <1>1, <1>2, <3>1 DEF SameHolder, Runnable
    <3> QED BY <1>3, <2>2, <3>1, <3>2, WaitsForNone
  <2> QED BY <2>1, <2>2
<1>6. \A t \in Slots : WaitOK(t)'
  BY <1>3, <1>4, <1>5
<1>7. ~task'[Idle].user
  BY <1>0, <1>2, ConstantFacts DEF WaitsOK, Inv, RunQueueExact, SameHolder, Runnable
<1> QED BY <1>6, <1>7 DEF WaitsOK

\* thread_exit() hands the hart to the shell if the shell waits for the task.
LEMMA ExitWaits ==
  ASSUME WaitInv, ThreadExit
  PROVE  WaitsOK'
<1>0. Inv /\ WaitsOK
  BY DEF WaitInv
<1> PICK me : me = cur
  OBVIOUS
<1>1. /\ Moves({}) /\ kpc' = [kpc EXCEPT ![cur] = At("dead")] /\ cur # Idle /\ cur \in Slots
      /\ ParentAlive(task, cur) /\ task[cur].parent # cur => cur' = task[cur].parent
      /\ \A t \in Slots : Runnable(task', t) <=> Runnable(task, t) /\ t # cur
  BY <1>0, ExitMoves, CurRuns
<1>2. \A t \in Slots : task[t].st # "unused" => SameHolder(t)
  BY <1>0, <1>1, MovesHolder
<1>3. kpc'[cur] = At("dead") /\ \A t \in Slots \ {cur} : kpc'[t] = kpc[t]
  BY <1>0, <1>1, ContinuesAt
<1>4. ASSUME NEW t \in Slots \ {cur}
      PROVE  WaitOK(t)'
  <2>1. WaitOK(t)
    BY <1>0 DEF WaitsOK
  <2>2. kpc[t].at # "dead" => Runnable(task', t) /\ SameHolder(t)
    BY <1>1, <1>2, <2>1 DEF WaitOK, Runnable
  <2>3. kpc[t].at = "waitpid" => \A w \in kpc[t].on : SameHolder(w[1])
    BY <1>2, <2>1 DEF WaitOK, OwnChild
  <2>4. ASSUME kpc[t].at = "shwait", NEW w \in kpc[t].on
        PROVE  SameHolder(w[1])
               /\ (Runnable(task', w[1]) \/ (task'[w[1]].st = "zombie" /\ cur' = t))
    <3>1. t = Idle
      BY <2>1, <2>4 DEF WaitOK, ShellPoints
    <3>2. OwnChild(t, w) /\ Runnable(task, w[1])
      BY <1>0, <1>1, <2>1, <2>4, <3>1, ShellChildRuns
    <3>3. SameHolder(w[1]) /\ w[1] \in Slots
      BY <1>2, <3>2 DEF OwnChild
    <3>4. CASE w[1] # cur
      BY <1>1, <3>2, <3>3, <3>4
    <3>5. CASE w[1] = cur
      <4>1. task[cur].parent = Idle /\ Runnable(task, Idle) /\ Idle # Nil
        BY <1>0, <3>1, <3>2, <3>5 DEF OwnChild, Inv, RunQueueExact, Idle, Nil
      <4>2. cur' = Idle
        BY <1>1, <4>1 DEF ParentAlive
      <4>3. Moved(cur) \/ task'[cur] = task[cur]
        BY <1>1 DEF Moves
      <4>4. ~Runnable(task', cur) /\ Runnable(task, cur)
        BY <1>1, <3>2, <3>5
      <4>5. task'[cur].st = "zombie"
        BY <4>3, <4>4 DEF Moved, Runnable
      <4> QED BY <3>1, <3>3, <3>5, <4>2, <4>5
    <3> QED BY <3>4, <3>5
  <2> QED BY <1>3, <2>1, <2>2, <2>3, <2>4, WaitKept
<1>5. WaitOK(me)'
  BY <1>1, <1>3, WaitsNot DEF At
<1>7. ~task'[Idle].user
  BY <1>0, <1>2, ConstantFacts DEF WaitsOK, Inv, RunQueueExact, SameHolder, Runnable
<1> QED BY <1>4, <1>5, <1>7 DEF WaitsOK

\* task_kill() of another task, by a process, spares the children of the shell.
LEMMA TerminateWaits ==
  ASSUME WaitInv, NEW x \in Slots, x # cur, x # Idle, Terminate(x), Runnable(task, x),
         kpc[cur].at = "user", task[x].parent # Idle
  PROVE  WaitsOK'
<1>0. Inv /\ WaitsOK
  BY DEF WaitInv
<1> PICK me : me = cur
  OBVIOUS
<1>1. /\ Moves({}) /\ cur' = cur
      /\ kpc' = [kpc EXCEPT ![x] = At("dead"), ![cur] = At("trapret")]
      /\ \A t \in Slots : Runnable(task', t) <=> Runnable(task, t) /\ t # x
  BY <1>0, TerminateMoves
<1>2. \A t \in Slots : task[t].st # "unused" => SameHolder(t)
  BY <1>0, <1>1, MovesHolder
<1>3. /\ kpc'[x] = At("dead") /\ kpc'[cur] = At("trapret")
      /\ \A t \in Slots \ {x, cur} : kpc'[t] = kpc[t]
  BY <1>0, <1>1, CurRuns DEF Inv, TypeOK
<1>4. cur # Idle /\ cur \in Slots /\ task[cur].user /\ Runnable(task, cur)
  BY CurWaits DEF UserPoints, ShellPoints
<1>5. ASSUME NEW t \in Slots \ {x, cur}
      PROVE  WaitOK(t)'
  <2>1. WaitOK(t)
    BY <1>0 DEF WaitsOK
  <2>2. kpc[t].at # "dead" => Runnable(task', t) /\ SameHolder(t)
    BY <1>1, <1>2, <2>1 DEF WaitOK, Runnable
  <2>3. kpc[t].at = "waitpid" => \A w \in kpc[t].on : SameHolder(w[1])
    BY <1>2, <2>1 DEF WaitOK, OwnChild
  <2>4. ASSUME kpc[t].at = "shwait", NEW w \in kpc[t].on
        PROVE  SameHolder(w[1]) /\ Runnable(task', w[1])
    <3>1. t = Idle
      BY <2>1, <2>4 DEF WaitOK, ShellPoints
    <3>2. OwnChild(t, w) /\ Runnable(task, w[1])
      BY <1>0, <1>4, <2>1, <2>4, <3>1, ShellChildRuns
    <3> QED BY <1>1, <1>2, <3>1, <3>2 DEF OwnChild
  <2> QED BY <1>3, <2>1, <2>2, <2>3, <2>4, WaitKept
<1>6. WaitOK(x)'
  BY <1>3, WaitsNot DEF At
<1>7. WaitOK(me)'
  <2>1. task'[cur].user /\ Runnable(task', cur)
    BY <1>1, <1>2, <1>4 DEF SameHolder, Runnable
  <2> QED BY <1>3, <1>4, <2>1, WaitsForNone DEF At
<1>8. ~task'[Idle].user
  BY <1>0, <1>2, ConstantFacts DEF WaitsOK, Inv, RunQueueExact, SameHolder, Runnable
<1> QED BY <1>5, <1>6, <1>7, <1>8 DEF WaitsOK

\* A step in which the hart stays where it is, no task ends, and no zombie is
\* freed whose living parent, a user process, is another task than this one.
Spares ==
  /\ cur' = cur
  /\ \A t \in Slots : Runnable(task, t) => Runnable(task', t) /\ SameHolder(t)
  /\ \A t \in Slots :
       /\ task[t].st # "unused" /\ ParentAlive(task, t)
       /\ task[task[t].parent].user /\ task[t].parent # cur
       => SameHolder(t)

\* A change of signals or registers, or of nothing, frees no task.
LEMMA ChangesSpare ==
  ASSUME Inv, cur' = cur, (\E t, p : Changes(t, p)) \/ UNCHANGED <<task, nextPid>>
  PROVE  Spares
<1>1. ASSUME NEW t \in Slots, task[t].st # "unused"
      PROVE  SameHolder(t) /\ (Runnable(task', t) <=> Runnable(task, t))
  BY <1>1, ChangesHolder DEF SameHolder, Runnable
<1> QED BY <1>1 DEF Spares, Runnable

\* A sweep that frees orphans and own children only spares the others.
LEMMA MovesSpare ==
  ASSUME Inv, NEW T, Moves(T), cur' = cur,
         \A t \in Slots : Runnable(task, t) => Runnable(task', t),
         \A t \in T \cap Slots : ParentAlive(task, t) /\ task[task[t].parent].user =>
                                   task[t].parent = cur
  PROVE  Spares
<1>1. \A t \in Slots : Runnable(task, t) => SameHolder(t)
  BY MovesHolder DEF Runnable
<1>2. ASSUME NEW t \in Slots, task[t].st # "unused", t \notin T PROVE SameHolder(t)
  BY <1>2, MovesHolder
<1> QED BY <1>1, <1>2 DEF Spares

\* kill_zombies spares the children of living user processes.
LEMMA SweptFacts ==
  \A t \in Swept \cap Slots : ~(ParentAlive(task, t) /\ task[task[t].parent].user)
BY DEF Swept

\* thread_create() that finds no slot has swept, and spared, as well.
LEMMA SweepSpares ==
  ASSUME Inv, NEW s, s = AllocTask(KillZombies(task)), s = Nil, NEW new, NEW ok, NEW fail,
         Create(KillZombies(task), s, new, ok, fail), Moves(Swept), cur' = cur
  PROVE  Spares
<1>1. task' = KillZombies(task)
  BY DEF Create
<1>2. \A t \in Slots : Runnable(task', t) <=> Runnable(task, t)
  BY <1>1, ReapFacts DEF KillZombies, Inv, TypeOK
<1> QED BY <1>2, MovesSpare, SweptFacts

\* thread_create() spares the children of living processes.
LEMMA CreatesSpare ==
  ASSUME Inv, NEW s, NEW new, Creates(Swept, s, new), cur' = cur
  PROVE  Spares
<1>0. s \in Slots /\ ~Runnable(task, s)
  BY DEF Creates, Runnable
<1>1. \A t \in Slots : Runnable(task, t) => SameHolder(t)
  BY CreatesHolder DEF Runnable
<1>2. ASSUME NEW t \in Slots, Runnable(task, t) PROVE Runnable(task', t)
  BY <1>0, <1>2 DEF Creates, Reaped, Runnable
<1>3. ASSUME NEW t \in Slots, task[t].st # "unused", t \notin Swept PROVE SameHolder(t)
  BY <1>3, CreatesHolder
<1> QED BY <1>1, <1>2, <1>3, SweptFacts DEF Spares

\* A task that does not run waits on rightly after such a step.
LEMMA SparesWaits ==
  ASSUME WaitInv, Spares, NEW t \in Slots, t # cur, kpc'[t] = kpc[t]
  PROVE  WaitOK(t)'
<1>0. Inv /\ WaitsOK /\ WaitOK(t)
  BY DEF WaitInv, WaitsOK
<1>1. kpc[t].at # "dead" => Runnable(task', t) /\ SameHolder(t)
  BY <1>0 DEF Spares, WaitOK
<1>2. ASSUME kpc[t].at = "waitpid", NEW w \in kpc[t].on
      PROVE  SameHolder(w[1])
  <2>1. OwnChild(t, w) /\ Runnable(task, t) /\ task[t].user
    BY <1>0, <1>2 DEF WaitOK, UserPoints
  <2>2. t # Nil
    BY ConstantFacts DEF Nil
  <2> QED BY <2>1, <2>2 DEF OwnChild, ParentAlive, Spares
<1>3. ASSUME kpc[t].at = "shwait", NEW w \in kpc[t].on
      PROVE  SameHolder(w[1]) /\ Runnable(task', w[1])
  <2>1. t = Idle
    BY <1>0, <1>3 DEF WaitOK, ShellPoints
  <2>2. OwnChild(t, w) /\ Runnable(task, w[1])
    BY <1>0, <1>3, <2>1, ShellChildRuns
  <2> QED BY <2>2 DEF OwnChild, Spares
<1> QED BY <1>0, <1>1, <1>2, <1>3, WaitKept

\* The idle task is the shell's before and after.
LEMMA SparesIdle == ASSUME WaitInv, Spares PROVE ~task'[Idle].user
BY ConstantFacts DEF WaitInv, WaitsOK, Inv, RunQueueExact, Spares, SameHolder

\* A process goes on in a trap or in U-mode, without a wait.
LEMMA ProcessWaits ==
  ASSUME WaitInv, Spares, NEW k, kpc' = [kpc EXCEPT ![cur] = k],
         kpc[cur].at \in UserPoints, k.at \in {"user", "trapret", "poll"}
  PROVE  WaitsOK'
<1> PICK me : me = cur
  OBVIOUS
<1>1. kpc'[me] = k /\ \A t \in Slots \ {me} : kpc'[t] = kpc[t]
  BY ContinuesAt DEF WaitInv
<1>2. me \in Slots /\ me # Idle /\ task[me].user /\ Runnable(task, me)
  BY CurWaits DEF UserPoints, ShellPoints
<1>3. task'[me].user /\ Runnable(task', me)
  BY <1>2 DEF Spares, SameHolder
<1>4. WaitOK(me)'
  BY <1>1, <1>2, <1>3, WaitsForNone
<1> QED BY <1>1, <1>4, SparesWaits, SparesIdle DEF WaitsOK

\* The shell goes on to a point at which it waits for no program.
LEMMA ShellWaits ==
  ASSUME WaitInv, Spares, NEW k, kpc' = [kpc EXCEPT ![cur] = k],
         kpc[cur].at \in ShellPoints, k.at \in {"prompt", "spawn", "thwait"}
  PROVE  WaitsOK'
<1>1. kpc'[cur] = k /\ \A t \in Slots \ {cur} : kpc'[t] = kpc[t]
  BY ContinuesAt DEF WaitInv
<1>2. cur = Idle /\ Runnable(task, Idle)
  BY CurWaits
<1>3. Runnable(task', Idle)
  BY <1>2, ConstantFacts DEF Spares
<1>4. WaitOK(Idle)'
  BY <1>1, <1>2, <1>3, ShellFree
<1> QED BY <1>1, <1>2, <1>4, SparesWaits, SparesIdle DEF WaitsOK

\* thread_create() by a process or by the shell; the creator goes on at k.
LEMMA CreateOthers ==
  ASSUME WaitInv, NEW s, NEW new \in Task, Creates(Swept, s, new), cur' = cur, NEW k,
         kpc' = [kpc EXCEPT ![s] = At("new"), ![cur] = k]
  PROVE  /\ Spares /\ kpc'[cur] = k
         /\ \A t \in Slots : t # cur => WaitOK(t)'
<1>0. Inv
  BY DEF WaitInv
<1>1. Spares /\ s \in Slots /\ s # cur /\ s # Idle
  BY <1>0, CreatesSpare DEF Creates
<1>2. /\ kpc'[cur] = k /\ kpc'[s] = At("new")
      /\ \A t \in Slots \ {s, cur} : kpc'[t] = kpc[t]
  BY <1>0, <1>1, CurRuns DEF Inv, TypeOK
<1>3. WaitOK(s)'
  <2>1. Runnable(task', s)
    <3>1. PICK q : q = [new EXCEPT !.st = "runnable", !.pid = nextPid]
      OBVIOUS
    <3>2. q.st = "runnable"
      BY <3>1 DEF Task
    <3> QED BY <3>1, <3>2 DEF Creates, Runnable
  <2>2. kpc'[s].at = "new"
    BY <1>2 DEF At
  <2> QED BY <1>1, <2>1, <2>2, WaitsNot
<1>4. ASSUME NEW t \in Slots, t # cur, t # s PROVE WaitOK(t)'
  BY <1>1, <1>2, <1>4, SparesWaits
<1> QED BY <1>1, <1>2, <1>3, <1>4

\* The end of a wait for tasks frees the waiting task's own children only.
LEMMA WatchedFacts ==
  ASSUME WaitInv, kpc[cur].at \in {"waitpid", "shwait"}, NEW x \in Watched
  PROVE  x \in Slots /\ task[x].parent = cur /\ task[x].st # "unused"
<1>1. WaitOK(cur)
  BY CurWaits
<1>2. PICK w \in kpc[cur].on : x = w[1]
  BY DEF Watched
<1>3. OwnChild(cur, w)
  BY <1>1 DEF WaitOK, ShellChild
<1> QED BY <1>2, <1>3 DEF OwnChild

\* A turn of the loop of waitpid, or of the shell's, keeps every wait right.
LEMMA WaitLoopWaits ==
  ASSUME WaitInv, NEW k, WaitLoop(k),
         \/ kpc[cur].at = "waitpid" /\ k.at = "trapret"
         \/ kpc[cur].at = "shwait" /\ k.at = "prompt"
  PROVE  WaitsOK'
<1>0. Inv
  BY DEF WaitInv
<1>1. CASE Schedule(kpc[cur]) /\ \E w \in kpc[cur].on : Runnable(task, w[1])
  BY <1>1, ScheduleWaits
<1>2. CASE /\ ~\E w \in kpc[cur].on : Runnable(task, w[1])
           /\ Moves(Watched) /\ kpc' = [kpc EXCEPT ![cur] = k] /\ cur' = cur
  <2>1. \A t \in Slots : t \in Watched => ~Runnable(task, t) /\ task[t].parent = cur
    BY <1>2, WatchedFacts DEF Watched
  <2>2. ASSUME NEW t \in Slots, Runnable(task, t) PROVE Runnable(task', t)
    <3>1. t \notin Watched
      BY <2>1, <2>2
    <3>2. Moved(t) \/ task'[t] = task[t]
      BY <1>2, <3>1 DEF Moves
    <3>3. CASE task'[t] = task[t]
      BY <2>2, <3>3 DEF Runnable
    <3>4. CASE Moved(t)
      <4>1. task' = Reap(task, Watched)
        BY <1>2 DEF WaitLoop, Watched
      <4>2. task'[t] = task[t]
        BY <2>2, <3>1, <4>1 DEF Reap
      <4> QED BY <2>2, <4>2 DEF Runnable
    <3> QED BY <3>2, <3>3, <3>4
  <2>3. Spares
    BY <1>0, <1>2, <2>1, <2>2, MovesSpare
  <2> QED BY <1>2, <2>3, ProcessWaits, ShellWaits DEF UserPoints, ShellPoints
<1> QED BY <1>0, <1>1, <1>2, WaitLoopMoves

\* run_thread_test creates a thread, or fails to.
LEMMA ShellCreates ==
  ASSUME WaitInv, NEW s, s = AllocTask(KillZombies(task)), NEW new \in Task, NEW ok, NEW fail,
         Create(KillZombies(task), s, new, ok, fail), cur' = cur,
         kpc[cur].at \in ShellPoints,
         ok.at \in {"prompt", "spawn", "thwait"}, fail.at \in {"prompt", "spawn", "thwait"}
  PROVE  WaitsOK'
<1>0. Inv
  BY DEF WaitInv
<1>1. CASE s = Nil /\ Moves(Swept) /\ kpc' = [kpc EXCEPT ![cur] = fail]
  <2>1. Spares
    BY <1>0, <1>1, SweepSpares
  <2> QED BY <1>1, <2>1, ShellWaits
<1>2. CASE Creates(Swept, s, new) /\ kpc' = [kpc EXCEPT ![s] = At("new"), ![cur] = ok]
  <2>1. /\ Spares /\ kpc'[cur] = ok
        /\ \A t \in Slots : t # cur => WaitOK(t)'
    BY <1>2, CreateOthers
  <2>2. cur = Idle /\ Runnable(task, Idle)
    BY CurWaits
  <2>3. Runnable(task', Idle)
    BY <2>1, <2>2, ConstantFacts DEF Spares
  <2>4. WaitOK(Idle)'
    BY <2>1, <2>2, <2>3, ShellFree
  <2> QED BY <2>1, <2>2, <2>4, SparesIdle DEF WaitsOK
<1> QED BY <1>0, <1>1, <1>2, CreateMoves

\* A step that changes nothing keeps every wait right.
LEMMA StutterWaits == ASSUME WaitsOK, UNCHANGED vars PROVE WaitsOK'
BY DEF vars, WaitsOK, WaitOK, OwnChild, ShellChild, Runnable

\* Kernel code that continues keeps every wait right.
LEMMA KernelWaits == ASSUME WaitInv, KernelStep PROVE WaitsOK'
<1>0. Inv /\ WaitOK(cur) /\ cur \in Slots /\ kpc[cur] \in Continuation
  BY CurWaits DEF WaitInv, Inv, TypeOK
<1>1. CASE Start
  <2> PICK me : me = cur
    OBVIOUS
  <2>1. Spares
    BY <1>0, <1>1, ChangesSpare DEF Start
  <2>2. /\ kpc'[me] = IF task[me].user THEN At("user") ELSE [At("kthread") EXCEPT !.n = Rounds]
        /\ \A t \in Slots \ {me} : kpc'[t] = kpc[t]
    BY <1>0, <1>1, ContinuesAt DEF Start
  <2>3. me # Idle /\ me \in Slots /\ Runnable(task, me)
    BY <1>1, CurWaits DEF Start, ShellPoints
  <2>4. Runnable(task', me) /\ task'[me].user = task[me].user
    BY <2>1, <2>3 DEF Spares, SameHolder
  <2>5. WaitOK(me)'
    <3>1. CASE task[me].user
      <4>1. kpc'[me].at = "user"
        BY <2>2, <3>1 DEF At
      <4> QED BY <2>3, <2>4, <3>1, <4>1, WaitsForNone
    <3>2. CASE ~task[me].user
      <4>1. [At("kthread") EXCEPT !.n = Rounds].at = "kthread"
        BY DEF At
      <4>2. kpc'[me].at = "kthread"
        BY <2>2, <3>2, <4>1
      <4> QED BY <2>3, <2>4, <4>2, WaitsNot
    <3> QED BY <3>1, <3>2
  <2> QED BY <2>1, <2>2, <2>5, SparesWaits, SparesIdle DEF WaitsOK
<1>2. CASE KThread
  <2>1. CASE kpc[cur].n > 0
    <3> DEFINE k == [kpc[cur] EXCEPT !.n = @ - 1]
    <3>1. k.at = kpc[cur].at /\ k.on = kpc[cur].on
      BY <1>0 DEF Continuation
    <3>2. Schedule(k) /\ kpc[cur].at # "shwait"
      BY <1>2, <2>1 DEF KThread
    <3> HIDE DEF k
    <3> QED BY <3>1, <3>2, ScheduleWaits
  <2>2. CASE ~(kpc[cur].n > 0)
    BY <1>2, <2>2, ExitWaits DEF KThread
  <2> QED BY <2>1, <2>2
<1>3. CASE Poll
  <2>1. CASE Schedule(At("poll"))
    <3>1. At("poll").at = "poll" /\ kpc[cur].at = "poll"
      BY <1>3 DEF Poll, At
    <3> QED BY <2>1, <3>1, ScheduleWaits
  <2>2. CASE GoTo(At("trapret")) /\ UNCHANGED <<task, runq, cur, nextPid, loaded>>
    BY <1>0, <1>3, <2>2, ChangesSpare, ProcessWaits DEF Poll, GoTo, At, UserPoints
  <2> QED BY <1>3, <2>1, <2>2 DEF Poll
<1>4. CASE WaitpidStep
  BY <1>4, WaitLoopWaits DEF WaitpidStep, At
<1>5. CASE TrapReturn
  <2>1. CASE task[cur].handling # 0 \/ task[cur].pend = {}
    BY <1>0, <1>5, <2>1, ChangesSpare, ProcessWaits DEF TrapReturn, GoTo, At, UserPoints
  <2>2. CASE /\ ~(task[cur].handling # 0 \/ task[cur].pend = {})
             /\ FirstPending(cur) \in task[cur].hdl
    <3>1. PICK sig : sig = FirstPending(cur)
      OBVIOUS
    <3>2. /\ task' = [task EXCEPT ![cur] = Delivered(task[cur], sig)] /\ nextPid' = nextPid
          /\ kpc' = [kpc EXCEPT ![cur] = At("user")] /\ cur' = cur /\ kpc[cur].at = "trapret"
      BY <1>5, <2>2, <3>1 DEF TrapReturn, Deliver, GoTo
    <3> DEFINE p == Delivered(task[cur], sig)
    <3>3. task[cur] \in Task /\ Runnable(task, cur)
      BY <1>0, CurRuns
    <3>4. /\ p.st = task[cur].st /\ p.pid = task[cur].pid
          /\ p.user = task[cur].user /\ p.parent = task[cur].parent
      BY <3>3 DEF Delivered, Task
    <3>5. Changes(cur, p)
      BY <1>0, <3>2, <3>3, <3>4 DEF Changes
    <3>6. Spares
      BY <1>0, <3>2, <3>5, ChangesSpare
    <3> QED BY <3>2, <3>6, ProcessWaits DEF At, UserPoints
  <2>3. CASE /\ ~(task[cur].handling # 0 \/ task[cur].pend = {})
             /\ FirstPending(cur) \notin task[cur].hdl
    BY <1>5, <2>3, ExitWaits DEF TrapReturn
  <2> QED BY <2>1, <2>2, <2>3
<1>6. CASE ShellWait
  BY <1>6, WaitLoopWaits DEF ShellWait, At
<1>7. CASE ShellSpawn
  <2>1. CASE kpc[cur].n = 0
    <3> DEFINE k == [kpc[cur] EXCEPT !.at = "thwait"]
    <3>1. k.at = "thwait" /\ kpc[cur].at = "spawn"
      BY <1>0, <1>7 DEF Continuation, ShellSpawn
    <3>2. kpc' = [kpc EXCEPT ![cur] = k] /\ UNCHANGED <<task, nextPid, cur>>
      BY <1>7, <2>1 DEF ShellSpawn, GoTo
    <3> HIDE DEF k
    <3> QED BY <1>0, <3>1, <3>2, ChangesSpare, ShellWaits DEF ShellPoints
  <2>2. CASE kpc[cur].n # 0
    <3>1. PICK s, less, ok :
            /\ s = AllocTask(KillZombies(task))
            /\ less = [kpc[cur] EXCEPT !.n = @ - 1]
            /\ ok = [less EXCEPT !.on = @ \cup {<<s, nextPid>>}]
      OBVIOUS
    <3>2. less.at = "spawn" /\ ok.at = "spawn" /\ kpc[cur].at = "spawn"
      BY <1>0, <1>7, <3>1 DEF Continuation, ShellSpawn
    <3>3. Create(KillZombies(task), s, Blank, ok, less) /\ cur' = cur
      BY <1>7, <2>2, <3>1 DEF ShellSpawn
    <3>4. kpc[cur].at \in ShellPoints /\ Blank \in Task
      BY <3>2, ConstantFacts DEF ShellPoints
    <3> QED BY <3>1, <3>2, <3>3, <3>4, ShellCreates
  <2> QED BY <2>1, <2>2
<1>8. CASE ThreadsWait
  <2>1. CASE \E w \in kpc[cur].on : Runnable(task, w[1])
    BY <1>8, <2>1, ScheduleWaits DEF ThreadsWait
  <2>2. CASE ~\E w \in kpc[cur].on : Runnable(task, w[1])
    <3>1. /\ task' = KillZombies(task) /\ task' = Reap(task, Swept) /\ nextPid' = nextPid
          /\ cur' = cur /\ kpc' = [kpc EXCEPT ![cur] = At("prompt")] /\ kpc[cur].at = "thwait"
      BY <1>8, <2>2 DEF ThreadsWait, KillZombies, Swept, GoTo
    <3>2. Moves(Swept)
      BY <1>0, <3>1, ReapMoves DEF Moves, Reaped
    <3>3. \A t \in Slots : Runnable(task', t) <=> Runnable(task, t)
      BY <1>0, <3>1, ReapFacts DEF Inv, TypeOK
    <3>4. Spares
      BY <1>0, <3>1, <3>2, <3>3, MovesSpare, SweptFacts
    <3> QED BY <3>1, <3>4, ShellWaits DEF At, ShellPoints
  <2> QED BY <2>1, <2>2
<1> QED BY <1>1, <1>2, <1>3, <1>4, <1>5, <1>6, <1>7, <1>8 DEF KernelStep

\* What the programs stop or kill, when they end none but themselves and their
\* own children.
LEMMA KillWaits ==
  ASSUME WaitInv, NEW t \in Slots, Runnable(task, t), TaskKill(t),
         kpc[cur].at = "user", task[t].parent = cur \/ t = cur
  PROVE  WaitsOK'
<1>1. cur # Idle
  BY CurWaits DEF ShellPoints
<1>2. CASE t = cur
  BY <1>2, ExitWaits DEF TaskKill
<1>3. CASE t # cur
  BY <1>1, <1>3, TerminateWaits DEF TaskKill
<1> QED BY <1>2, <1>3

\* The traps of processes that end no others keep every wait right.
LEMMA UserWaits == ASSUME WaitInv, ~EndsOthers, Tick \/ UserStep PROVE WaitsOK'
<1>0. Inv /\ WaitOK(cur) /\ cur \in Slots /\ task[cur] \in Task /\ At("trapret").at = "trapret"
  BY CurWaits, CurRuns DEF WaitInv, At
<1>1. CASE Tick
  <2>1. Schedule(At("trapret")) /\ kpc[cur].at = "user"
    BY <1>1 DEF Tick
  <2> QED BY <1>0, <2>1, ScheduleWaits
<1>2. CASE PlainTrap \/ SysPoll
  <2>1. PICK k : /\ kpc' = [kpc EXCEPT ![cur] = k] /\ k.at \in {"trapret", "poll"}
                 /\ kpc[cur].at = "user" /\ UNCHANGED <<task, nextPid, cur>>
    <3>1. At("poll").at = "poll"
      BY DEF At
    <3> QED BY <1>0, <1>2, <3>1 DEF PlainTrap, SysPoll, GoTo, Issues, InUser
  <2>2. Spares
    BY <1>0, <2>1, ChangesSpare
  <2>3. kpc[cur].at \in UserPoints
    BY <2>1 DEF UserPoints
  <2> QED BY <2>1, <2>2, <2>3, ProcessWaits
<1>3. CASE SysWaitpid
  <2> PICK me : me = cur
    OBVIOUS
  <2>1. PICK t \in Slots :
          /\ task[t].st # "unused" /\ task[t].parent = me
          /\ kpc' = [kpc EXCEPT ![me] = Watching("waitpid", {<<t, task[t].pid>>})]
    BY <1>3 DEF SysWaitpid, GoTo
  <2> PICK k : k = Watching("waitpid", {<<t, task[t].pid>>})
    OBVIOUS
  <2>2. kpc[me].at = "user" /\ UNCHANGED <<task, nextPid, cur>>
    BY <1>3 DEF SysWaitpid, Issues, InUser
  <2>3. Spares
    BY <1>0, <2>2, ChangesSpare
  <2>4. kpc'[me] = k /\ \A x \in Slots \ {me} : kpc'[x] = kpc[x]
    BY <1>0, <2>1, ContinuesAt
  <2>5. me # Idle /\ me \in Slots /\ task[me].user /\ Runnable(task, me)
    BY <2>2, CurWaits DEF UserPoints, ShellPoints
  <2>6. k.at = "waitpid" /\ k.on = {<<t, task[t].pid>>}
    BY DEF Watching
  <2>7. \A w \in k.on : OwnChild(me, w)'
    <3>1. \A w \in k.on : w[1] = t /\ w[2] = task[t].pid
      BY <2>6
    <3> QED BY <2>1, <2>2, <3>1 DEF OwnChild
  <2>8. WaitOK(me)'
    <3>1. Runnable(task', me) /\ task'[me].user
      BY <2>2, <2>5
    <3>2. kpc'[me].at = "waitpid" /\ \A w \in kpc'[me].on : OwnChild(me, w)'
      BY <2>4, <2>6, <2>7
    <3> QED BY <2>5, <3>1, <3>2 DEF WaitOK, ShellPoints
  <2> QED BY <2>3, <2>4, <2>8, SparesWaits, SparesIdle DEF WaitsOK
<1>4. CASE SysExit
  BY <1>4, ExitWaits DEF SysExit
<1>5. CASE SysStop
  <2>1. PICK t \in Slots : /\ Runnable(task, t) /\ TaskKill(t)
                           /\ task[t].parent = cur \/ t = cur
    BY <1>5 DEF SysStop, MayEnd
  <2> QED BY <1>5, <2>1, KillWaits DEF SysStop, Issues, InUser
<1>6. CASE SysKill
  <2>1. PICK t \in Slots, sig \in Signals :
          /\ Runnable(task, t)
          /\ IF sig \notin task[t].hdl
             THEN MayEnd(t) /\ TaskKill(t)
             ELSE /\ task' = [task EXCEPT ![t].pend = @ \cup {sig}]
                  /\ GoTo(At("trapret")) /\ UNCHANGED <<cur, nextPid>>
    BY <1>6 DEF SysKill
  <2>2. kpc[cur].at = "user"
    BY <1>6 DEF SysKill, Issues, InUser
  <2>3. CASE sig \notin task[t].hdl
    <3>1. task[t].parent = cur \/ t = cur
      BY <2>1, <2>3 DEF MayEnd
    <3> QED BY <2>1, <2>2, <2>3, <3>1, KillWaits
  <2>4. CASE sig \in task[t].hdl
    <3> PICK p : p = [task[t] EXCEPT !.pend = @ \cup {sig}]
      OBVIOUS
    <3>1. /\ task' = [task EXCEPT ![t] = p] /\ nextPid' = nextPid /\ cur' = cur
          /\ kpc' = [kpc EXCEPT ![cur] = At("trapret")]
      BY <2>1, <2>4 DEF GoTo
    <3>2. /\ p.st = task[t].st /\ p.pid = task[t].pid
          /\ p.user = task[t].user /\ p.parent = task[t].parent
      <4>1. task[t] \in Task
        BY <1>0, CurRuns
      <4> QED BY <4>1 DEF Task
    <3>3. Changes(t, p)
      BY <2>1, <3>1, <3>2 DEF Changes
    <3>4. Spares
      BY <1>0, <3>1, <3>3, ChangesSpare
    <3> QED BY <1>0, <2>2, <3>1, <3>4, ProcessWaits DEF UserPoints
  <2> QED BY <2>3, <2>4
<1>7. CASE SysSignal \/ Sigreturn \/ SysExec
  <2>1. Kinds /\ cur' = cur /\ kpc' = [kpc EXCEPT ![cur] = At("trapret")] /\ kpc[cur].at = "user"
    BY <1>0, <1>7, UserKinds DEF SysSignal, Sigreturn, SysExec, GoTo, Issues, InUser, UserStep
  <2>2. \/ Handles \/ ReturnFails \/ Returns \/ Replaced
    BY <1>0, <1>7, OwnKinds
  <2>3. \E t, p : Changes(t, p)
    BY <2>2 DEF Handles, ReturnFails, Returns, Replaced
  <2>4. Spares
    BY <1>0, <2>1, <2>3, ChangesSpare
  <2>5. kpc[cur].at \in UserPoints
    BY <2>1 DEF UserPoints
  <2> QED BY <1>0, <2>1, <2>4, <2>5, ProcessWaits
<1>8. CASE SysFork
  <2>1. PICK s, k : s = AllocTask(KillZombies(task)) /\ k = At("trapret")
    OBVIOUS
  <2>2. /\ Create(KillZombies(task), s, ForkedTask(s), k, k)
        /\ kpc[cur].at = "user" /\ cur' = cur
    BY <1>8, <2>1 DEF SysFork, ForkedTask, Issues, InUser
  <2>3. kpc[cur].at \in UserPoints /\ k.at = "trapret"
    BY <1>0, <2>1, <2>2 DEF UserPoints
  <2>4. CASE s = Nil /\ Moves(Swept) /\ kpc' = [kpc EXCEPT ![cur] = k]
    <3>1. Spares
      BY <1>0, <2>1, <2>2, <2>4, SweepSpares
    <3> QED BY <2>3, <2>4, <3>1, ProcessWaits
  <2>5. CASE /\ Creates(Swept, s, ForkedTask(s))
             /\ kpc' = [kpc EXCEPT ![s] = At("new"), ![cur] = k]
    <3> PICK me : me = cur
      OBVIOUS
    <3>1. ForkedTask(s) \in Task
      BY <1>0, <2>5, NewTaskFacts DEF ForkedTask, Creates
    <3>2. /\ Spares /\ kpc'[me] = k
          /\ \A t \in Slots : t # me => WaitOK(t)'
      BY <2>2, <2>5, <3>1, CreateOthers
    <3>3. me # Idle /\ me \in Slots /\ task[me].user /\ Runnable(task, me)
      BY <2>2, CurWaits DEF UserPoints, ShellPoints
    <3>4. Runnable(task', me) /\ task'[me].user
      BY <3>2, <3>3 DEF Spares, SameHolder
    <3>5. WaitOK(me)'
      BY <2>3, <3>2, <3>3, <3>4, WaitsForNone
    <3> QED BY <3>2, <3>3, <3>5, SparesIdle DEF WaitsOK
  <2> QED BY <1>0, <2>1, <2>2, <2>4, <2>5, CreateMoves
<1> QED BY <1>1, <1>2, <1>3, <1>4, <1>5, <1>6, <1>7, <1>8 DEF UserStep

\* The commands of the shell keep every wait right.
LEMMA ShellStepWaits == ASSUME WaitInv, ShellStep PROVE WaitsOK'
<1>0. Inv /\ WaitsOK /\ cur \in Slots
  BY CurWaits DEF WaitInv
<1>1. CASE ShellIdle
  BY <1>0, <1>1, StutterWaits DEF ShellIdle
<1>2. CASE ShellThreadTest
  <2>1. PICK k : k = [At("spawn") EXCEPT !.n = TestThreads]
    OBVIOUS
  <2>2. k.at = "spawn"
    BY <2>1 DEF At
  <2>3. /\ kpc' = [kpc EXCEPT ![cur] = k] /\ UNCHANGED <<task, nextPid, cur>>
        /\ kpc[cur].at \in ShellPoints
    BY <1>2, <2>1 DEF ShellThreadTest, GoTo, AtPrompt, ShellPoints
  <2> QED BY <1>0, <2>2, <2>3, ChangesSpare, ShellWaits
<1>3. CASE ShellRun
  <2>1. PICK s, ok, fail : /\ s = AllocTask(KillZombies(task))
                           /\ ok = Watching("shwait", {<<s, nextPid>>}) /\ fail = At("prompt")
    OBVIOUS
  <2>2. PICK f \in Images : Create(KillZombies(task), s, ShellTask(s, f), ok, fail)
    BY <1>3, <2>1 DEF ShellRun, ShellTask
  <2>3. cur' = cur /\ cur = Idle /\ kpc[cur].at = "prompt"
    BY <1>3 DEF ShellRun, AtPrompt
  <2>4. fail.at = "prompt" /\ ok.at = "shwait" /\ ok.on = {<<s, nextPid>>}
    BY <2>1 DEF At, Watching
  <2>5. CASE s = Nil /\ Moves(Swept) /\ kpc' = [kpc EXCEPT ![cur] = fail]
    <3>1. Spares
      BY <1>0, <2>1, <2>2, <2>3, <2>5, SweepSpares
    <3>2. kpc[cur].at \in ShellPoints
      BY <2>3 DEF ShellPoints
    <3> QED BY <2>4, <2>5, <3>1, <3>2, ShellWaits
  <2>6. CASE /\ Creates(Swept, s, ShellTask(s, f))
             /\ kpc' = [kpc EXCEPT ![s] = At("new"), ![cur] = ok]
    <3>1. ShellTask(s, f) \in Task /\ s \in Slots
      BY <1>0, <2>6, NewTaskFacts DEF ShellTask, Creates
    <3>2. /\ Spares /\ kpc'[Idle] = ok
          /\ \A t \in Slots : t # Idle => WaitOK(t)'
      BY <2>3, <2>6, <3>1, CreateOthers
    <3>3. Runnable(task', Idle)
      BY <1>0, <3>2, ConstantFacts DEF Spares, Inv, RunQueueExact
    <3>4. PICK q : q = [ShellTask(s, f) EXCEPT !.st = "runnable", !.pid = nextPid]
      OBVIOUS
    <3>5. q.st = "runnable" /\ q.pid = nextPid /\ q.parent = Idle
      <4>1. ShellTask(s, f).parent = Idle
        BY <2>3 DEF ShellTask, Blank
      <4> QED BY <3>1, <3>4, <4>1 DEF Task
    <3>6. task'[s] = q
      BY <2>6, <3>4 DEF Creates
    <3>7. PICK w : w = <<s, nextPid>>
      OBVIOUS
    <3>8. ShellChild(Idle, w)'
      BY <3>1, <3>5, <3>6, <3>7 DEF ShellChild, OwnChild, Runnable
    <3>9. WaitOK(Idle)'
      BY <2>4, <3>2, <3>3, <3>7, <3>8, ConstantFacts DEF WaitOK, ShellPoints, UserPoints
    <3> QED BY <3>2, <3>9, SparesIdle DEF WaitsOK
  <2> QED BY <1>0, <2>1, <2>2, <2>5, <2>6, CreateMoves
<1> QED BY <1>1, <1>2, <1>3 DEF ShellStep

\* Every step keeps every wait right.
LEMMA WaitsNext == ASSUME WaitInv, ~EndsOthers, [Next]_vars PROVE WaitInv'
<1>1. Inv'
  BY NextInv DEF WaitInv
<1>2. ASSUME KernelStep PROVE WaitsOK'
  BY <1>2, KernelWaits
<1>3. ASSUME Tick \/ UserStep PROVE WaitsOK'
  BY <1>3, UserWaits
<1>4. ASSUME ShellStep PROVE WaitsOK'
  BY <1>4, ShellStepWaits
<1>5. ASSUME UNCHANGED vars PROVE WaitsOK'
  BY <1>5, StutterWaits DEF WaitInv
<1> QED BY <1>1, <1>2, <1>3, <1>4, <1>5 DEF Next, WaitInv

\* Every wait is always right.
LEMMA WaitsAlways == ASSUME ~EndsOthers PROVE Spec => []WaitInv
<1>1. Init => WaitInv
  BY InitInv, WaitsInit DEF WaitInv
<1>2. WaitInv /\ [Next]_vars => WaitInv'
  BY WaitsNext
<1> QED BY <1>1, <1>2, PTL DEF Spec

\* While programs end none but themselves and their own children, the task_struct a
\* waitpid or the shell waits on is the task it was told to wait for.
THEOREM WaitsAlwaysSameTask == ASSUME ~EndsOthers PROVE Spec => []WaitsForSameTask
<1>1. WaitInv => WaitsForSameTask
  <2> SUFFICES ASSUME WaitInv, NEW t \in Slots, kpc[t].at \in {"waitpid", "shwait"},
                      NEW w \in kpc[t].on
               PROVE  task[w[1]].pid = w[2]
    BY DEF WaitsForSameTask, SameTask
  <2>1. WaitOK(t)
    BY DEF WaitInv, WaitsOK
  <2> QED BY <2>1 DEF WaitOK, ShellChild, OwnChild
<1> QED BY <1>1, WaitsAlways, PTL

\* One step frees no zombie whose living parent is a user process, unless it is
\* the waitpid of that parent.
LEMMA CollectStep ==
  ASSUME WaitInv, [Next]_vars, NEW t \in Slots,
         task[t].st = "zombie", task'[t].st # "zombie",
         ParentAlive(task, t), task[task[t].parent].user
  PROVE  cur = task[t].parent /\ kpc[cur].at = "waitpid"
<1>0. Inv /\ Kinds /\ t \notin Swept /\ ~Runnable(task, t) /\ WaitsOK
  BY StepKinds DEF WaitInv, Swept, Runnable
<1>1. CASE Moves({}) \/ Moves(Swept)
  BY <1>0, <1>1 DEF Moves, Moved
<1>2. CASE kpc[cur].at \in {"waitpid", "shwait"} /\ Moves(Watched)
  <2>1. t \in Watched
    BY <1>0, <1>2 DEF Moves, Moved
  <2>2. task[t].parent = cur
    BY <1>2, <2>1, WatchedFacts
  <2>3. kpc[cur].at # "shwait"
    BY <1>0, <2>2, CurWaits DEF WaitsOK, ShellPoints
  <2> QED BY <1>2, <2>2, <2>3
<1>3. CASE Creation
  <2>1. PICK s, new : Creates(Swept, s, new)
    BY <1>3 DEF Creation
  <2> QED BY <1>0, <2>1 DEF Creates
<1>4. ASSUME NEW x, NEW p, Changes(x, p) PROVE task'[t] = task[t]
  BY <1>0, <1>4, ChangesFacts, CurRuns
<1>5. CASE Pended \/ Handles \/ ReturnFails \/ Returns \/ Replaced \/ Delivers
  BY <1>4, <1>5 DEF Pended, Handles, ReturnFails, Returns, Replaced, Delivers
<1> QED BY <1>0, <1>1, <1>2, <1>3, <1>5 DEF Kinds, Lifecycle

\* While programs end none but themselves and their own children, a zombie waits for
\* the waitpid of its parent as long as that parent lives.
THEOREM ParentAlwaysCollects == ASSUME ~EndsOthers PROVE Spec => ParentCollects
<1>1. WaitInv /\ [Next]_vars =>
        [\A t \in Slots :
           /\ task[t].st = "zombie" /\ task'[t].st # "zombie"
           /\ ParentAlive(task, t) /\ task[task[t].parent].user
           => cur = task[t].parent /\ kpc[cur].at = "waitpid"]_vars
  BY CollectStep
<1> QED BY <1>1, WaitsAlways, PTL DEF Spec, ParentCollects
=============================================================================
