------------------------------ MODULE ProcProofs ------------------------------
(***************************************************************************)
(* Proofs about the process layer, for every number of tasks, signals,     *)
(* images and pids.                                                        *)
(***************************************************************************)
EXTENDS ProcProps, NatFacts

(***************************************************************************)
(* The ring of next pointers.  OneRing says that no smaller set of tasks   *)
(* is closed under next, so that a set of tasks with a property that the   *)
(* pointers preserve has all of them: that is the induction along the ring *)
(* in each of these proofs.                                                *)
(***************************************************************************)
\* runq_add links a task that is not on the ring into it.
LEMMA AddRing ==
  ASSUME NEW q \in Queue, NEW T \in SUBSET Slots, OneRing(q, T), NEW t \in Slots \ T
  PROVE  RunqAdd(q, t) \in Queue /\ OneRing(RunqAdd(q, t), T \cup {t})
<1> DEFINE r == RunqAdd(q, t)
           U == T \cup {t}
<1>1. /\ q.tail \in T /\ q.next \in [Slots -> Slots \cup {Nil}]
      /\ \A x \in T : q.next[x] \in T
      /\ \A S \in SUBSET T : S # {} /\ (\A x \in S : q.next[x] \in S) => S = T
      /\ \A x, y \in T : q.next[x] = q.next[y] => x = y
      /\ \A x \in Slots \ T : q.next[x] = Nil
  BY DEF OneRing, Closed, Queue
<1>2. q.tail # Nil
  BY <1>1 DEF Slots, Nil
<1>3. r = [tail |-> t, next |-> [q.next EXCEPT ![t] = q.next[q.tail], ![q.tail] = t]]
  BY <1>2 DEF RunqAdd
<1>4. /\ r \in Queue /\ r.tail = t
      /\ r.next[t] = q.next[q.tail] /\ r.next[q.tail] = t
      /\ \A x \in Slots \ {t, q.tail} : r.next[x] = q.next[x]
  BY <1>1, <1>3 DEF Queue
<1> HIDE DEF r
<1>5. \A x \in U : r.next[x] \in U
  BY <1>1, <1>4
<1>6. ASSUME NEW S \in SUBSET U, S # {}, \A x \in S : r.next[x] \in S
      PROVE  S = U
  <2> DEFINE V == S \ {t}
  <2>1. V \in SUBSET T /\ V # {}
    BY <1>1, <1>4, <1>6
  <2>2. ASSUME NEW x \in V PROVE q.next[x] \in V
    <3>1. q.next[x] \in T /\ q.next[x] # t
      BY <1>1, <2>1
    <3>2. CASE x = q.tail
      BY <1>4, <1>6, <3>1, <3>2
    <3>3. CASE x # q.tail
      BY <1>4, <1>6, <2>1, <3>1, <3>3
    <3> QED BY <3>2, <3>3
  <2>3. V = T
    BY <1>1, <2>1, <2>2
  <2>4. t \in S
    BY <1>1, <1>4, <1>6, <2>3
  <2> QED BY <2>3, <2>4
<1>7. \A x, y \in U : r.next[x] = r.next[y] => x = y
  BY <1>1, <1>4
<1>8. \A x \in Slots \ U : r.next[x] = Nil
  BY <1>1, <1>4
<1> QED BY <1>4, <1>5, <1>6, <1>7, <1>8 DEF OneRing, Closed, r

\* The loop of runq_remove ends at the one task that leads to t.
LEMMA BeforeFacts ==
  ASSUME NEW q \in Queue, NEW T \in SUBSET Slots, OneRing(q, T), NEW t \in T
  PROVE  Before(q, t) \in T /\ q.next[Before(q, t)] = t
<1>1. /\ q.tail \in T
      /\ \A x \in T : q.next[x] \in T
      /\ \A S \in SUBSET T : S # {} /\ (\A x \in S : q.next[x] \in S) => S = T
      /\ \A x, y \in T : q.next[x] = q.next[y] => x = y
  BY DEF OneRing, Closed
<1>2. PICK p \in T : q.next[p] = t
  <2> DEFINE S == {q.next[x] : x \in T}
  <2>1. S \in SUBSET T /\ S # {} /\ \A x \in S : q.next[x] \in S
    BY <1>1
  <2>2. S = T
    BY <1>1, <2>1
  <2> QED BY <2>2
<1>3. /\ t # Nil /\ t \in Slots /\ q.next \in [Slots -> Slots \cup {Nil}]
      /\ \A x \in Slots : q.next[x] = t <=> x = p
  BY <1>1, <1>2 DEF OneRing, Queue, Slots, Nil
<1> DEFINE Loop(f) ==
             [x \in Slots |->
                IF q.next[x] = t THEN x
                ELSE IF q.next[x] \in {q.tail, Nil} THEN Nil ELSE f[q.next[x]]]
           prev == CHOOSE f : f = Loop(f)
\* The walk from x gets to p if every set that holds x and whatever the walk passes
\* from there holds p.
           Walks(S) == \A y \in S \ {p} : q.next[y] \in S \cup {q.tail, Nil}
           Gets(x) == \A S \in SUBSET Slots : x \in S /\ Walks(S) => p \in S
           g == [x \in Slots |-> IF Gets(x) THEN p ELSE Nil]
<1>4. ASSUME NEW x \in Slots
      PROVE  g[x] = IF q.next[x] = t THEN x
                    ELSE IF q.next[x] \in {q.tail, Nil} THEN Nil ELSE g[q.next[x]]
  <2>1. CASE x = p
    BY <1>3, <2>1
  <2>2. CASE x # p /\ q.next[x] \in {q.tail, Nil}
    <3>1. {x} \in SUBSET Slots /\ x \in {x} /\ Walks({x}) /\ p \notin {x}
      BY <2>2
    <3>2. ~Gets(x)
      BY <3>1
    <3> HIDE DEF Gets
    <3> QED BY <1>3, <2>2, <3>2
  <2>3. CASE x # p /\ q.next[x] \notin {q.tail, Nil}
    <3> DEFINE y == q.next[x]
    <3>1. y \in Slots /\ y # t
      BY <1>3, <2>3
    <3>2. ASSUME Gets(x), NEW S \in SUBSET Slots, y \in S, Walks(S) PROVE p \in S
      <4>1. S \cup {x} \in SUBSET Slots /\ Walks(S \cup {x})
        BY <3>2
      <4> QED BY <2>3, <3>2, <4>1
    <3>3. ASSUME Gets(y), NEW S \in SUBSET Slots, x \in S, Walks(S) PROVE p \in S
      <4>1. y \in S
        BY <2>3, <3>3
      <4> QED BY <3>3, <4>1
    <3>4. Gets(x) <=> Gets(y)
      BY <3>2, <3>3
    <3> HIDE DEF Gets
    <3> QED BY <2>3, <3>1, <3>4
  <2> QED BY <2>1, <2>2, <2>3
<1>5. g = Loop(g)
  <2> HIDE DEF g
  <2>1. g = [x \in Slots |-> g[x]]
    BY DEF g
  <2> QED BY <1>4, <2>1
<1> HIDE DEF g
<1>6. \E f : f = Loop(f)
  BY <1>5
<1>7. prev = Loop(prev)
  <2> HIDE DEF Loop
  <2> QED BY <1>6
<1>8. Before(q, t) = prev[q.tail]
  BY DEF Before
<1> HIDE DEF prev
<1>9. ASSUME NEW x \in Slots
      PROVE  prev[x] = IF q.next[x] = t THEN x
                       ELSE IF q.next[x] \in {q.tail, Nil} THEN Nil ELSE prev[q.next[x]]
  BY <1>7
<1> DEFINE S == {x \in T : prev[x] = prev[q.tail]}
<1>10. ASSUME p \notin S, NEW x \in S PROVE q.next[x] \in S
  <2>1. x \in Slots /\ x # p /\ q.next[x] \in T /\ q.next[x] # Nil
    BY <1>1, <1>10 DEF Slots, Nil
  <2>2. CASE q.next[x] = q.tail
    BY <1>1, <2>2
  <2>3. CASE q.next[x] # q.tail
    BY <1>3, <1>9, <1>10, <2>1, <2>3
  <2> QED BY <2>2, <2>3
<1>11. p \in S
  <2>1. S \in SUBSET T /\ q.tail \in S
    BY <1>1
  <2> HIDE DEF S
  <2> QED BY <1>1, <1>10, <2>1
<1>12. prev[p] = p
  BY <1>3, <1>9
<1> QED BY <1>2, <1>8, <1>11, <1>12

\* runq_remove takes a task out of the ring; the ring keeps another one.
LEMMA RemoveRing ==
  ASSUME NEW q \in Queue, NEW T \in SUBSET Slots, OneRing(q, T), NEW t \in T,
         T # {t}
  PROVE  RunqRemove(q, t) \in Queue /\ OneRing(RunqRemove(q, t), T \ {t})
<1> DEFINE r == RunqRemove(q, t)
           p == Before(q, t)
           U == T \ {t}
<1>1. /\ q.tail \in T /\ q.next \in [Slots -> Slots \cup {Nil}]
      /\ \A x \in T : q.next[x] \in T
      /\ \A S \in SUBSET T : S # {} /\ (\A x \in S : q.next[x] \in S) => S = T
      /\ \A x, y \in T : q.next[x] = q.next[y] => x = y
      /\ \A x \in Slots \ T : q.next[x] = Nil
  BY DEF OneRing, Closed, Queue
<1>2. p \in T /\ q.next[p] = t
  BY BeforeFacts
<1>3. q.next[t] # t /\ p # t
  <2>1. ASSUME q.next[t] = t PROVE FALSE
    <3> DEFINE S == {t}
    <3>1. S \in SUBSET T /\ S # {} /\ \A x \in S : q.next[x] \in S
      BY <2>1
    <3>2. S = T
      BY <1>1, <3>1
    <3> QED BY <3>2
  <2> QED BY <1>2, <2>1
<1>4. q.tail # Nil /\ p # Nil
  BY <1>1, <1>2 DEF Slots, Nil
<1>5. r = [tail |-> IF q.tail = t THEN p ELSE q.tail,
           next |-> [q.next EXCEPT ![p] = q.next[t], ![t] = Nil]]
  BY <1>3, <1>4 DEF RunqRemove
<1> HIDE DEF p
<1>6. /\ r \in Queue /\ r.tail \in U
      /\ r.next[p] = q.next[t] /\ r.next[t] = Nil
      /\ \A x \in Slots \ {p, t} : r.next[x] = q.next[x]
  BY <1>1, <1>2, <1>3, <1>5 DEF Queue
<1> HIDE DEF r
<1>7. \A x \in U : r.next[x] \in U
  BY <1>1, <1>2, <1>3, <1>6
<1>8. ASSUME NEW S \in SUBSET U, S # {}, \A x \in S : r.next[x] \in S
      PROVE  S = U
  <2>1. CASE p \in S
    <3> DEFINE V == S \cup {t}
    <3>1. V \in SUBSET T /\ V # {}
      BY <1>8
    <3>2. \A x \in V : q.next[x] \in V
      BY <1>2, <1>6, <1>8, <2>1
    <3>3. V = T
      BY <1>1, <3>1, <3>2
    <3> QED BY <1>8, <3>3
  <2>2. CASE p \notin S
    <3>1. S \in SUBSET T /\ \A x \in S : q.next[x] \in S
      BY <1>6, <1>8, <2>2
    <3>2. S = T
      BY <1>1, <1>8, <3>1
    <3> QED BY <1>2, <2>2, <3>2
  <2> QED BY <2>1, <2>2
<1>9. \A x, y \in U : r.next[x] = r.next[y] => x = y
  BY <1>1, <1>2, <1>3, <1>6
<1>10. \A x \in Slots \ U : r.next[x] = Nil
  BY <1>1, <1>2, <1>3, <1>6
<1> QED BY <1>6, <1>7, <1>8, <1>9, <1>10 DEF OneRing, Closed, r

\* While every task on the ring can run, pick_next returns the next one.
LEMMA PickNextFacts ==
  ASSUME NEW q \in Queue, NEW T \in SUBSET Slots, OneRing(q, T),
         NEW tk, \A x \in T : Runnable(tk, x), NEW me \in T
  PROVE  PickNext(q, tk, me) \in T
<1> DEFINE Loop(f) ==
             [t \in Slots \cup {Nil} |->
                IF t \in {me, Nil} \/ Runnable(tk, t) THEN t ELSE f[q.next[t]]]
           scan == CHOOSE f : f = Loop(f)
           g == [t \in Slots \cup {Nil} |->
                   IF t \in {me, Nil} \/ Runnable(tk, t) THEN t ELSE Nil]
<1>1. q.next[me] \in T /\ \A t \in Slots \ T : q.next[t] = Nil
  BY DEF OneRing, Closed
<1>2. g = Loop(g)
  <2>1. \A t \in Slots \cup {Nil} :
          ~(t \in {me, Nil} \/ Runnable(tk, t)) => q.next[t] = Nil
    BY <1>1
  <2>2. g[Nil] = Nil
    OBVIOUS
  <2> QED BY <2>1, <2>2
<1> HIDE DEF g
<1>3. \E f : f = Loop(f)
  BY <1>2
<1>4. scan = Loop(scan)
  <2> HIDE DEF Loop
  <2> QED BY <1>3
<1>5. PickNext(q, tk, me) = scan[q.next[me]]
  BY DEF PickNext, FirstFrom
<1> HIDE DEF scan
<1>6. scan[q.next[me]] = q.next[me]
  BY <1>1, <1>4
<1> QED BY <1>1, <1>5, <1>6

\* task_reap and thread_create find the links they clear null already.
LEMMA UnlinkedSame ==
  ASSUME NEW q \in Queue, NEW T \in SUBSET Slots, OneRing(q, T),
         NEW tk, \A x \in T : tk[x].st # "unused"
  PROVE  Unlinked(q, tk) = q
<1> DEFINE n == [t \in Slots |-> IF tk[t].st = "unused" THEN Nil ELSE q.next[t]]
<1>1. q.next \in [Slots -> Slots \cup {Nil}] /\ \A t \in Slots \ T : q.next[t] = Nil
  BY DEF OneRing, Queue
<1>2. n = q.next
  BY <1>1
<1>3. Unlinked(q, tk) = [q EXCEPT !.next = n]
  BY DEF Unlinked
<1> HIDE DEF n
<1> QED BY <1>2, <1>3 DEF Queue

(***************************************************************************)
(* The type invariant and the exactness of the run queue are inductive     *)
(* together: without the first the queue may hold anything, without the    *)
(* second pick_next may walk off the ring.                                 *)
(***************************************************************************)
Inv == TypeOK /\ RunQueueExact

Ready == {t \in Slots : Runnable(task, t)}

\* The ring of the process layer, and who is on it.
LEMMA RingFacts ==
  ASSUME Inv
  PROVE  /\ runq \in Queue /\ Ready \in SUBSET Slots /\ OneRing(runq, Ready)
         /\ cur \in Ready /\ Idle \in Ready
         /\ PickNext(runq, task, cur) \in Ready
<1>1. /\ runq \in Queue /\ Ready \in SUBSET Slots /\ OneRing(runq, Ready)
      /\ cur \in Ready /\ Idle \in Ready
  BY ProcAssumption DEF Inv, TypeOK, RunQueueExact, Ready, Runnable, Idle, Slots
<1>2. \A t \in Ready : Runnable(task, t)
  BY DEF Ready
<1> QED BY <1>1, <1>2, PickNextFacts

\* A sweep that frees no runnable task leaves the ring as it is.
LEMMA UnlinkedRunq ==
  ASSUME Inv, NEW tk, \A t \in Slots : Runnable(task, t) => Runnable(tk, t)
  PROVE  Unlinked(runq, tk) = runq
<1>1. \A t \in Ready : tk[t].st # "unused"
  BY DEF Ready, Runnable
<1> QED BY <1>1, RingFacts, UnlinkedSame

\* The idle task's slot exists, and an empty task slot is well typed.
LEMMA ConstantFacts ==
  /\ Idle \in Slots
  /\ NoContext \in Context
  /\ Blank \in Task
  /\ Slots \in SUBSET Nat
<1>1. Idle \in Slots /\ Slots \in SUBSET Nat
  BY ProcAssumption DEF Idle, Slots
<1>2. NoContext \in Context
  BY <1>1 DEF NoContext, Context, Images
<1> QED BY <1>1, <1>2 DEF Blank, Task, Nil

\* task_reap, and so kill_zombies, keeps the table well typed, touches no
\* runnable task and makes none.
LEMMA ReapFacts ==
  ASSUME NEW tk \in [Slots -> Task], NEW T
  PROVE  /\ Reap(tk, T) \in [Slots -> Task]
         /\ \A t \in Slots : /\ Runnable(Reap(tk, T), t) <=> Runnable(tk, t)
                             /\ Reap(tk, T)[t].st = "running" <=> tk[t].st = "running"
BY ConstantFacts DEF Reap, Runnable, Blank

\* alloc_task returns a free slot or nothing.
LEMMA AllocFacts ==
  ASSUME NEW tk \in [Slots -> Task], AllocTask(tk) # Nil
  PROVE  AllocTask(tk) \in Slots /\ tk[AllocTask(tk)].st = "unused"
<1> DEFINE Free == {t \in Slots : tk[t].st = "unused"}
<1>1. Free # {} /\ AllocTask(tk) = CHOOSE t \in Free : \A o \in Free : t <= o
  BY DEF AllocTask
<1>2. Free \in SUBSET Nat
  BY ConstantFacts
<1>3. \E t \in Free : \A o \in Free : t <= o
  BY <1>1, <1>2, LeastNatural
<1> HIDE DEF Free
<1>4. AllocTask(tk) \in Free
  BY <1>1, <1>3
<1> QED BY <1>4 DEF Free

\* The first task of an empty queue is a ring of its own.
LEMMA FirstRing ==
  ASSUME NEW t \in Slots
  PROVE  RunqAdd(EmptyQueue, t) \in Queue /\ OneRing(RunqAdd(EmptyQueue, t), {t})
<1>1. RunqAdd(EmptyQueue, t) = [tail |-> t, next |-> [EmptyQueue.next EXCEPT ![t] = t]]
  BY DEF RunqAdd, EmptyQueue
<1>2. /\ EmptyQueue.next \in [Slots -> Slots \cup {Nil}]
      /\ \A x \in Slots : EmptyQueue.next[x] = Nil
  BY DEF EmptyQueue
<1> DEFINE r == RunqAdd(EmptyQueue, t)
<1>3. r \in Queue /\ r.tail = t /\ r.next[t] = t /\ \A x \in Slots \ {t} : r.next[x] = Nil
  BY <1>1, <1>2 DEF Queue
<1> HIDE DEF r
<1> QED BY <1>3 DEF OneRing, Closed, r

\* thread_init leaves the idle task alone on the ring and on the hart.
LEMMA InitInv == Init => Inv
<1> SUFFICES ASSUME Init PROVE Inv
  OBVIOUS
<1>1. TypeOK
  <2>1. [Blank EXCEPT !.pid = 0, !.st = "running"] \in Task
    BY ConstantFacts DEF Task
  <2>2. task \in [Slots -> Task]
    BY <2>1, ConstantFacts DEF Init
  <2>3. At("prompt") \in Continuation /\ At("dead") \in Continuation
    BY DEF At, Continuation, Points
  <2>4. kpc \in [Slots -> Continuation]
    BY <2>3 DEF Init
  <2>5. runq \in Queue /\ cur \in Slots /\ nextPid \in Nat /\ loaded \in Images
    BY ConstantFacts, FirstRing DEF Init, Images
  <2> QED BY <2>2, <2>4, <2>5 DEF TypeOK
<1>2. RunQueueExact
  <2>1. \A t \in Slots : task[t].st = IF t = Idle THEN "running" ELSE "unused"
    BY DEF Init, Blank
  <2>2. OneRing(runq, {Idle}) /\ cur = Idle
    BY ConstantFacts, FirstRing DEF Init
  <2>3. {t \in Slots : Runnable(task, t)} = {Idle}
    BY <2>1, ConstantFacts DEF Runnable
  <2> QED BY <2>1, <2>2, <2>3, ConstantFacts DEF RunQueueExact, Runnable
<1> QED BY <1>1, <1>2 DEF Inv

\* The invariant of the next state, in parts.
LEMMA ReadyInv ==
  ASSUME TypeOK', OneRing(runq', Ready'),
         \A t \in Slots : task'[t].st = "running" <=> t = cur',
         Runnable(task', Idle)
  PROVE  Inv'
<1>1. Ready' = {t \in Slots : Runnable(task', t)}
  BY DEF Ready
<1> QED BY <1>1 DEF Inv, RunQueueExact

\* A step that leaves the queue, the hart and the states of all tasks alone.
LEMMA FrameInv ==
  ASSUME Inv, TypeOK', UNCHANGED <<runq, cur>>,
         \A t \in Slots : /\ Runnable(task', t) <=> Runnable(task, t)
                          /\ task'[t].st = "running" <=> task[t].st = "running"
  PROVE  Inv'
<1>1. OneRing(runq', Ready')
  <2>1. Ready' = Ready
    BY DEF Ready
  <2> QED BY <2>1, RingFacts
<1>2. \A t \in Slots : (task[t].st = "running")' <=> t = cur'
  BY DEF Inv, RunQueueExact
<1>3. Runnable(task, Idle)'
  BY ConstantFacts DEF Inv, RunQueueExact
<1> QED BY <1>1, <1>2, <1>3, ReadyInv

\* A step that changes nothing.
LEMMA StutterInv == ASSUME Inv, UNCHANGED vars PROVE Inv'
<1>1. TypeOK'
  BY DEF vars, Inv, TypeOK
<1> QED BY <1>1, FrameInv DEF vars

\* A change of state is a change of a field.
LEMMA StateFacts ==
  ASSUME NEW p \in Task, NEW s \in {"unused", "runnable", "running", "zombie"}
  PROVE  [p EXCEPT !.st = s] \in Task /\ [p EXCEPT !.st = s].st = s
BY DEF Task

\* schedule(): the next task on the ring becomes the running one.
LEMMA ScheduleInv ==
  ASSUME Inv, NEW k \in Continuation, Schedule(k)
  PROVE  Inv'
<1> DEFINE n == PickNext(runq, task, cur)
<1>1. n \in Slots
  BY RingFacts
<1>2. Runnable(task, n)
  BY RingFacts DEF Ready
<1>3. /\ task' = [t \in Slots |->
                   IF t = n THEN [task[t] EXCEPT !.st = "running"]
                   ELSE IF t = cur THEN [task[t] EXCEPT !.st = "runnable"]
                   ELSE task[t]]
      /\ cur' = n
      /\ kpc' = [kpc EXCEPT ![cur] = k]
      /\ UNCHANGED <<runq, nextPid, loaded>>
  BY DEF Schedule
<1> HIDE DEF n
<1>4. \A t \in Slots : /\ task'[t] \in Task
                       /\ task'[t].st = IF t = n THEN "running"
                                       ELSE IF t = cur THEN "runnable" ELSE task[t].st
  <2> TAKE t \in Slots
  <2>1. task[t] \in Task
    BY DEF Inv, TypeOK
  <2>2. /\ [task[t] EXCEPT !.st = "running"] \in Task
        /\ [task[t] EXCEPT !.st = "running"].st = "running"
    BY <2>1, StateFacts
  <2>3. /\ [task[t] EXCEPT !.st = "runnable"] \in Task
        /\ [task[t] EXCEPT !.st = "runnable"].st = "runnable"
    BY <2>1, StateFacts
  <2> QED BY <1>3, <2>1, <2>2, <2>3
<1>5. TypeOK'
  <2>1. task' \in [Slots -> Task]
    BY <1>3, <1>4
  <2> QED BY <1>1, <1>3, <2>1 DEF Inv, TypeOK
<1>6. \A t \in Slots : Runnable(task', t) <=> Runnable(task, t)
  BY <1>2, <1>4 DEF Inv, RunQueueExact, Runnable
<1>7. \A t \in Slots : task'[t].st = "running" <=> t = cur'
  BY <1>3, <1>4 DEF Inv, RunQueueExact
<1>8. OneRing(runq', Ready') /\ Runnable(task', Idle)
  <2>1. Ready' = Ready
    BY <1>6 DEF Ready
  <2> QED BY <1>3, <2>1, RingFacts DEF Ready
<1> QED BY <1>5, <1>7, <1>8, ReadyInv

\* thread_exit(): the hart goes to a runnable task other than the one that leaves.
LEMMA ThreadExitInv == ASSUME Inv, ThreadExit PROVE Inv'
<1> DEFINE n == IF ExitTo = cur THEN Idle ELSE ExitTo
<1>1. ExitTo \in Slots /\ Runnable(task, ExitTo)
  <2>1. CASE ParentAlive(task, cur)
    <3>1. task[cur].parent \in Slots \cup {Nil}
      BY DEF Inv, TypeOK, Task
    <3> QED BY <2>1, <3>1 DEF ParentAlive, ExitTo
  <2>2. CASE ~ParentAlive(task, cur)
    BY <2>2, RingFacts DEF ExitTo, Ready
  <2> QED BY <2>1, <2>2
<1>2. n \in Slots /\ n # cur /\ Runnable(task, n)
  BY <1>1, ConstantFacts DEF ThreadExit, Inv, RunQueueExact
<1>3. /\ runq' = RunqRemove(runq, cur)
      /\ task' = [task EXCEPT ![cur].st = "zombie", ![n].st = "running"]
      /\ cur' = n
      /\ kpc' = [kpc EXCEPT ![cur] = At("dead")]
      /\ UNCHANGED <<nextPid, loaded>>
      /\ cur # Idle
  BY DEF ThreadExit
<1> HIDE DEF n
<1>4. \A t \in Slots : /\ task'[t] \in Task
                       /\ task'[t].st = IF t = n THEN "running"
                                        ELSE IF t = cur THEN "zombie" ELSE task[t].st
  <2> TAKE t \in Slots
  <2>1. task[t] \in Task
    BY DEF Inv, TypeOK
  <2>2. /\ [task[t] EXCEPT !.st = "running"] \in Task
        /\ [task[t] EXCEPT !.st = "running"].st = "running"
    BY <2>1, StateFacts
  <2>3. /\ [task[t] EXCEPT !.st = "zombie"] \in Task
        /\ [task[t] EXCEPT !.st = "zombie"].st = "zombie"
    BY <2>1, StateFacts
  <2>4. task'[t] = IF t = n THEN [task[t] EXCEPT !.st = "running"]
                   ELSE IF t = cur THEN [task[t] EXCEPT !.st = "zombie"] ELSE task[t]
    BY <1>2, <1>3 DEF Inv, TypeOK
  <2> QED BY <2>1, <2>2, <2>3, <2>4
<1>5. Ready # {cur}
  BY <1>3, RingFacts
<1>6. runq' \in Queue /\ OneRing(runq', Ready \ {cur})
  BY <1>3, <1>5, RingFacts, RemoveRing
<1>7. TypeOK'
  <2>1. task' \in [Slots -> Task]
    BY <1>3, <1>4 DEF Inv, TypeOK
  <2>2. At("dead") \in Continuation
    BY DEF At, Continuation, Points
  <2> QED BY <1>2, <1>3, <1>6, <2>1, <2>2 DEF Inv, TypeOK
<1>8. \A t \in Slots : Runnable(task', t) <=> Runnable(task, t) /\ t # cur
  BY <1>2, <1>4 DEF Runnable
<1>9. \A t \in Slots : task'[t].st = "running" <=> t = cur'
  <2>1. \A t \in Slots : task[t].st = "running" => t = cur
    BY DEF Inv, RunQueueExact
  <2> HIDE DEF Inv
  <2>2. cur' = n
    BY <1>3
  <2> QED BY <1>4, <2>1, <2>2
<1>10. OneRing(runq', Ready') /\ Runnable(task', Idle)
  <2>1. Ready' = Ready \ {cur}
    BY <1>8 DEF Ready
  <2> QED BY <1>3, <1>6, <2>1, RingFacts DEF Ready
<1> QED BY <1>7, <1>9, <1>10, ReadyInv

\* task_kill() of a task that is not on the hart.
LEMMA TerminateInv ==
  ASSUME Inv, NEW t \in Slots \ {Idle, cur}, Runnable(task, t), Terminate(t)
  PROVE  Inv'
<1>1. /\ runq' = RunqRemove(runq, t)
      /\ task' = [task EXCEPT ![t].st = "zombie"]
      /\ kpc' = [kpc EXCEPT ![t] = At("dead"), ![cur] = At("trapret")]
      /\ UNCHANGED <<cur, nextPid, loaded>>
  BY DEF Terminate
<1>2. \A x \in Slots : /\ task'[x] \in Task
                       /\ task'[x].st = IF x = t THEN "zombie" ELSE task[x].st
  BY <1>1, StateFacts DEF Inv, TypeOK
<1>3. t \in Ready /\ Ready # {t}
  BY RingFacts DEF Ready
<1>4. runq' \in Queue /\ OneRing(runq', Ready \ {t})
  BY <1>1, <1>3, RingFacts, RemoveRing
<1>5. TypeOK'
  <2>1. task' \in [Slots -> Task]
    BY <1>1, <1>2 DEF Inv, TypeOK
  <2>2. At("dead") \in Continuation /\ At("trapret") \in Continuation
    BY DEF At, Continuation, Points
  <2> QED BY <1>1, <1>4, <2>1, <2>2 DEF Inv, TypeOK
<1>6. \A x \in Slots : Runnable(task', x) <=> Runnable(task, x) /\ x # t
  BY <1>2 DEF Runnable
<1>7. \A x \in Slots : task'[x].st = "running" <=> x = cur'
  <2> TAKE x \in Slots
  <2>1. cur' = cur /\ t # cur /\ (task[x].st = "running" <=> x = cur)
    BY <1>1 DEF Inv, RunQueueExact
  <2>2. CASE x = t
    BY <2>1, <2>2, <1>2
  <2>3. CASE x # t
    BY <2>1, <2>3, <1>2
  <2> QED BY <2>2, <2>3
<1>8. OneRing(runq', Ready') /\ Runnable(task', Idle)
  <2>1. Ready' = Ready \ {t}
    BY <1>6 DEF Ready
  <2> QED BY <1>4, <2>1, RingFacts DEF Ready
<1> QED BY <1>5, <1>7, <1>8, ReadyInv

\* task_kill() of any task but the idle one, the caller included.
LEMMA TaskKillInv ==
  ASSUME Inv, NEW t \in Slots, Runnable(task, t), TaskKill(t)
  PROVE  Inv'
<1>1. CASE t = cur
  BY <1>1, ThreadExitInv DEF TaskKill
<1>2. CASE t # cur
  BY <1>2, TerminateInv DEF TaskKill
<1> QED BY <1>1, <1>2

\* thread_create(): the new task takes an unused slot and the end of the queue.
LEMMA CreateInv ==
  ASSUME Inv,
         NEW new, NEW ok \in Continuation, NEW fail \in Continuation,
         AllocTask(KillZombies(task)) # Nil => new \in Task,
         Create(KillZombies(task), AllocTask(KillZombies(task)), new, ok, fail),
         UNCHANGED cur, loaded' \in Images
  PROVE  Inv'
<1> DEFINE tk == KillZombies(task)
           s == AllocTask(tk)
<1>1. /\ tk \in [Slots -> Task]
      /\ \A t \in Slots : /\ Runnable(tk, t) <=> Runnable(task, t)
                          /\ tk[t].st = "running" <=> task[t].st = "running"
  BY ReapFacts DEF KillZombies, Inv, TypeOK
<1>2. s # Nil => s \in Slots /\ tk[s].st = "unused"
  BY <1>1, AllocFacts
<1>3. s # Nil => new \in Task
  OBVIOUS
<1>4. Create(tk, s, new, ok, fail)
  OBVIOUS
<1> HIDE DEF tk, s
<1>0. Unlinked(runq, tk) = runq
  BY <1>1, UnlinkedRunq
<1>5. CASE s = Nil
  <2>1. task' = tk /\ kpc' = [kpc EXCEPT ![cur] = fail] /\ UNCHANGED <<runq, nextPid>>
    BY <1>0, <1>4, <1>5 DEF Create
  <2>2. TypeOK'
    BY <1>1, <2>1 DEF Inv, TypeOK
  <2> QED BY <1>1, <2>1, <2>2, FrameInv
<1>6. CASE s # Nil
  <2> DEFINE p == [new EXCEPT !.st = "runnable", !.pid = nextPid]
  <2>1. p \in Task /\ p.st = "runnable"
    BY <1>3, <1>6 DEF Inv, TypeOK, Task
  <2> HIDE DEF p
  <2>2. /\ task' = [tk EXCEPT ![s] = p]
        /\ kpc' = [kpc EXCEPT ![s] = At("new"), ![cur] = ok]
        /\ runq' = RunqAdd(runq, s)
        /\ nextPid' = Later(nextPid)
    BY <1>0, <1>4, <1>6 DEF Create, p
  <2>3. s \in Slots \ Ready /\ s # Idle /\ s # cur
    <3>1. s \in Slots /\ ~Runnable(task, s)
      BY <1>1, <1>2, <1>6 DEF Runnable
    <3> QED BY <3>1, RingFacts DEF Ready
  <2>4. runq' \in Queue /\ OneRing(runq', Ready \cup {s})
    BY <2>2, <2>3, RingFacts, AddRing
  <2>5. TypeOK'
    <3>1. At("new") \in Continuation
      BY DEF At, Continuation, Points
    <3>2. task' \in [Slots -> Task]
      BY <1>1, <2>1, <2>2
    <3>3. nextPid' \in Nat
      BY <2>2 DEF Later, Inv, TypeOK
    <3> QED BY <2>2, <2>4, <3>1, <3>2, <3>3 DEF Inv, TypeOK
  <2>6. \A t \in Slots : Runnable(task', t) <=> Runnable(task, t) \/ t = s
    BY <1>1, <2>1, <2>2, <2>3 DEF Runnable
  <2>7. \A t \in Slots : task'[t].st = "running" <=> t = cur'
    BY <1>1, <2>1, <2>2, <2>3 DEF Inv, RunQueueExact
  <2>8. OneRing(runq', Ready') /\ Runnable(task', Idle)
    <3>1. Ready' = Ready \cup {s}
      BY <2>3, <2>6 DEF Ready
    <3> QED BY <2>4, <3>1, RingFacts DEF Ready
  <2> QED BY <2>5, <2>7, <2>8, ReadyInv
<1> QED BY <1>5, <1>6

\* A step that changes only non-state fields of the running task, its
\* continuation and the loaded image.
LEMMA OwnFieldsInv ==
  ASSUME Inv, NEW p \in Task, p.st = task[cur].st, NEW k \in Continuation,
         task' = [task EXCEPT ![cur] = p],
         kpc' = [kpc EXCEPT ![cur] = k],
         UNCHANGED <<runq, cur, nextPid>>, loaded' \in Images
  PROVE  Inv'
<1>1. TypeOK'
  BY DEF Inv, TypeOK
<1>2. \A t \in Slots : task'[t].st = task[t].st
  BY DEF Inv, TypeOK
<1>3. \A t \in Slots : /\ Runnable(task', t) <=> Runnable(task, t)
                       /\ task'[t].st = "running" <=> task[t].st = "running"
  BY <1>2 DEF Runnable
<1> QED BY <1>1, <1>3, FrameInv

\* A step that changes the continuation of the running task only.
LEMMA GoToInv ==
  ASSUME Inv, NEW k \in Continuation, GoTo(k), UNCHANGED <<task, runq, cur, nextPid, loaded>>
  PROVE  Inv'
<1>1. TypeOK'
  BY DEF Inv, TypeOK, GoTo
<1> QED BY <1>1, FrameInv

\* The continuations the actions store are well formed.
LEMMA ContinuationFacts ==
  /\ \A p \in Points : At(p) \in Continuation
  /\ \A p \in Points : \A w \in SUBSET (Slots \X Int) : Watching(p, w) \in Continuation
BY DEF At, Watching, Continuation

\* The wait loops of waitpid and the shell.
LEMMA WaitLoopInv ==
  ASSUME Inv, NEW k \in Continuation, WaitLoop(k)
  PROVE  Inv'
<1>1. CASE \E w \in kpc[cur].on : Runnable(task, w[1])
  <2>1. kpc[cur] \in Continuation
    BY DEF Inv, TypeOK
  <2> QED BY <1>1, <2>1, ScheduleInv DEF WaitLoop
<1>2. CASE ~\E w \in kpc[cur].on : Runnable(task, w[1])
  <2> DEFINE T == {w[1] : w \in kpc[cur].on}
  <2>1. /\ task' = Reap(task, T) /\ GoTo(k) /\ UNCHANGED <<cur, nextPid, loaded>>
        /\ runq' = Unlinked(runq, task')
    BY <1>2 DEF WaitLoop
  <2> HIDE DEF T
  <2>2. /\ Reap(task, T) \in [Slots -> Task]
        /\ \A t \in Slots : /\ Runnable(Reap(task, T), t) <=> Runnable(task, t)
                            /\ Reap(task, T)[t].st = "running" <=> task[t].st = "running"
    BY ReapFacts DEF Inv, TypeOK
  <2>3. runq' = runq
    BY <2>1, <2>2, UnlinkedRunq
  <2>4. TypeOK'
    BY <2>1, <2>2, <2>3 DEF Inv, TypeOK, GoTo
  <2> QED BY <2>1, <2>2, <2>3, <2>4, FrameInv
<1> QED BY <1>1, <1>2

\* user_process_create, user_fork and thread_create hand in a well-typed task.
LEMMA NewTaskFacts ==
  ASSUME Inv, NEW s \in Slots
  PROVE  /\ \A f \in Images :
              [Blank EXCEPT !.user = TRUE, !.parent = cur, !.u = FreshContext(s, f)] \in Task
         /\ [Blank EXCEPT !.user = TRUE, !.parent = cur, !.hdl = task[cur].hdl,
                          !.u = Translate(task[cur].u, cur, s)] \in Task
<1>1. cur \in Slots /\ task[cur] \in Task
  BY DEF Inv, TypeOK
<1>2. \A f \in Images : FreshContext(s, f) \in Context
  BY DEF FreshContext, Context
<1>3. Translate(task[cur].u, cur, s) \in Context
  BY <1>1 DEF Translate, Context, Task
<1>4. Blank \in Task
  BY ConstantFacts
<1> QED BY <1>1, <1>2, <1>3, <1>4 DEF Task

\* Kernel code that continues after schedule(), or on the way out of a trap.
LEMMA KernelStepInv == ASSUME Inv, KernelStep PROVE Inv'
<1>0. kpc[cur] \in Continuation /\ cur \in Slots
  BY DEF Inv, TypeOK
<1>1. CASE Start
  <2> DEFINE k == IF task[cur].user THEN At("user") ELSE [At("kthread") EXCEPT !.n = Rounds]
  <2>1. k \in Continuation
    BY ProcAssumption DEF At, Continuation, Points
  <2>2. GoTo(k) /\ UNCHANGED <<task, runq, cur, nextPid, loaded>>
    BY <1>1 DEF Start, GoTo
  <2> QED BY <2>1, <2>2, GoToInv
<1>2. CASE KThread
  <2>1. CASE kpc[cur].n > 0
    <3>1. [kpc[cur] EXCEPT !.n = @ - 1] \in Continuation
      BY <1>0, <2>1 DEF Continuation
    <3> QED BY <1>2, <2>1, <3>1, ScheduleInv DEF KThread
  <2>2. CASE ~(kpc[cur].n > 0)
    BY <1>2, <2>2, ThreadExitInv DEF KThread
  <2> QED BY <2>1, <2>2
<1>3. CASE Poll
  <2>1. At("poll") \in Continuation /\ At("trapret") \in Continuation
    BY ContinuationFacts DEF Points
  <2> QED BY <1>3, <2>1, ScheduleInv, GoToInv DEF Poll
<1>4. CASE WaitpidStep
  <2>1. At("trapret") \in Continuation
    BY ContinuationFacts DEF Points
  <2> QED BY <1>4, <2>1, WaitLoopInv DEF WaitpidStep
<1>5. CASE TrapReturn
  <2>1. At("user") \in Continuation
    BY ContinuationFacts DEF Points
  <2>2. CASE task[cur].handling # 0 \/ task[cur].pend = {}
    BY <1>5, <2>1, <2>2, GoToInv DEF TrapReturn
  <2>3. CASE /\ ~(task[cur].handling # 0 \/ task[cur].pend = {})
             /\ FirstPending(cur) \in task[cur].hdl
    <3> DEFINE sig == FirstPending(cur)
               p == Delivered(task[cur], sig)
    <3>1. task[cur] \in Task
      BY DEF Inv, TypeOK
    <3>2. sig \in Signals
      BY <2>3, <3>1 DEF Task
    <3>3. HandlerContextOf(task[cur]) \in Context
      BY <1>0, <3>1 DEF HandlerContextOf, Context, Task
    <3> HIDE DEF sig
    <3>4. p \in Task /\ p.st = task[cur].st
      BY <3>1, <3>2, <3>3 DEF Delivered, Task
    <3>5. /\ task' = [task EXCEPT ![cur] = p]
          /\ kpc' = [kpc EXCEPT ![cur] = At("user")]
          /\ UNCHANGED <<runq, cur, nextPid, loaded>>
      BY <1>5, <2>3 DEF TrapReturn, Deliver, GoTo, sig
    <3> HIDE DEF p
    <3>6. loaded' \in Images
      BY <3>5 DEF Inv, TypeOK
    <3> QED BY <2>1, <3>4, <3>5, <3>6, OwnFieldsInv
  <2>4. CASE /\ ~(task[cur].handling # 0 \/ task[cur].pend = {})
             /\ FirstPending(cur) \notin task[cur].hdl
    BY <1>5, <2>4, ThreadExitInv DEF TrapReturn
  <2> QED BY <2>2, <2>3, <2>4
<1>6. CASE ShellWait
  <2>1. At("prompt") \in Continuation
    BY ContinuationFacts DEF Points
  <2> QED BY <1>6, <2>1, WaitLoopInv DEF ShellWait
<1>7. CASE ShellSpawn
  <2>1. CASE kpc[cur].n = 0
    <3>1. [kpc[cur] EXCEPT !.at = "thwait"] \in Continuation
      BY <1>0 DEF Continuation, Points
    <3> QED BY <1>7, <2>1, <3>1, GoToInv DEF ShellSpawn
  <2>2. CASE kpc[cur].n # 0
    <3> DEFINE less == [kpc[cur] EXCEPT !.n = @ - 1]
               s == AllocTask(KillZombies(task))
               ok == [less EXCEPT !.on = @ \cup {<<s, nextPid>>}]
    <3>1. less \in Continuation
      BY <1>0, <2>2 DEF Continuation
    <3>2. CASE s = Nil
      <4>1. Create(KillZombies(task), s, Blank, less, less)
        BY <1>7, <2>2, <3>2 DEF ShellSpawn, Create
      <4>2. UNCHANGED cur /\ loaded' \in Images
        BY <1>7 DEF ShellSpawn, Inv, TypeOK
      <4> HIDE DEF less
      <4> QED BY <3>1, <4>1, <4>2, ConstantFacts, CreateInv
    <3>3. CASE s # Nil
      <4>1. s \in Slots
        <5>1. KillZombies(task) \in [Slots -> Task]
          BY ReapFacts DEF KillZombies, Inv, TypeOK
        <5> QED BY <3>3, <5>1, AllocFacts
      <4>2. ok \in Continuation
        <5>1. nextPid \in Int
          BY DEF Inv, TypeOK
        <5>2. {<<s, nextPid>>} \in SUBSET (Slots \X Int)
          BY <4>1, <5>1
        <5> HIDE DEF s, less
        <5> QED BY <3>1, <5>2 DEF Continuation
      <4>3. Create(KillZombies(task), s, Blank, ok, less)
        BY <1>7, <2>2 DEF ShellSpawn
      <4>4. UNCHANGED cur /\ loaded' \in Images
        BY <1>7 DEF ShellSpawn, Inv, TypeOK
      <4> HIDE DEF ok, less
      <4> QED BY <3>1, <4>2, <4>3, <4>4, ConstantFacts, CreateInv
    <3> QED BY <3>2, <3>3
  <2> QED BY <2>1, <2>2
<1>8. CASE ThreadsWait
  <2>1. CASE \E w \in kpc[cur].on : Runnable(task, w[1])
    BY <1>0, <1>8, <2>1, ScheduleInv DEF ThreadsWait
  <2>2. CASE ~\E w \in kpc[cur].on : Runnable(task, w[1])
    <3>1. /\ task' = KillZombies(task) /\ runq' = Unlinked(runq, task')
          /\ GoTo(At("prompt")) /\ UNCHANGED <<cur, nextPid, loaded>>
      BY <1>8, <2>2 DEF ThreadsWait
    <3>2. /\ KillZombies(task) \in [Slots -> Task]
          /\ \A t \in Slots :
               /\ Runnable(KillZombies(task), t) <=> Runnable(task, t)
               /\ KillZombies(task)[t].st = "running" <=> task[t].st = "running"
      BY ReapFacts DEF KillZombies, Inv, TypeOK
    <3>3. At("prompt") \in Continuation
      BY ContinuationFacts DEF Points
    <3>4. runq' = runq
      BY <3>1, <3>2, UnlinkedRunq
    <3>5. TypeOK'
      BY <3>1, <3>2, <3>3, <3>4 DEF Inv, TypeOK, GoTo
    <3> QED BY <3>1, <3>2, <3>4, <3>5, FrameInv
  <2> QED BY <2>1, <2>2
<1> QED BY <1>1, <1>2, <1>3, <1>4, <1>5, <1>6, <1>7, <1>8 DEF KernelStep

\* The timer interrupt and the system calls of a process.
LEMMA UserStepInv == ASSUME Inv, Tick \/ UserStep PROVE Inv'
<1>0. /\ kpc[cur] \in Continuation /\ cur \in Slots /\ task[cur] \in Task
      /\ At("trapret") \in Continuation /\ At("poll") \in Continuation
  BY ContinuationFacts DEF Inv, TypeOK, Points
<1>1. CASE Tick
  BY <1>0, <1>1, ScheduleInv DEF Tick
<1>2. CASE PlainTrap
  BY <1>0, <1>2, GoToInv DEF PlainTrap
<1>3. CASE SysPoll
  BY <1>0, <1>3, GoToInv DEF SysPoll
<1>4. CASE SysWaitpid
  <2>1. PICK t \in Slots : GoTo(Watching("waitpid", {<<t, task[t].pid>>}))
    BY <1>4 DEF SysWaitpid
  <2>2. task[t].pid \in Int
    BY DEF Inv, TypeOK, Task
  <2>3. {<<t, task[t].pid>>} \in SUBSET (Slots \X Int)
    BY <2>2
  <2>4. Watching("waitpid", {<<t, task[t].pid>>}) \in Continuation
    BY <2>3, ContinuationFacts DEF Points
  <2> QED BY <1>4, <2>1, <2>4, GoToInv DEF SysWaitpid
<1>5. CASE SysExit
  BY <1>5, ThreadExitInv DEF SysExit
<1>6. CASE SysStop
  BY <1>6, TaskKillInv DEF SysStop
<1>7. CASE SysKill
  <2>1. PICK t \in Slots, sig \in Signals :
          /\ task[t].user /\ Runnable(task, t)
          /\ IF sig \notin task[t].hdl
             THEN TaskKill(t)
             ELSE /\ task' = [task EXCEPT ![t].pend = @ \cup {sig}]
                  /\ GoTo(At("trapret"))
                  /\ UNCHANGED <<runq, cur, nextPid, loaded>>
    BY <1>7 DEF SysKill
  <2>2. CASE sig \notin task[t].hdl
    BY <2>1, <2>2, TaskKillInv
  <2>3. CASE sig \in task[t].hdl
    <3>1. task' = [task EXCEPT ![t].pend = @ \cup {sig}]
          /\ GoTo(At("trapret")) /\ UNCHANGED <<runq, cur, nextPid, loaded>>
      BY <2>1, <2>3
    <3>2. \A x \in Slots : task'[x] \in Task /\ task'[x].st = task[x].st
      <4>1. task \in [Slots -> Task]
        BY DEF Inv, TypeOK
      <4>2. [task[t] EXCEPT !.pend = @ \cup {sig}] \in Task
            /\ [task[t] EXCEPT !.pend = @ \cup {sig}].st = task[t].st
        BY <4>1 DEF Task
      <4> QED BY <3>1, <4>1, <4>2
    <3>3. TypeOK'
      BY <1>0, <3>1, <3>2 DEF Inv, TypeOK, GoTo
    <3>4. \A x \in Slots : /\ Runnable(task', x) <=> Runnable(task, x)
                           /\ task'[x].st = "running" <=> task[x].st = "running"
      BY <3>2 DEF Runnable
    <3> QED BY <3>1, <3>3, <3>4, FrameInv
  <2> QED BY <2>2, <2>3
<1>8. CASE SysSignal
  <2>1. PICK sig \in Signals, h \in SUBSET Signals :
          task' = [task EXCEPT ![cur].hdl = (@ \ {sig}) \cup h]
    BY <1>8 DEF SysSignal
  <2> DEFINE p == [task[cur] EXCEPT !.hdl = (@ \ {sig}) \cup h]
  <2>2. p \in Task /\ p.st = task[cur].st
    BY <1>0 DEF Task
  <2>3. task' = [task EXCEPT ![cur] = p]
    BY <2>1 DEF Inv, TypeOK
  <2>4. loaded' \in Images /\ kpc' = [kpc EXCEPT ![cur] = At("trapret")]
    BY <1>8 DEF SysSignal, GoTo, Inv, TypeOK
  <2> HIDE DEF p
  <2> QED BY <1>0, <1>8, <2>2, <2>3, <2>4, OwnFieldsInv DEF SysSignal
<1>9. CASE Sigreturn
  <2> DEFINE p == IF task[cur].handling = 0
                  THEN [task[cur] EXCEPT !.u.mode = "stuck"]
                  ELSE [task[cur] EXCEPT !.u = task[cur].saved, !.saved = NoContext,
                                         !.handling = 0]
  <2>1. p \in Task /\ p.st = task[cur].st
    BY <1>0, ConstantFacts DEF Task, Context
  <2>2. task' = [task EXCEPT ![cur] = p]
    BY <1>9 DEF Sigreturn
  <2>3. loaded' \in Images /\ kpc' = [kpc EXCEPT ![cur] = At("trapret")]
    BY <1>9 DEF Sigreturn, GoTo, Inv, TypeOK
  <2> HIDE DEF p
  <2> QED BY <1>0, <1>9, <2>1, <2>2, <2>3, OwnFieldsInv DEF Sigreturn
<1>10. CASE SysExec
  <2>1. PICK f \in Files :
          /\ loaded' = f
          /\ task' = [task EXCEPT ![cur] = [SignalInit(@) EXCEPT !.u = FreshContext(cur, f)]]
    BY <1>10 DEF SysExec
  <2> DEFINE p == [SignalInit(task[cur]) EXCEPT !.u = FreshContext(cur, f)]
  <2>2. SignalInit(task[cur]) \in Task /\ SignalInit(task[cur]).st = task[cur].st
    BY <1>0, ConstantFacts DEF SignalInit, Task
  <2>3. FreshContext(cur, f) \in Context
    BY <1>0 DEF FreshContext, Context, Images
  <2>4. p \in Task /\ p.st = task[cur].st
    BY <2>2, <2>3 DEF Task
  <2>5. task' = [task EXCEPT ![cur] = p]
    BY <2>1
  <2>6. loaded' \in Images /\ kpc' = [kpc EXCEPT ![cur] = At("trapret")]
    BY <1>10, <2>1 DEF SysExec, GoTo, Images
  <2> HIDE DEF p
  <2> QED BY <1>0, <1>10, <2>4, <2>5, <2>6, OwnFieldsInv DEF SysExec
<1>11. CASE SysFork
  <2> DEFINE s == AllocTask(KillZombies(task))
             child == [Blank EXCEPT !.user = TRUE, !.parent = cur, !.hdl = task[cur].hdl,
                                    !.u = Translate(task[cur].u, cur, s)]
  <2>1. KillZombies(task) \in [Slots -> Task]
    BY ReapFacts DEF KillZombies, Inv, TypeOK
  <2>2. s # Nil => s \in Slots
    BY <2>1, AllocFacts
  <2> HIDE DEF s
  <2>3. s # Nil => child \in Task
    BY <2>2, NewTaskFacts
  <2>4. Create(KillZombies(task), s, child, At("trapret"), At("trapret"))
    BY <1>11 DEF SysFork, s
  <2>5. UNCHANGED cur /\ loaded' \in Images
    BY <1>11 DEF SysFork, Inv, TypeOK
  <2> HIDE DEF child
  <2> QED BY <1>0, <2>3, <2>4, <2>5, CreateInv DEF s
<1> QED BY <1>1, <1>2, <1>3, <1>4, <1>5, <1>6, <1>7, <1>8, <1>9, <1>10, <1>11 DEF UserStep

\* The commands of the shell.
LEMMA ShellStepInv == ASSUME Inv, ShellStep PROVE Inv'
<1>1. CASE ShellIdle
  BY <1>1, StutterInv DEF ShellIdle
<1>2. CASE ShellRun
  <2> DEFINE s == AllocTask(KillZombies(task))
             ok == Watching("shwait", {<<s, nextPid>>})
  <2>1. PICK f \in Images :
          /\ Create(KillZombies(task), s,
                    [Blank EXCEPT !.user = TRUE, !.parent = cur, !.u = FreshContext(s, f)],
                    ok, At("prompt"))
          /\ loaded' = IF f = Linked THEN loaded ELSE f
          /\ UNCHANGED cur
    BY <1>2 DEF ShellRun
  <2> DEFINE new == [Blank EXCEPT !.user = TRUE, !.parent = cur, !.u = FreshContext(s, f)]
  <2>2. s # Nil => s \in Slots
    <3>1. KillZombies(task) \in [Slots -> Task]
      BY ReapFacts DEF KillZombies, Inv, TypeOK
    <3> QED BY <3>1, AllocFacts
  <2>3. s # Nil => new \in Task
    BY <2>2, NewTaskFacts
  <2>4. s # Nil => ok \in Continuation
    <3>1. nextPid \in Int
      BY DEF Inv, TypeOK
    <3> HIDE DEF s
    <3>2. s # Nil => {<<s, nextPid>>} \in SUBSET (Slots \X Int)
      BY <2>2, <3>1
    <3> QED BY <3>2, ContinuationFacts DEF Points
  <2>5. At("prompt") \in Continuation
    BY ContinuationFacts DEF Points
  <2>6. loaded' \in Images
    BY <2>1 DEF Inv, TypeOK
  <2> HIDE DEF new
  <2>7. Create(KillZombies(task), s, new, ok, At("prompt")) /\ UNCHANGED cur
    BY <2>1 DEF new
  <2>8. CASE s = Nil
    <3>1. Create(KillZombies(task), s, new, At("prompt"), At("prompt"))
      BY <2>7, <2>8 DEF Create
    <3> QED BY <2>3, <2>5, <2>6, <2>7, <3>1, CreateInv
  <2>9. CASE s # Nil
    <3> HIDE DEF ok
    <3> QED BY <2>3, <2>4, <2>5, <2>6, <2>7, <2>9, CreateInv
  <2> QED BY <2>8, <2>9
<1>3. CASE ShellThreadTest
  <2>1. [At("spawn") EXCEPT !.n = TestThreads] \in Continuation
    BY ProcAssumption DEF At, Continuation, Points
  <2> QED BY <1>3, <2>1, GoToInv DEF ShellThreadTest
<1> QED BY <1>1, <1>2, <1>3 DEF ShellStep

\* Every step of the process layer keeps the invariant.
THEOREM NextInv == Inv /\ [Next]_vars => Inv'
<1> SUFFICES ASSUME Inv, [Next]_vars PROVE Inv'
  OBVIOUS
<1>1. CASE KernelStep
  BY <1>1, KernelStepInv
<1>2. CASE Tick \/ UserStep
  BY <1>2, UserStepInv
<1>3. CASE ShellStep
  BY <1>3, ShellStepInv
<1>4. CASE UNCHANGED vars
  BY <1>4, StutterInv
<1> QED BY <1>1, <1>2, <1>3, <1>4 DEF Next

\* In every behaviour of the process layer the variables keep their types: the
\* task that runs next, the slot a new task gets and the slots a wait loop
\* watches always exist.
THEOREM TypeCorrect == Spec => []TypeOK
<1>1. Inv => TypeOK
  BY DEF Inv
<1> QED BY InitInv, NextInv, <1>1, PTL DEF Spec

\* In every behaviour the ring of thread.c holds exactly the runnable tasks, each
\* once, and tp is the one in state TASK_RUNNING.
THEOREM RunQueueCorrect == Spec => []RunQueueExact
<1>1. Inv => RunQueueExact
  BY DEF Inv
<1> QED BY InitInv, NextInv, <1>1, PTL DEF Spec
=============================================================================
