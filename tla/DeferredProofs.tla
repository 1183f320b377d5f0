--------------------------- MODULE DeferredProofs ---------------------------
(***************************************************************************)
(* Proofs about Deferred, for every number of message slots, size of the   *)
(* pools, length of a tick and set of delays: the types, the comparator    *)
(* and the nesting of priorities.                                          *)
(***************************************************************************)
EXTENDS DeferredProps, SequenceTheorems, FiniteSetTheorems, NatFacts

(***************************************************************************)
(* The inductive invariant.                                                *)
(***************************************************************************)
CallbackPoints == {"body", "trigger", "end"}

\* Only the innermost trap can be outside a callback; one that has interrupted
\* another has interrupted its callback, and the one from U-mode is the outermost.
FrameRules ==
  \A i \in 1 .. Len(frames) :
    /\ frames[i].at \in CallbackPoints <=> frames[i].cb # None
    /\ i > 1 => frames[i].at \in CallbackPoints
    /\ frames[i].at = "timer" => hw <= now
    /\ frames[i].user => i = Len(frames)
    /\ frames[i].at = "sched" => frames[i].user

\* Trap code runs with interrupts disabled, except inside a callback.
Masking == sie /\ frames # <<>> => frames[1].at \in CallbackPoints

Inv == TypeOK /\ FrameRules /\ Masking /\ EarliestArmed /\ PrioritiesNest

(***************************************************************************)
(* Sequences: the stack of frames and the two sorted lists.                *)
(***************************************************************************)
\* A trap taken on top of the others.
LEMMA Push ==
  ASSUME NEW S, NEW s \in Seq(S), NEW e \in S
  PROVE  /\ <<e>> \o s \in Seq(S) /\ Len(<<e>> \o s) = Len(s) + 1
         /\ (<<e>> \o s)[1] = e
         /\ \A i \in 2 .. Len(s) + 1 : (<<e>> \o s)[i] = s[i - 1]
  OBVIOUS

\* A trap that has ended, or a list without its first entry.
LEMMA Pop ==
  ASSUME NEW S, NEW s \in Seq(S), s # <<>>
  PROVE  /\ Head(s) = s[1] /\ s[1] \in S /\ Len(s) > 0
         /\ Tail(s) \in Seq(S) /\ Len(Tail(s)) = Len(s) - 1
         /\ \A i \in 1 .. Len(s) - 1 : Tail(s)[i] = s[i + 1]
  OBVIOUS

\* The innermost trap goes on.
LEMMA ReplaceFirst ==
  ASSUME NEW S, NEW s \in Seq(S), s # <<>>, NEW e \in S
  PROVE  /\ [s EXCEPT ![1] = e] \in Seq(S)
         /\ Len([s EXCEPT ![1] = e]) = Len(s)
         /\ [s EXCEPT ![1] = e][1] = e
         /\ \A i \in 2 .. Len(s) : [s EXCEPT ![1] = e][i] = s[i]
  OBVIOUS

\* add_timer and add_task lengthen a list by their entry, and leave its head in
\* front when it stays there.
LEMMA Insert ==
  ASSUME NEW S, NEW q \in Seq(S), NEW e \in S, NEW stays \in SUBSET (1 .. Len(q))
  PROVE  /\ InsertAfter(q, e, stays) \in Seq(S)
         /\ Len(InsertAfter(q, e, stays)) = Len(q) + 1
         /\ InsertAfter(q, e, stays) # <<>>
         /\ Head(InsertAfter(q, e, stays)) = IF 1 \in stays THEN q[1] ELSE e
<1> DEFINE u == InsertAfter(q, e, stays)
<1>1. \A i \in 1 .. Len(q) + 1 : i \notin stays /\ i # 1 /\ i - 1 \notin stays => i - 1 \in 1 .. Len(q)
  OBVIOUS
<1>2. u = [i \in 1 .. Len(q) + 1 |->
             IF i \in stays THEN q[i] ELSE IF i = 1 \/ i - 1 \in stays THEN e ELSE q[i - 1]]
  BY DEF InsertAfter
<1>3. \A i \in 1 .. Len(q) + 1 : u[i] \in S
  BY <1>1, <1>2
<1>4. u \in Seq(S) /\ Len(u) = Len(q) + 1
  BY <1>2, <1>3
<1>5. u[1] = IF 1 \in stays THEN q[1] ELSE e
  BY <1>2
<1>6. u # <<>> /\ Head(u) = u[1]
  BY <1>4
<1> QED BY <1>4, <1>5, <1>6

(***************************************************************************)
(* add_timer and add_task keep a list sorted by putting the entry behind   *)
(* those that are not after it.                                            *)
(***************************************************************************)
Sorted(q, R) == \A i, j \in 1 .. Len(q) : i < j => <<q[i], q[j]>> \in R

\* R compares any two members of S.
Ordering(S, R) ==
  /\ \A x, y \in S : <<x, y>> \in R \/ <<y, x>> \in R
  /\ \A x, y, z \in S : <<x, y>> \in R /\ <<y, z>> \in R => <<x, z>> \in R

Prefix(stays) == \A i, j \in Nat : 0 < i /\ i < j /\ j \in stays => i \in stays

\* The entries that stay in front are a prefix of the list.
LEMMA StaysPrefix ==
  ASSUME NEW S, NEW R, Ordering(S, R), NEW q \in Seq(S), Sorted(q, R), NEW e \in S
  PROVE  Prefix({i \in 1 .. Len(q) : <<q[i], e>> \in R})
<1> DEFINE stays == {i \in 1 .. Len(q) : <<q[i], e>> \in R}
<1> SUFFICES ASSUME NEW i \in Nat, NEW j \in Nat, 0 < i, i < j, j \in stays
             PROVE  i \in stays
  BY DEF Prefix
<1>1. i \in 1 .. Len(q) /\ j \in 1 .. Len(q) /\ q[i] \in S /\ q[j] \in S
  OBVIOUS
<1>2. <<q[i], q[j]>> \in R /\ <<q[j], e>> \in R
  BY <1>1 DEF Sorted
<1> QED BY <1>1, <1>2 DEF Ordering

\* The list u is q with e put in as its k-th entry, behind those that stay.
Inserted(u, q, e, stays, k) ==
  /\ u[k] = e
  /\ \A i \in 1 .. k - 1 : i \in stays /\ u[i] = q[i]
  /\ \A i \in k + 1 .. Len(q) + 1 : i - 1 \in (1 .. Len(q)) \ stays /\ u[i] = q[i - 1]

\* Where an inserted entry ends up: one place more, the others keep their order.
LEMMA InsertPlaces ==
  ASSUME NEW S, NEW q \in Seq(S), NEW e \in S, NEW stays \in SUBSET (1 .. Len(q)),
         Prefix(stays), NEW u, u = InsertAfter(q, e, stays)
  PROVE  \E k \in 1 .. Len(q) + 1 : Inserted(u, q, e, stays, k)
<1> DEFINE gaps == (1 .. Len(q) + 1) \ stays
<1>1. gaps \subseteq Nat /\ Len(q) + 1 \in gaps /\ Len(q) \in Nat
  OBVIOUS
<1>2. PICK k \in gaps : \A i \in gaps : k <= i
  BY <1>1, LeastNatural
<1>3. \A i \in 1 .. Len(q) + 1 :
        u[i] = IF i \in stays THEN q[i] ELSE IF i = 1 \/ i - 1 \in stays THEN e ELSE q[i - 1]
  BY DEF InsertAfter
<1>4. ASSUME NEW i \in 1 .. k - 1
      PROVE  i \in stays /\ u[i] = q[i]
  <2>1. i \in stays
    BY <1>1, <1>2
  <2> QED BY <1>1, <1>3, <2>1
<1>5. k \in 1 .. Len(q) + 1 /\ k \notin stays
  BY <1>2
<1>6. u[k] = e
  BY <1>3, <1>4, <1>5
<1>7. ASSUME NEW i \in k + 1 .. Len(q) + 1
      PROVE  i - 1 \in (1 .. Len(q)) \ stays /\ u[i] = q[i - 1]
  <2>1. i \in Nat /\ i - 1 \in Nat /\ k \in Nat /\ 0 < k /\ k < i /\ k <= i - 1
    BY <1>1, <1>5
  <2>2. i \notin stays /\ i - 1 \notin stays
    BY <1>5, <2>1 DEF Prefix
  <2> QED BY <1>1, <1>3, <1>5, <2>1, <2>2
<1> QED BY <1>4, <1>5, <1>6, <1>7 DEF Inserted

\* A list that is ordered by its keys stays ordered.
LEMMA InsertSorted ==
  ASSUME NEW S, NEW R, Ordering(S, R), NEW q \in Seq(S), Sorted(q, R), NEW e \in S
  PROVE  Sorted(InsertAfter(q, e, {i \in 1 .. Len(q) : <<q[i], e>> \in R}), R)
<1> DEFINE stays == {i \in 1 .. Len(q) : <<q[i], e>> \in R}
           u == InsertAfter(q, e, stays)
<1>1. Prefix(stays) /\ stays \in SUBSET (1 .. Len(q))
  BY StaysPrefix
<1>3. \A i \in stays : <<q[i], e>> \in R
  OBVIOUS
<1>4. \A i \in (1 .. Len(q)) \ stays : <<e, q[i]>> \in R
  BY DEF Ordering
<1> HIDE DEF stays
<1>2. u \in Seq(S) /\ Len(u) = Len(q) + 1 /\ Len(q) \in Nat
  <2>1. InsertAfter(q, e, stays) \in Seq(S) /\ Len(InsertAfter(q, e, stays)) = Len(q) + 1
    BY <1>1, Insert
  <2> QED BY <2>1
<1>7. u = InsertAfter(q, e, stays)
  OBVIOUS
<1> HIDE DEF u
<1>5. PICK k \in 1 .. Len(q) + 1 : Inserted(u, q, e, stays, k)
  BY <1>1, <1>7, InsertPlaces, Zenon
<1> USE DEF Inserted
<1>6. ASSUME NEW i \in 1 .. Len(q) + 1, NEW j \in 1 .. Len(q) + 1, i < j
      PROVE  <<u[i], u[j]>> \in R
  <2>1. CASE j < k
    <3>1. i \in 1 .. k - 1 /\ j \in 1 .. k - 1
      BY <1>2, <1>6, <2>1
    <3>2. u[i] = q[i] /\ u[j] = q[j]
      BY <1>5, <3>1
    <3> QED BY <1>1, <1>5, <1>6, <3>1, <3>2 DEF Sorted
  <2>2. CASE j = k
    <3>1. i \in 1 .. k - 1
      BY <1>2, <1>6, <2>2
    <3> QED BY <1>3, <1>5, <2>2, <3>1
  <2>3. CASE j > k
    <3>1. j \in k + 1 .. Len(q) + 1
      BY <1>2, <2>3
    <3>2. u[j] = q[j - 1] /\ j - 1 \in (1 .. Len(q)) \ stays
      BY <1>5, <3>1
    <3>3. CASE i < k
      <4>1. i \in 1 .. k - 1 /\ i < j - 1
        BY <1>2, <2>3, <3>3
      <4>2. u[i] = q[i] /\ i \in 1 .. Len(q)
        BY <1>1, <1>5, <4>1
      <4> QED BY <3>2, <4>1, <4>2 DEF Sorted
    <3>4. CASE i = k
      BY <1>4, <1>5, <3>2, <3>4
    <3>5. CASE i > k
      <4>1. i \in k + 1 .. Len(q) + 1
        BY <1>2, <3>5
      <4>2. u[i] = q[i - 1] /\ i - 1 \in 1 .. Len(q) /\ i - 1 < j - 1
        BY <1>5, <1>6, <4>1
      <4> QED BY <3>2, <4>2 DEF Sorted
    <3> QED BY <1>2, <3>3, <3>4, <3>5
  <2> QED BY <1>2, <2>1, <2>2, <2>3
<1> QED BY <1>2, <1>6 DEF Sorted, u, stays

\* A due timer task, or none when the pool is exhausted.
LEMMA AddTaskTyped ==
  ASSUME NEW q \in Seq(TaskEvent), NEW e \in TaskEvent, Len(q) <= TaskPool
  PROVE  AddTask(q, e) \in Seq(TaskEvent) /\ Len(AddTask(q, e)) <= TaskPool
<1> DEFINE stays == {i \in 1 .. Len(q) : q[i].prio >= e.prio}
<1>1. InsertTask(q, e) \in Seq(TaskEvent) /\ Len(InsertTask(q, e)) = Len(q) + 1
  BY Insert DEF InsertTask
<1> QED BY <1>1, DeferredAssumption DEF AddTask

\* timer_handle_interrupt leaves a tick in the future.
LEMMA TickAfterTyped ==
  ASSUME nextTick \in Nat, NEW time \in Nat
  PROVE  TickAfter(time) \in Nat
<1>1. CASE nextTick > time
  BY <1>1 DEF TickAfter
<1>2. CASE nextTick <= time
  <2> DEFINE d == (time - nextTick) \div Tick
  <2>1. Tick \in Nat /\ Tick > 0
    BY DeferredAssumption
  <2>2. d \in Nat
    <3> DEFINE x == time - nextTick
    <3>1. x \in Nat
      BY <1>2
    <3> HIDE DEF x
    <3>2. x \div Tick \in Nat
      BY <2>1, <3>1
    <3> QED BY <3>2 DEF x
  <2> HIDE DEF d
  <2>3. Tick * (d + 1) \in Nat
    BY <2>1, <2>2
  <2> QED BY <1>2, <2>3 DEF TickAfter, d
<1> QED BY <1>1, <1>2

\* What timer_program_next_locked writes is a time.
LEMMA EarliestTyped ==
  ASSUME NEW q \in Seq(TimerEvent), NEW tick \in Nat
  PROVE  Earliest(q, tick) \in Nat
<1>1. CASE q # <<>>
  <2>1. q[1] \in TimerEvent /\ Head(q) = q[1]
    BY <1>1, Pop
  <2> QED BY <2>1 DEF Earliest, TimerEvent
<1>2. CASE q = <<>>
  BY <1>2 DEF Earliest
<1> QED BY <1>1, <1>2

\* add_timer keeps the list and the comparator right: a new first event
\* reprograms it, any other leaves the event it was programmed for in front.
LEMMA AddTimerStep ==
  ASSUME Inv, NEW cb \in Callbacks, NEW delay \in Nat, AddTimer(cb, delay),
         Len(timers) < TimerPool, now' = now, nextTick' = nextTick
  PROVE  /\ timers' \in Seq(TimerEvent) /\ Len(timers') <= TimerPool
         /\ hw' \in Nat /\ EarliestArmed'
<1> DEFINE e == [at |-> now + delay, cb |-> cb]
           stays == {i \in 1 .. Len(timers) : timers[i].at <= e.at}
<1>1. now \in Nat /\ nextTick \in Nat /\ hw \in Nat /\ timers \in Seq(TimerEvent)
      /\ EarliestArmed
  BY DEF Inv, TypeOK
<1>2. e \in TimerEvent /\ e.at = now + delay
  BY <1>1 DEF TimerEvent
<1>3. timers' = InsertAfter(timers, e, stays) /\ hw' = Arm(timers', e)
  BY DEF AddTimer, InsertTimer
<1> HIDE DEF e
<1>4. /\ timers' \in Seq(TimerEvent) /\ Len(timers') = Len(timers) + 1 /\ timers' # <<>>
      /\ Head(timers') = IF 1 \in stays THEN timers[1] ELSE e
  BY <1>1, <1>2, <1>3, Insert
<1>5. Len(timers') <= TimerPool
  BY <1>1, <1>4, DeferredAssumption
<1>6. Earliest(timers', nextTick) \in Nat
  BY <1>1, <1>4, EarliestTyped
<1>7. CASE timers = <<>> \/ e.at < Head(timers).at
  BY <1>3, <1>4, <1>5, <1>6, <1>7 DEF Arm, EarliestArmed
<1>8. CASE ~(timers = <<>> \/ e.at < Head(timers).at)
  <2>1. hw' = hw
    BY <1>3, <1>8 DEF Arm
  <2>0. timers # <<>>
    BY <1>8
  <2>2. Head(timers) = timers[1] /\ timers[1].at \in Nat /\ 1 \in 1 .. Len(timers)
    <3>1. Head(timers) = timers[1] /\ timers[1] \in TimerEvent /\ Len(timers) > 0
      BY <1>1, <2>0, Pop
    <3> QED BY <1>1, <3>1 DEF TimerEvent
  <2>3. 1 \in stays
    BY <1>1, <1>2, <1>8, <2>2
  <2>4. Earliest(timers', nextTick) = Earliest(timers, nextTick)
    BY <1>4, <1>8, <2>2, <2>3 DEF Earliest
  <2> QED BY <1>1, <1>4, <1>5, <2>1, <2>4 DEF EarliestArmed
<1> QED BY <1>7, <1>8

(***************************************************************************)
(* The stack of frames.                                                    *)
(***************************************************************************)
\* A step that leaves the frames and the priority alone, and does not move the
\* comparator into the future while a timer interrupt is being handled.
LEMMA SameFrames ==
  ASSUME Inv, frames' = frames, prio' = prio, sie' => sie,
         frames = <<>> \/ (hw <= now => hw' <= now')
  PROVE  FrameRules' /\ Masking' /\ PrioritiesNest'
<1>1. Active' = Active
  BY DEF Active
<1>2. PrioritiesNest'
  BY <1>1 DEF Inv, PrioritiesNest
<1>3. FrameRules' /\ Masking'
  BY DEF Inv, TypeOK, FrameRules, Masking
<1> QED BY <1>2, <1>3

\* The innermost trap goes on to the frame f.
LEMMA FrameMoves ==
  ASSUME Inv, frames # <<>>, NEW f \in Frame, frames' = [frames EXCEPT ![1] = f],
         f.at \in CallbackPoints <=> f.cb # None,
         f.at = "timer" => hw' <= now',
         f.at = "sched" => f.user,
         f.user => frames[1].user,
         sie' => f.at \in CallbackPoints
  PROVE  /\ frames' \in Seq(Frame) /\ FrameRules' /\ Masking'
         /\ Len(frames') = Len(frames) /\ frames'[1] = f
         /\ \A i \in 2 .. Len(frames) : frames'[i] = frames[i]
<1>1. frames \in Seq(Frame) /\ Len(frames) >= 1
  BY Pop DEF Inv, TypeOK
<1>2. /\ frames' \in Seq(Frame) /\ Len(frames') = Len(frames) /\ frames'[1] = f
      /\ \A i \in 2 .. Len(frames) : frames'[i] = frames[i]
  BY <1>1, ReplaceFirst
<1>3. FrameRules'
  <2>1. ASSUME NEW i \in 2 .. Len(frames)
        PROVE  frames[i].at \in CallbackPoints
    BY <1>1 DEF Inv, FrameRules
  <2>2. ASSUME NEW i \in 1 .. Len(frames)
        PROVE  /\ frames'[i].at \in CallbackPoints <=> frames'[i].cb # None
               /\ i > 1 => frames'[i].at \in CallbackPoints
               /\ frames'[i].at = "timer" => hw' <= now'
               /\ frames'[i].user => i = Len(frames)
               /\ frames'[i].at = "sched" => frames'[i].user
    <3>1. CASE i = 1
      <4>1. frames'[i] = f /\ ~(i > 1)
        BY <1>2, <3>1
      <4>2. 1 \in 1 .. Len(frames)
        BY <1>1
      <4>3. frames[1].user => 1 = Len(frames)
        BY <4>2 DEF Inv, FrameRules
      <4> QED BY <3>1, <4>1, <4>3, Zenon
    <3>2. CASE i # 1
      <4>1. i \in 2 .. Len(frames) /\ frames'[i] = frames[i]
        BY <1>1, <1>2, <3>2
      <4> QED BY <4>1, <2>1 DEF Inv, FrameRules, CallbackPoints
    <3> QED BY <3>1, <3>2
  <2> QED BY <1>2, <2>2 DEF FrameRules
<1> QED BY <1>1, <1>2, <1>3 DEF Masking

\* Its callback, if any, is still the same.
LEMMA SameCallback ==
  ASSUME Inv, frames # <<>>, prio' = prio, Len(frames') = Len(frames),
         frames'[1].cb = frames[1].cb, frames'[1].prev = frames[1].prev,
         \A i \in 2 .. Len(frames) : frames'[i] = frames[i]
  PROVE  PrioritiesNest'
<1>1. frames \in Seq(Frame) /\ Len(frames) >= 1
  BY Pop DEF Inv, TypeOK
<1>2. \A i \in 1 .. Len(frames) :
        frames'[i].cb = frames[i].cb /\ frames'[i].prev = frames[i].prev
  BY <1>1
<1>3. Active' = Active /\ Active \subseteq 1 .. Len(frames)
  BY <1>2 DEF Active
<1> QED BY <1>2, <1>3 DEF Inv, PrioritiesNest

\* An interrupt or a system call: a new frame, outside a callback, on the others.
LEMMA TrapTaken ==
  ASSUME Inv, NEW at \in {"timer", "pending"}, Trap(at), at = "timer" => hw <= now
  PROVE  Inv'
<1> DEFINE f == [at |-> at, user |-> InUser, cb |-> None, prev |-> NoPriority]
<1>1. frames \in Seq(Frame) /\ TypeOK /\ FrameRules /\ PrioritiesNest
  BY DEF Inv, TypeOK
<1>2. f \in Frame /\ f.at = at /\ f.user = InUser /\ f.cb = None
  BY DEF Frame, InUser
<1>3. frames' = <<f>> \o frames
  BY DEF Trap
<1> HIDE DEF f
<1>4. /\ frames' \in Seq(Frame) /\ Len(frames') = Len(frames) + 1 /\ frames'[1] = f
      /\ \A i \in 2 .. Len(frames) + 1 : frames'[i] = frames[i - 1]
  BY <1>1, <1>2, <1>3, Push
<1>5. UNCHANGED <<now, nextTick, hw, timers, tasks, prio, used, shell>> /\ sie' = FALSE
  BY DEF Trap
<1>6. TypeOK' /\ EarliestArmed' /\ Masking'
  BY <1>1, <1>4, <1>5 DEF TypeOK, EarliestArmed, Inv, Masking
<1>7. frames # <<>> => frames[1].at \in CallbackPoints
  BY DEF Trap, Interruptible, InUser, Inv, TypeOK, Masking
<1>8. Len(frames) \in Nat /\ (frames = <<>> <=> Len(frames) = 0)
  BY <1>1
<1>9. \A i \in 1 .. Len(frames) : frames[i].at \in CallbackPoints /\ frames[i].at # "timer"
                                 /\ frames[i].at # "sched"
  BY <1>1, <1>7, <1>8 DEF FrameRules, CallbackPoints
<1>10. FrameRules'
  <2> SUFFICES ASSUME NEW i \in 1 .. Len(frames')
               PROVE  /\ frames'[i].at \in CallbackPoints <=> frames'[i].cb # None
                      /\ i > 1 => frames'[i].at \in CallbackPoints
                      /\ frames'[i].at = "timer" => hw' <= now'
                      /\ frames'[i].user => i = Len(frames')
                      /\ frames'[i].at = "sched" => frames'[i].user
    BY DEF FrameRules
  <2>1. CASE i = 1
    <3>1. f.user => Len(frames) = 0
      BY <1>2, <1>8 DEF InUser
    <3>2. f.at \notin CallbackPoints /\ f.at # "sched"
      BY <1>2 DEF CallbackPoints
    <3> QED BY <1>2, <1>4, <1>5, <1>8, <2>1, <3>1, <3>2
  <2>2. CASE i # 1
    <3> DEFINE j == i - 1
    <3>1. j \in 1 .. Len(frames) /\ frames'[i] = frames[j] /\ i = j + 1
      BY <1>4, <1>8, <2>2
    <3> HIDE DEF j
    <3>2. frames[j].user => j = Len(frames)
      BY <1>1, <3>1 DEF FrameRules
    <3>3. frames[j].at \in CallbackPoints <=> frames[j].cb # None
      BY <1>1, <3>1 DEF FrameRules
    <3> QED BY <1>4, <1>8, <1>9, <3>1, <3>2, <3>3
  <2> QED BY <2>1, <2>2
<1>11. PrioritiesNest'
  <2>1. \A i \in 1 .. Len(frames) + 1 :
          i \in Active' <=> i > 1 /\ i - 1 \in Active
    BY <1>2, <1>4, <1>8 DEF Active
  <2>2. Active \subseteq 1 .. Len(frames) /\ Active' \subseteq 1 .. Len(frames) + 1
    BY <1>4 DEF Active
  <2>3. \A i \in Active : i + 1 \in Active' /\ frames'[i + 1] = frames[i]
    BY <1>4, <1>8, <2>1, <2>2
  <2>4. \A i \in Active' : i - 1 \in Active /\ frames'[i] = frames[i - 1]
    BY <1>4, <1>8, <2>1, <2>2
  <2>5. Active' = {} => prio' = NoPriority
    BY <1>1, <1>5, <2>3 DEF PrioritiesNest
  <2>6. ASSUME NEW i \in Active'
        PROVE  /\ prio' >= frames'[i].prev
               /\ \A j \in Active' : i < j => frames'[i].prev >= frames'[j].prev
               /\ (\A j \in Active' : j <= i) => frames'[i].prev = NoPriority
    <3>1. i - 1 \in Active /\ frames'[i] = frames[i - 1] /\ i \in Nat
      BY <1>8, <2>2, <2>4
    <3>2. prio >= frames[i - 1].prev
      BY <1>1, <3>1 DEF PrioritiesNest
    <3>3. ASSUME NEW j \in Active', i < j
          PROVE  frames'[i].prev >= frames'[j].prev
      <4>1. j - 1 \in Active /\ frames'[j] = frames[j - 1] /\ i - 1 < j - 1
        BY <1>8, <2>2, <2>4, <3>3
      <4> QED BY <1>1, <3>1, <4>1 DEF PrioritiesNest
    <3>4. ASSUME \A j \in Active' : j <= i
          PROVE  frames'[i].prev = NoPriority
      <4>1. \A j \in Active : j <= i - 1
        BY <1>8, <2>2, <2>3, <3>4
      <4> QED BY <1>1, <3>1, <4>1 DEF PrioritiesNest
    <3> QED BY <1>5, <3>1, <3>2, <3>3, <3>4
  <2> QED BY <2>5, <2>6 DEF PrioritiesNest
<1> QED BY <1>6, <1>10, <1>11 DEF Inv

(***************************************************************************)
(* One lemma for each other action that moves the innermost trap.          *)
(***************************************************************************)
\* The innermost frame, when there is one.
LEMMA InnermostFrame ==
  ASSUME Inv, frames # <<>>
  PROVE  /\ frames \in Seq(Frame) /\ Len(frames) \in Nat /\ Len(frames) >= 1
         /\ Head(frames) = frames[1] /\ frames[1] \in Frame /\ 1 \in 1 .. Len(frames)
         /\ frames[1].at \in CallbackPoints <=> frames[1].cb # None
         /\ frames[1].at = "timer" => hw <= now
         /\ frames[1].at = "sched" => frames[1].user
         /\ frames[1].user => Len(frames) = 1
<1>1. /\ frames \in Seq(Frame) /\ Len(frames) \in Nat /\ Len(frames) >= 1
      /\ Head(frames) = frames[1] /\ frames[1] \in Frame /\ 1 \in 1 .. Len(frames)
  BY Pop DEF Inv, TypeOK
<1>2. /\ frames[1].at \in CallbackPoints <=> frames[1].cb # None
      /\ frames[1].at = "timer" => hw <= now
      /\ frames[1].at = "sched" => frames[1].user
      /\ frames[1].user => 1 = Len(frames)
  BY <1>1 DEF Inv, FrameRules
<1> QED BY <1>1, <1>2

\* The innermost trap goes to another point outside or inside the same callback.
LEMMA PointMoves ==
  ASSUME Inv, frames # <<>>, NEW at, To(at),
         at \in {"timer", "sched", "pending", "body", "trigger", "end"},
         at \in CallbackPoints <=> frames[1].at \in CallbackPoints,
         at # "timer", at = "sched" => frames[1].user,
         sie' => at \in CallbackPoints, prio' = prio
  PROVE  frames' \in Seq(Frame) /\ FrameRules' /\ Masking' /\ PrioritiesNest'
<1> DEFINE f == [frames[1] EXCEPT !.at = at]
<1>1. frames \in Seq(Frame) /\ Len(frames) >= 1 /\ frames[1] \in Frame
      /\ (frames[1].at \in CallbackPoints <=> frames[1].cb # None)
  BY InnermostFrame
<1>2. /\ f \in Frame /\ f.at = at /\ f.user = frames[1].user
      /\ f.cb = frames[1].cb /\ f.prev = frames[1].prev
  BY <1>1 DEF Frame
<1>3. frames' = [frames EXCEPT ![1] = f]
  BY <1>1 DEF To
<1> HIDE DEF f
<1>4. /\ frames' \in Seq(Frame) /\ FrameRules' /\ Masking'
      /\ Len(frames') = Len(frames) /\ frames'[1] = f
      /\ \A i \in 2 .. Len(frames) : frames'[i] = frames[i]
  BY <1>1, <1>2, <1>3, FrameMoves
<1>5. PrioritiesNest'
  BY <1>2, <1>4, SameCallback
<1> QED BY <1>4, <1>5

\* One turn of the loop of timer_handle_interrupt.
LEMMA TimerTurnStep ==
  ASSUME Inv, TimerTurn
  PROVE  Inv'
<1>1. /\ now \in Nat /\ nextTick \in Nat /\ hw \in Nat /\ timers \in Seq(TimerEvent)
      /\ Len(timers) <= TimerPool /\ tasks \in Seq(TaskEvent) /\ Len(tasks) <= TaskPool
      /\ used \in SUBSET Msgs /\ frames \in Seq(Frame)
  BY DEF Inv, TypeOK
<1>2. /\ frames # <<>> /\ frames[1].at = "timer" /\ hw <= now
      /\ Head(frames) = frames[1]
  BY InnermostFrame DEF TimerTurn, In
<1>3. nextTick' \in Nat
  BY <1>1, TickAfterTyped DEF TimerTurn
<1>4. UNCHANGED <<now, prio, sie, shell>>
  BY DEF TimerTurn
<1>5. ~sie
  BY <1>2 DEF Inv, Masking, CallbackPoints
<1>6. CASE /\ ~Expired
           /\ hw' = Earliest(timers, nextTick')
           /\ To(IF Head(frames).user THEN "sched" ELSE "pending")
           /\ UNCHANGED <<timers, tasks, used>>
  <2>1. hw' \in Nat /\ EarliestArmed'
    <3>1. Earliest(timers, nextTick') \in Nat
      BY <1>1, <1>3, EarliestTyped
    <3> QED BY <1>6, <3>1 DEF EarliestArmed
  <2> DEFINE at == IF frames[1].user THEN "sched" ELSE "pending"
  <2>2. To(at) /\ at \in {"sched", "pending"} /\ (at = "sched" => frames[1].user)
    BY <1>2, <1>6
  <2> HIDE DEF at
  <2>3. frames' \in Seq(Frame) /\ FrameRules' /\ Masking' /\ PrioritiesNest'
    BY <1>2, <1>4, <1>5, <2>2, PointMoves DEF CallbackPoints
  <2> QED BY <1>1, <1>3, <1>4, <1>6, <2>1, <2>3 DEF Inv, TypeOK
<1>7. CASE /\ Expired
           /\ timers' = Tail(timers)
           /\ DeliverTimer(Head(timers))
           /\ UNCHANGED <<hw, frames>>
  <2>1. /\ timers' \in Seq(TimerEvent) /\ Len(timers') <= TimerPool
        /\ Head(timers) \in TimerEvent
    <3>1. timers # <<>>
      BY <1>7 DEF Expired
    <3>2. /\ timers' \in Seq(TimerEvent) /\ Len(timers') = Len(timers) - 1
          /\ Head(timers) \in TimerEvent
      BY <1>1, <1>7, <3>1, Pop
    <3> QED BY <1>1, <3>2, DeferredAssumption
  <2> DEFINE e == [prio |-> 1, cb |-> Head(timers).cb, due |-> Head(timers).at]
  <2>2. e \in TaskEvent /\ tasks' = AddTask(tasks, e)
    BY <1>7, <2>1 DEF DeliverTimer, TaskEvent, TimerEvent
  <2> HIDE DEF e
  <2>3. tasks' \in Seq(TaskEvent) /\ Len(tasks') <= TaskPool
    BY <1>1, <2>2, AddTaskTyped
  <2>4. used' \in SUBSET Msgs
    BY <1>1, <1>7 DEF DeliverTimer
  <2>5. FrameRules' /\ Masking' /\ PrioritiesNest'
    BY <1>4, <1>7, SameFrames
  <2>6. EarliestArmed'
    BY <1>2, <1>4, <1>7 DEF EarliestArmed
  <2> QED BY <1>1, <1>3, <1>4, <1>7, <2>1, <2>3, <2>4, <2>5, <2>6 DEF Inv, TypeOK
<1> QED BY <1>6, <1>7 DEF TimerTurn

\* schedule() has come back to the interrupted process.
LEMMA ResumeStep ==
  ASSUME Inv, Resume
  PROVE  Inv'
<1>1. frames # <<>> /\ frames[1].at = "sched" /\ To("pending")
      /\ UNCHANGED <<now, nextTick, hw, timers, tasks, prio, used, sie, shell>>
  BY InnermostFrame DEF Resume, In
<1>2. ~sie
  BY <1>1 DEF Inv, Masking, CallbackPoints
<1>3. frames' \in Seq(Frame) /\ FrameRules' /\ Masking' /\ PrioritiesNest'
  BY <1>1, <1>2, PointMoves DEF CallbackPoints
<1> QED BY <1>1, <1>3 DEF Inv, TypeOK, EarliestArmed

\* A callback is at work: its task adds another, or gives its message slot back.
LEMMA BodyStep ==
  ASSUME Inv, Body
  PROVE  Inv'
<1>1. /\ now \in Nat /\ nextTick \in Nat /\ hw \in Nat /\ timers \in Seq(TimerEvent)
      /\ tasks \in Seq(TaskEvent) /\ Len(tasks) <= TaskPool
      /\ used \in SUBSET Msgs /\ frames \in Seq(Frame)
  BY DEF Inv, TypeOK
<1>2. /\ frames # <<>> /\ frames[1].at = "body" /\ Head(frames) = frames[1]
      /\ UNCHANGED <<now, nextTick, hw, timers, prio, sie, shell>>
  BY InnermostFrame DEF Body, In
<1>3. \E at \in {"end", "trigger"} : To(at)
  BY DEF Body
<1>4. frames' \in Seq(Frame) /\ FrameRules' /\ Masking' /\ PrioritiesNest'
  BY <1>2, <1>3, PointMoves DEF CallbackPoints
<1>5. used' \in SUBSET Msgs
  BY <1>1 DEF Body
<1>6. tasks' \in Seq(TaskEvent) /\ Len(tasks') <= TaskPool
  <2>1. CASE Running \in DOMAIN Adds
                /\ tasks' = AddTask(tasks, [prio |-> Priority[Adds[Running]],
                                            cb |-> Adds[Running], due |-> now])
    <3> DEFINE e == [prio |-> Priority[Adds[Running]], cb |-> Adds[Running], due |-> now]
    <3>1. Adds[Running] \in {"p1", "p2", "p3", "p4"}
      BY <2>1 DEF Adds
    <3>2. Priority[Adds[Running]] \in Nat
      BY <3>1 DEF Priority
    <3>3. e \in TaskEvent
      BY <1>1, <3>1, <3>2 DEF TaskEvent, Callbacks, Adv2
    <3> HIDE DEF e
    <3>4. AddTask(tasks, e) \in Seq(TaskEvent) /\ Len(AddTask(tasks, e)) <= TaskPool
      BY <1>1, <3>3, AddTaskTyped
    <3> QED BY <2>1, <3>4 DEF e
  <2>2. CASE tasks' = tasks
    BY <1>1, <2>2
  <2> QED BY <2>1, <2>2 DEF Body
<1> QED BY <1>1, <1>2, <1>4, <1>5, <1>6 DEF Inv, TypeOK, EarliestArmed

\* timer_trigger_now: the interrupt it asks for is due.
LEMMA TriggerStep ==
  ASSUME Inv, Trigger
  PROVE  Inv'
<1>1. now \in Nat /\ frames # <<>> /\ frames[1].at = "trigger" /\ To("end")
      /\ hw' = now
      /\ UNCHANGED <<now, nextTick, timers, tasks, prio, used, sie, shell>>
  BY InnermostFrame DEF Trigger, In, Inv, TypeOK, Triggered
<1>2. frames' \in Seq(Frame) /\ FrameRules' /\ Masking' /\ PrioritiesNest'
  BY <1>1, PointMoves DEF CallbackPoints
<1> QED BY <1>1, <1>2 DEF Inv, TypeOK, EarliestArmed

\* run_pending_task takes the first task: its callback nests in those of its
\* priority or a lower one.
LEMMA StartTaskStep ==
  ASSUME Inv, StartTask
  PROVE  Inv'
<1> DEFINE f == [frames[1] EXCEPT !.at = "body", !.cb = Head(tasks).cb, !.prev = prio]
<1>1. /\ now \in Nat /\ nextTick \in Nat /\ hw \in Nat /\ timers \in Seq(TimerEvent)
      /\ tasks \in Seq(TaskEvent) /\ Len(tasks) <= TaskPool
      /\ prio \in Nat \cup {NoPriority} /\ PrioritiesNest
  BY DEF Inv, TypeOK
<1>2. /\ frames # <<>> /\ frames[1].at = "pending" /\ Head(tasks).prio >= prio
      /\ tasks # <<>> /\ tasks' = Tail(tasks) /\ prio' = Head(tasks).prio /\ sie' = TRUE
      /\ UNCHANGED <<now, nextTick, hw, timers, used, shell>>
  BY InnermostFrame DEF StartTask, In, StartsNow
<1>3. /\ Len(frames) \in Nat /\ Len(frames) >= 1 /\ frames[1] \in Frame
      /\ frames[1].cb = None
  BY <1>2, InnermostFrame DEF CallbackPoints
<1>4. /\ Head(tasks) \in TaskEvent /\ tasks' \in Seq(TaskEvent)
      /\ Len(tasks') = Len(tasks) - 1
  BY <1>1, <1>2, Pop
<1>5. Head(tasks).cb \in Callbacks /\ Head(tasks).cb # None /\ Head(tasks).prio \in Nat
  BY <1>4, DeferredAssumption DEF TaskEvent, Callbacks, Adv2, None
<1>6. /\ f \in Frame /\ f.at = "body" /\ f.user = frames[1].user
      /\ f.cb = Head(tasks).cb /\ f.prev = prio
  BY <1>1, <1>3, <1>5 DEF Frame
<1>7. frames' = [frames EXCEPT ![1] = f]
  BY <1>2 DEF StartTask
<1> HIDE DEF f
<1>8. /\ frames' \in Seq(Frame) /\ FrameRules' /\ Masking'
      /\ Len(frames') = Len(frames) /\ frames'[1] = f
      /\ \A i \in 2 .. Len(frames) : frames'[i] = frames[i]
  BY <1>2, <1>5, <1>6, <1>7, FrameMoves DEF CallbackPoints
<1>9. Active' = Active \cup {1} /\ 1 \notin Active /\ Active \subseteq 1 .. Len(frames)
  BY <1>3, <1>5, <1>6, <1>8 DEF Active
<1>10. \A i \in Active : i # 1 /\ frames'[i] = frames[i] /\ i > 1
  BY <1>3, <1>8, <1>9
<1>11. PrioritiesNest'
  <2>1. \A i \in Active : prio >= frames[i].prev /\ frames[i].prev \in Int
    <3>1. \A i \in 1 .. Len(frames) : frames[i] \in Frame
      BY DEF Inv, TypeOK
    <3>2. \A i \in Active : frames[i].prev \in Nat \cup {NoPriority}
      BY <1>9, <3>1 DEF Frame
    <3> QED BY <1>1, <3>2 DEF PrioritiesNest, NoPriority
  <2>2. prio \in Int /\ prio' \in Int /\ prio' >= prio
    BY <1>1, <1>2, <1>5 DEF NoPriority
  <2>3. \A i \in Active : prio' >= frames[i].prev
    BY <2>1, <2>2
  <2>4. ASSUME \A j \in Active' : j <= 1
        PROVE  prio = NoPriority
    <3>1. Active = {}
      BY <1>9, <1>10, <2>4
    <3> QED BY <1>1, <3>1 DEF PrioritiesNest
  <2>5. ASSUME NEW i \in Active'
        PROVE  /\ prio' >= frames'[i].prev
               /\ \A j \in Active' : i < j => frames'[i].prev >= frames'[j].prev
               /\ (\A j \in Active' : j <= i) => frames'[i].prev = NoPriority
    <3>1. CASE i = 1
      <4>1. \A j \in Active' : i < j => j \in Active /\ frames'[j] = frames[j]
        BY <1>9, <1>10, <3>1
      <4>2. frames'[i].prev = prio
        BY <1>6, <1>8, <3>1
      <4> QED BY <2>1, <2>2, <2>4, <3>1, <4>1, <4>2
    <3>2. CASE i \in Active
      <4>1. frames'[i] = frames[i] /\ i > 1 /\ i \in Nat
        BY <1>9, <1>10, <3>2
      <4>2. ASSUME NEW j \in Active', i < j
            PROVE  frames'[i].prev >= frames'[j].prev
        <5>1. j \in Active /\ frames'[j] = frames[j]
          BY <1>9, <1>10, <4>1, <4>2
        <5> QED BY <1>1, <3>2, <4>1, <4>2, <5>1 DEF PrioritiesNest
      <4>3. ASSUME \A j \in Active' : j <= i
            PROVE  frames'[i].prev = NoPriority
        <5>1. \A j \in Active : j <= i
          BY <1>9, <4>3
        <5> QED BY <1>1, <3>2, <4>1, <5>1 DEF PrioritiesNest
      <4> QED BY <2>3, <3>2, <4>1, <4>2, <4>3
    <3> QED BY <1>9, <3>1, <3>2
  <2>6. Active' # {}
    BY <1>9
  <2> QED BY <2>5, <2>6 DEF PrioritiesNest
<1>12. TypeOK' /\ EarliestArmed'
  BY <1>1, <1>2, <1>4, <1>5, <1>8, DeferredAssumption DEF Inv, TypeOK, EarliestArmed
<1> QED BY <1>8, <1>11, <1>12 DEF Inv

\* The task has ended: the priority is that of the callback it was nested in.
LEMMA FinishStep ==
  ASSUME Inv, Finish
  PROVE  Inv'
<1> DEFINE f == [frames[1] EXCEPT !.at = "pending", !.cb = None, !.prev = NoPriority]
<1>1. /\ frames # <<>> /\ frames[1].at = "end" /\ prio' = frames[1].prev /\ sie' = FALSE
      /\ UNCHANGED <<now, nextTick, hw, timers, tasks, used, shell>>
  BY InnermostFrame DEF Finish, In
<1>2. /\ Len(frames) \in Nat /\ Len(frames) >= 1 /\ frames[1] \in Frame
      /\ frames[1].cb # None
  BY <1>1, InnermostFrame DEF CallbackPoints
<1>3. /\ f \in Frame /\ f.at = "pending" /\ f.user = frames[1].user
      /\ f.cb = None /\ f.prev = NoPriority
  BY <1>2 DEF Frame
<1>4. frames' = [frames EXCEPT ![1] = f]
  BY <1>1 DEF Finish
<1> HIDE DEF f
<1>5. /\ frames' \in Seq(Frame) /\ FrameRules' /\ Masking'
      /\ Len(frames') = Len(frames) /\ frames'[1] = f
      /\ \A i \in 2 .. Len(frames) : frames'[i] = frames[i]
  BY <1>1, <1>3, <1>4, FrameMoves DEF CallbackPoints
<1>6. 1 \in Active /\ Active' = Active \ {1} /\ Active \subseteq 1 .. Len(frames)
  BY <1>2, <1>3, <1>5 DEF Active
<1>7. \A i \in Active' : i \in Active /\ i > 1 /\ frames'[i] = frames[i]
  BY <1>2, <1>5, <1>6
<1>8. PrioritiesNest'
  <2>1. PrioritiesNest
    BY DEF Inv
  <2>2. ASSUME Active' = {}
        PROVE  prio' = NoPriority
    <3>1. \A j \in Active : j <= 1
      BY <1>6, <2>2
    <3> QED BY <1>1, <1>6, <2>1, <3>1 DEF PrioritiesNest
  <2>3. ASSUME NEW i \in Active'
        PROVE  /\ prio' >= frames'[i].prev
               /\ \A j \in Active' : i < j => frames'[i].prev >= frames'[j].prev
               /\ (\A j \in Active' : j <= i) => frames'[i].prev = NoPriority
    <3>1. i \in Active /\ i > 1 /\ frames'[i] = frames[i]
      BY <1>7
    <3>2. prio' >= frames'[i].prev
      BY <1>1, <1>6, <2>1, <3>1 DEF PrioritiesNest
    <3>3. \A j \in Active' : i < j => frames'[i].prev >= frames'[j].prev
      BY <1>7, <2>1, <3>1 DEF PrioritiesNest
    <3>4. ASSUME \A j \in Active' : j <= i
          PROVE  frames'[i].prev = NoPriority
      <4>1. \A j \in Active : j <= i
        BY <1>6, <3>1, <3>4
      <4> QED BY <2>1, <3>1, <4>1 DEF PrioritiesNest
    <3> QED BY <3>2, <3>3, <3>4
  <2> QED BY <2>2, <2>3 DEF PrioritiesNest
<1>9. TypeOK' /\ EarliestArmed'
  <2>1. prio' \in Nat \cup {NoPriority}
    BY <1>1, <1>2 DEF Frame
  <2> QED BY <1>1, <1>5, <2>1 DEF Inv, TypeOK, EarliestArmed
<1> QED BY <1>5, <1>8, <1>9 DEF Inv

\* sret: the interrupted trap goes on inside its callback, or the hart leaves the
\* last trap.
LEMMA TrapReturnStep ==
  ASSUME Inv, TrapReturn
  PROVE  Inv'
<1>1. /\ frames # <<>> /\ frames[1].at = "pending" /\ frames' = Tail(frames)
      /\ UNCHANGED <<now, nextTick, hw, timers, tasks, prio, used, shell>>
      /\ sie' = ~frames[1].user
  BY InnermostFrame DEF TrapReturn, In
<1>2. /\ frames \in Seq(Frame) /\ Len(frames) \in Nat /\ Len(frames) >= 1
      /\ frames[1] \in Frame /\ frames[1].cb = None
  BY <1>1, InnermostFrame DEF CallbackPoints
<1>3. /\ frames' \in Seq(Frame) /\ Len(frames') = Len(frames) - 1
      /\ \A i \in 1 .. Len(frames) - 1 : frames'[i] = frames[i + 1]
  BY <1>1, Pop DEF Inv, TypeOK
<1>4. \A i \in 1 .. Len(frames') : frames'[i].at \in CallbackPoints
  <2> SUFFICES ASSUME NEW i \in 1 .. Len(frames')
               PROVE  frames'[i].at \in CallbackPoints
    OBVIOUS
  <2>1. i + 1 \in 1 .. Len(frames) /\ i + 1 > 1 /\ frames'[i] = frames[i + 1]
    BY <1>2, <1>3
  <2> QED BY <2>1 DEF Inv, FrameRules
<1>5. FrameRules'
  <2> SUFFICES ASSUME NEW i \in 1 .. Len(frames')
               PROVE  /\ frames'[i].at \in CallbackPoints <=> frames'[i].cb # None
                      /\ i > 1 => frames'[i].at \in CallbackPoints
                      /\ frames'[i].at = "timer" => hw' <= now'
                      /\ frames'[i].user => i = Len(frames')
                      /\ frames'[i].at = "sched" => frames'[i].user
    BY DEF FrameRules
  <2> DEFINE j == i + 1
  <2>1. j \in 1 .. Len(frames) /\ frames'[i] = frames[j] /\ i = j - 1
    BY <1>2, <1>3
  <2> HIDE DEF j
  <2>2. frames[j].user => j = Len(frames)
    BY <2>1 DEF Inv, FrameRules
  <2>3. frames[j].at \in CallbackPoints <=> frames[j].cb # None
    BY <2>1 DEF Inv, FrameRules
  <2> QED BY <1>2, <1>3, <1>4, <2>1, <2>2, <2>3 DEF CallbackPoints
<1>6. Masking'
  <2>1. frames' # <<>> => 1 \in 1 .. Len(frames')
    BY <1>3
  <2> QED BY <1>4, <2>1 DEF Masking
<1>7. PrioritiesNest'
  <2>1. PrioritiesNest /\ 1 \notin Active
    BY <1>2 DEF Inv, Active
  <2>2. Active \subseteq 1 .. Len(frames) /\ Active' \subseteq 1 .. Len(frames')
    BY DEF Active
  <2>3. \A i \in Active' : i + 1 \in Active /\ frames'[i] = frames[i + 1] /\ i \in Nat
    BY <1>2, <1>3 DEF Active
  <2>4. \A i \in Active : i - 1 \in Active' /\ frames'[i - 1] = frames[i] /\ i \in Nat
    <3> SUFFICES ASSUME NEW i \in Active
                 PROVE  i - 1 \in Active' /\ frames'[i - 1] = frames[i] /\ i \in Nat
      OBVIOUS
    <3>1. i \in 2 .. Len(frames) /\ frames[i].cb # None
      BY <1>2, <2>1, <2>2 DEF Active
    <3>2. i - 1 \in 1 .. Len(frames') /\ frames'[i - 1] = frames[(i - 1) + 1] /\ (i - 1) + 1 = i
      BY <1>2, <1>3, <3>1
    <3> QED BY <3>1, <3>2 DEF Active
  <2>5. Active' = {} => prio' = NoPriority
    BY <1>1, <2>1, <2>4 DEF PrioritiesNest
  <2>6. ASSUME NEW i \in Active'
        PROVE  /\ prio' >= frames'[i].prev
               /\ \A j \in Active' : i < j => frames'[i].prev >= frames'[j].prev
               /\ (\A j \in Active' : j <= i) => frames'[i].prev = NoPriority
    <3>1. i + 1 \in Active /\ frames'[i] = frames[i + 1] /\ i \in Nat
      BY <2>3
    <3>2. prio' >= frames'[i].prev
      BY <1>1, <2>1, <3>1 DEF PrioritiesNest
    <3>3. ASSUME NEW j \in Active', i < j
          PROVE  frames'[i].prev >= frames'[j].prev
      <4>1. j + 1 \in Active /\ frames'[j] = frames[j + 1] /\ i + 1 < j + 1
        BY <2>3, <3>1, <3>3
      <4> QED BY <2>1, <3>1, <4>1 DEF PrioritiesNest
    <3>4. ASSUME \A j \in Active' : j <= i
          PROVE  frames'[i].prev = NoPriority
      <4>1. \A j \in Active : j <= i + 1
        BY <2>4, <3>1, <3>4
      <4> QED BY <2>1, <3>1, <4>1 DEF PrioritiesNest
    <3> QED BY <3>2, <3>3, <3>4
  <2> QED BY <2>5, <2>6 DEF PrioritiesNest
<1>8. TypeOK' /\ EarliestArmed'
  <2>1. sie' \in BOOLEAN
    BY <1>1
  <2> QED BY <1>1, <1>3, <2>1 DEF Inv, TypeOK, EarliestArmed
<1> QED BY <1>5, <1>6, <1>7, <1>8 DEF Inv

(***************************************************************************)
(* The shell, the processes it runs, and the clock.                        *)
(***************************************************************************)
\* A command that starts nothing: setTimeout takes a slot, or a program starts.
LEMMA CommandStep ==
  ASSUME Inv, SetTimeout \/ RunProgram
  PROVE  Inv'
<1>1. /\ frames = <<>> /\ frames' = frames /\ prio' = prio /\ (sie' => sie)
      /\ UNCHANGED <<now, nextTick, hw, timers, tasks>>
  BY DEF SetTimeout, RunProgram, ShellAt, Inv, TypeOK
<1>2. used' \in SUBSET Msgs /\ shell' \in Shell
  BY DEF SetTimeout, RunProgram, Shell, Inv, TypeOK
<1>3. sie' \in BOOLEAN
  BY DEF SetTimeout, RunProgram, Inv, TypeOK
<1>4. FrameRules' /\ Masking' /\ PrioritiesNest'
  BY <1>1, SameFrames
<1> QED BY <1>1, <1>2, <1>3, <1>4 DEF Inv, TypeOK, EarliestArmed

\* setTimeout and tasktest call add_timer.
LEMMA AddStep ==
  ASSUME Inv, AddTimeout \/ TaskTest
  PROVE  Inv'
<1>1. /\ frames = <<>> /\ frames' = frames /\ prio' = prio /\ sie' = sie
      /\ UNCHANGED <<now, nextTick, tasks>>
  BY DEF AddTimeout, TaskTest, ShellAt
<1>2. FrameRules' /\ Masking' /\ PrioritiesNest'
  BY <1>1, SameFrames
<1>3. used' \in SUBSET Msgs /\ shell' \in Shell
  BY DEF AddTimeout, TaskTest, Shell, Inv, TypeOK
<1>4. Len(timers) \in Nat /\ Len(timers) <= TimerPool
  BY DEF Inv, TypeOK
<1>5. /\ timers' \in Seq(TimerEvent) /\ Len(timers') <= TimerPool
      /\ hw' \in Nat /\ EarliestArmed'
  <2>1. CASE timers' = timers /\ hw' = hw
    BY <1>1, <2>1 DEF Inv, TypeOK, EarliestArmed
  <2>2. CASE \E cb \in Callbacks, delay \in Nat :
               Len(timers) < TimerPool /\ AddTimer(cb, delay)
    BY <1>1, <2>2, AddTimerStep
  <2>3. CASE TaskTest
    <3>1. "start" \in Callbacks /\ 0 \in Nat
      BY DEF Callbacks, Adv2
    <3> QED BY <2>2, <2>3, <3>1 DEF TaskTest
  <2>4. CASE AddTimeout /\ ~(shell.delay < 0 \/ Len(timers) = TimerPool)
    <3>1. shell.at = "add" /\ shell \in Shell /\ AddTimer(shell.msg, shell.delay)
      BY <2>4 DEF AddTimeout, ShellAt, Inv, TypeOK
    <3>2. shell.msg \in Msgs /\ shell.delay \in Delays
      BY <3>1 DEF Shell
    <3>3. shell.delay \in Nat /\ shell.msg \in Callbacks
      <4>1. shell.delay \in Int
        BY <3>2, DeferredAssumption
      <4>2. ~(shell.delay < 0)
        BY <2>4
      <4>3. shell.msg \in Callbacks
        BY <3>2 DEF Callbacks
      <4> QED BY <4>1, <4>2, <4>3
    <3>4. Len(timers) < TimerPool
      BY <1>4, <2>4, DeferredAssumption
    <3> QED BY <2>2, <3>1, <3>3, <3>4
  <2>5. CASE AddTimeout /\ (shell.delay < 0 \/ Len(timers) = TimerPool)
    BY <2>1, <2>5 DEF AddTimeout
  <2> QED BY <2>3, <2>4, <2>5
<1> QED BY <1>1, <1>2, <1>3, <1>5 DEF Inv, TypeOK

\* A process ends outside any callback.
LEMMA ProgramEndsStep ==
  ASSUME Inv, ProgramEnds
  PROVE  Inv'
<1>1. /\ frames' = <<>> /\ sie' = FALSE /\ shell' = [at |-> "prompt"]
      /\ UNCHANGED <<now, nextTick, hw, timers, tasks, prio, used>>
  BY DEF ProgramEnds
<1>2. Active = {}
  <2>1. CASE frames = <<>>
    BY <2>1 DEF Active
  <2>2. CASE In("sched") /\ frames # <<>>
    <3>1. Len(frames) = 1 /\ frames[1].cb = None
      BY <2>2, InnermostFrame DEF In, CallbackPoints
    <3> QED BY <3>1 DEF Active
  <2> QED BY <2>1, <2>2 DEF ProgramEnds, In
<1>3. Active' = {}
  BY <1>1 DEF Active
<1>4. PrioritiesNest'
  BY <1>1, <1>2, <1>3 DEF Inv, PrioritiesNest
<1>5. FrameRules' /\ Masking'
  BY <1>1 DEF FrameRules, Masking
<1>6. TypeOK' /\ EarliestArmed'
  <2>1. shell' \in Shell
    BY <1>1 DEF Shell
  <2>2. frames' \in Seq(Frame)
    BY <1>1
  <2> QED BY <1>1, <2>1, <2>2 DEF Inv, TypeOK, EarliestArmed
<1> QED BY <1>4, <1>5, <1>6 DEF Inv

\* Time passes: an interrupt that is due stays due.
LEMMA AdvanceStep ==
  ASSUME Inv, Advance
  PROVE  Inv'
<1>1. /\ now \in Nat /\ hw \in Nat /\ now' = now + 1
      /\ UNCHANGED <<nextTick, hw, timers, tasks, prio, used, sie, shell, frames>>
  BY DEF Advance, Inv, TypeOK
<1>2. FrameRules' /\ Masking' /\ PrioritiesNest'
  BY <1>1, SameFrames
<1>3. TypeOK' /\ EarliestArmed'
  BY <1>1 DEF Inv, TypeOK, EarliestArmed
<1> QED BY <1>2, <1>3 DEF Inv

(***************************************************************************)
(* The theorems.                                                           *)
(***************************************************************************)
LEMMA InitInv == Init => Inv
<1> SUFFICES ASSUME Init
             PROVE  Inv
  OBVIOUS
<1>1. TypeOK /\ EarliestArmed
  BY DeferredAssumption DEF Init, TypeOK, EarliestArmed, Earliest, Shell
<1>2. FrameRules /\ Masking /\ PrioritiesNest
  BY DEF Init, FrameRules, Masking, PrioritiesNest, Active
<1> QED BY <1>1, <1>2 DEF Inv

\* Every step of the timers and the deferred tasks keeps the invariant.
LEMMA NextInv == Inv /\ [Next]_vars => Inv'
<1> SUFFICES ASSUME Inv, [Next]_vars
             PROVE  Inv'
  OBVIOUS
<1>1. CASE Interrupt
  BY <1>1, TrapTaken DEF Interrupt, TimerPending
<1>2. CASE OtherTrap
  BY <1>2, TrapTaken DEF OtherTrap
<1>3. CASE TrapStep
  BY <1>3, TimerTurnStep, ResumeStep, StartTaskStep, TrapReturnStep DEF TrapStep
<1>4. CASE Callback
  BY <1>4, BodyStep, TriggerStep, FinishStep DEF Callback
<1>5. CASE ShellStep
  BY <1>5, CommandStep, AddStep, ProgramEndsStep DEF ShellStep
<1>6. CASE Advance
  BY <1>6, AdvanceStep
<1>7. CASE UNCHANGED vars
  BY <1>7 DEF vars, Inv, TypeOK, FrameRules, Masking, EarliestArmed, PrioritiesNest, Active
<1> QED BY <1>1, <1>2, <1>3, <1>4, <1>5, <1>6, <1>7 DEF Next

\* The invariant holds in every state, whatever nests in what.
THEOREM Invariance == Spec => []Inv
<1>1. Init => Inv
  BY InitInv
<1>2. Inv /\ [Next]_vars => Inv'
  BY NextInv
<1> QED BY <1>1, <1>2, PTL DEF Spec

\* Neither pool is overdrawn and every variable keeps its type.
THEOREM TypeCorrect == Spec => []TypeOK
<1>1. Inv => TypeOK
  BY DEF Inv
<1> QED BY <1>1, Invariance, PTL

\* The comparator is always set to the event that expires first, or its interrupt
\* is due: add_timer may skip the write, timer_trigger_now may overwrite it, and
\* nested interrupts may reprogram it, without an event being passed over.
THEOREM AlwaysArmed == Spec => []EarliestArmed
<1>1. Inv => EarliestArmed
  BY DEF Inv
<1> QED BY <1>1, Invariance, PTL

\* A callback only ever interrupts callbacks of its priority or a lower one, at
\* any depth, and task_current_priority is restored after each.
THEOREM PrioritiesAlwaysNest == Spec => []PrioritiesNest
<1>1. Inv => PrioritiesNest
  BY DEF Inv
<1> QED BY <1>1, Invariance, PTL

(***************************************************************************)
(* Why a callback that adds a task of higher priority is preempted by it:  *)
(* the interrupt it asks for stays due until it is taken, and the trap it  *)
(* enters leaves no task of higher priority in the sorted list.            *)
(***************************************************************************)
Adders == {"p2", "p3", "p4"}

\* Interrupts are enabled in every callback.
Unmasked == frames # <<>> /\ frames[1].at \in CallbackPoints => sie

TasksSorted ==
  \A i, j \in 1 .. Len(tasks) : i < j => tasks[i].prio >= tasks[j].prio

\* No task is above the one that runs.
NoneHigher == \A i \in 1 .. Len(tasks) : tasks[i].prio <= prio

\* What a callback has triggered is due or done.
Served ==
  frames # <<>> /\ frames[1].at = "end" /\ frames[1].cb \in Adders =>
    hw <= now \/ NoneHigher

Preempts == Unmasked /\ TasksSorted /\ Served

\* add_task keeps the list sorted.
LEMMA AddTaskSorted ==
  ASSUME Inv, TasksSorted, NEW e \in TaskEvent, tasks' = AddTask(tasks, e)
  PROVE  TasksSorted'
<1> DEFINE R == {p \in TaskEvent \X TaskEvent : p[1].prio >= p[2].prio}
           stays == {i \in 1 .. Len(tasks) : tasks[i].prio >= e.prio}
<1>1. tasks \in Seq(TaskEvent) /\ \A x \in TaskEvent : x.prio \in Nat
  BY DEF Inv, TypeOK, TaskEvent
<1>2. \A i \in 1 .. Len(tasks) : tasks[i] \in TaskEvent
  BY <1>1
<1>3. Sorted(tasks, R) /\ stays = {i \in 1 .. Len(tasks) : <<tasks[i], e>> \in R}
  BY <1>2 DEF TasksSorted, Sorted
<1>4. Ordering(TaskEvent, R)
  BY <1>1 DEF Ordering
<1>5. CASE tasks' = tasks
  BY <1>5 DEF TasksSorted
<1>6. CASE tasks' = InsertAfter(tasks, e, stays)
  <2> HIDE DEF R, stays
  <2>1. Sorted(tasks', R)
    BY <1>1, <1>3, <1>4, <1>6, InsertSorted
  <2> QED BY <2>1 DEF Sorted, TasksSorted, R
<1> QED BY <1>5, <1>6 DEF AddTask, InsertTask

\* One step puts a task only above tasks of lower priority.
LEMMA PreemptsStep ==
  ASSUME Inv, Preempts, Next
  PROVE  Preempts'
<1>1. /\ tasks \in Seq(TaskEvent) /\ prio \in Int /\ now \in Nat /\ hw \in Nat
      /\ \A i \in 1 .. Len(tasks) : tasks[i].prio \in Nat
  <2>1. tasks \in Seq(TaskEvent) /\ prio \in Int /\ now \in Nat /\ hw \in Nat
    BY DEF Inv, TypeOK, NoPriority
  <2>2. \A i \in 1 .. Len(tasks) : tasks[i] \in TaskEvent
    BY <2>1
  <2> QED BY <2>1, <2>2 DEF TaskEvent
<1>2. ASSUME NEW at \in {"timer", "pending"}, Trap(at)
      PROVE  Preempts'
  <2>1. frames' # <<>> /\ frames'[1].at = at /\ tasks' = tasks
    <3> DEFINE f == [at |-> at, user |-> InUser, cb |-> None, prev |-> NoPriority]
    <3>1. f \in Frame /\ f.at = at /\ frames \in Seq(Frame) /\ frames' = <<f>> \o frames
      BY <1>2 DEF Frame, InUser, Trap, Inv, TypeOK
    <3> HIDE DEF f
    <3>2. frames' # <<>> /\ frames'[1] = f
      BY <3>1, Push
    <3> QED BY <1>2, <3>1, <3>2 DEF Trap
  <2> QED BY <2>1 DEF Preempts, Unmasked, TasksSorted, Served, CallbackPoints
<1>3. CASE TimerTurn
  <2>1. /\ frames # <<>> /\ frames[1].at = "timer" /\ Len(frames) >= 1
        /\ frames[1] \in Frame /\ frames \in Seq(Frame)
    BY <1>3, InnermostFrame DEF TimerTurn, In
  <2>2. frames'[1].at \in {"timer", "sched", "pending"}
    BY <1>3, <2>1 DEF TimerTurn, To, Frame
  <2>3. TasksSorted'
    <3>1. CASE tasks' = tasks
      BY <3>1 DEF Preempts, TasksSorted
    <3>2. CASE Expired /\ DeliverTimer(Head(timers))
      <4>1. Head(timers) \in TimerEvent
        BY <3>2, Pop DEF Expired, Inv, TypeOK
      <4>2. [prio |-> 1, cb |-> Head(timers).cb, due |-> Head(timers).at] \in TaskEvent
        BY <4>1 DEF TimerEvent, TaskEvent
      <4> QED BY <3>2, <4>2, AddTaskSorted DEF DeliverTimer, Preempts
    <3> QED BY <1>3, <3>1, <3>2 DEF TimerTurn
  <2> QED BY <2>2, <2>3 DEF Preempts, Unmasked, Served, CallbackPoints
<1>4. CASE Resume \/ Finish
  <2>1. frames # <<>> /\ frames \in Seq(Frame) /\ Len(frames) >= 1 /\ frames[1] \in Frame
    BY <1>4, InnermostFrame DEF Resume, Finish, In
  <2>2. tasks' = tasks
    BY <1>4 DEF Resume, Finish
  <2>3. CASE Resume
    BY <2>1, <2>3 DEF Resume, To, Frame, Preempts, Unmasked, TasksSorted, Served, CallbackPoints
  <2>4. CASE Finish
    <3> DEFINE f == [frames[1] EXCEPT !.at = "pending", !.cb = None, !.prev = NoPriority]
    <3>1. f.at = "pending" /\ frames' = [frames EXCEPT ![1] = f]
      BY <2>1, <2>4 DEF Finish, Frame
    <3> HIDE DEF f
    <3>2. frames'[1].at = "pending"
      BY <2>1, <3>1
    <3> QED BY <2>2, <3>2 DEF Preempts, Unmasked, TasksSorted, Served, CallbackPoints
  <2> QED BY <1>4, <2>3, <2>4
<1>5. CASE StartTask
  <2>1. frames # <<>> /\ frames \in Seq(Frame) /\ Len(frames) >= 1 /\ frames[1] \in Frame
    BY <1>5, InnermostFrame DEF StartTask, In
  <2>2. frames'[1].at = "body" /\ sie'
    BY <1>5, <2>1 DEF StartTask, Frame
  <2>3. /\ Len(tasks') = Len(tasks) - 1
        /\ \A i \in 1 .. Len(tasks) - 1 : tasks'[i] = tasks[i + 1]
    BY <1>1, <1>5, Pop DEF StartTask, StartsNow
  <2>4. TasksSorted'
    <3> SUFFICES ASSUME NEW i \in 1 .. Len(tasks) - 1, NEW j \in 1 .. Len(tasks) - 1, i < j
                 PROVE  tasks'[i].prio >= tasks'[j].prio
      BY <2>3 DEF TasksSorted
    <3>1. i + 1 \in 1 .. Len(tasks) /\ j + 1 \in 1 .. Len(tasks) /\ i + 1 < j + 1
      BY <1>1
    <3> QED BY <2>3, <3>1 DEF Preempts, TasksSorted
  <2> QED BY <2>2, <2>4 DEF Preempts, Unmasked, Served
<1>6. CASE TrapReturn
  <2>1. /\ frames # <<>> /\ ~StartsNow /\ frames' = Tail(frames) /\ tasks' = tasks
        /\ prio' = prio /\ sie' = ~frames[1].user
    BY <1>6, InnermostFrame DEF TrapReturn, In
  <2>2. /\ frames \in Seq(Frame) /\ Len(frames) \in Nat /\ Len(frames) >= 1
        /\ frames[1].user => Len(frames) = 1
    BY <2>1, InnermostFrame
  <2>3. Unmasked'
    <3>1. Len(frames') = Len(frames) - 1 /\ frames' \in Seq(Frame)
      BY <2>1, <2>2, Pop
    <3>2. frames' # <<>> => Len(frames') > 0
      BY <3>1
    <3>3. frames' # <<>> => ~frames[1].user
      BY <2>2, <3>1, <3>2
    <3> QED BY <2>1, <3>3 DEF Unmasked
  <2>4. NoneHigher
    <3>1. CASE tasks = <<>>
      BY <3>1 DEF NoneHigher
    <3>2. CASE tasks # <<>>
      <4>1. tasks[1].prio < prio /\ 1 \in 1 .. Len(tasks)
        BY <1>1, <2>1, <3>2, Pop DEF StartsNow
      <4>2. \A i \in 1 .. Len(tasks) : tasks[i].prio <= tasks[1].prio
        BY <1>1, <4>1 DEF Preempts, TasksSorted
      <4> QED BY <1>1, <4>1, <4>2 DEF NoneHigher
    <3> QED BY <3>1, <3>2
  <2>5. NoneHigher' /\ TasksSorted'
    BY <2>1, <2>4 DEF NoneHigher, Preempts, TasksSorted
  <2> QED BY <2>3, <2>5 DEF Preempts, Served
<1>7. CASE Body
  <2>1. /\ frames # <<>> /\ frames \in Seq(Frame) /\ Len(frames) >= 1 /\ frames[1] \in Frame
        /\ Head(frames) = frames[1] /\ frames[1].at = "body" /\ sie' = sie
    BY <1>7, InnermostFrame DEF Body, In
  <2>2. sie
    BY <2>1 DEF Preempts, Unmasked, CallbackPoints
  <2>3. CASE Running \in Msgs \cup {"p1"} /\ To("end") /\ tasks' = tasks
    <3>1. frames'[1].cb = Running
      BY <2>1, <2>3 DEF To, Frame, Running
    <3>2. frames'[1].cb \notin Adders
      BY <2>3, <3>1, DeferredAssumption DEF Adders, Adv2
    <3> QED BY <2>1, <2>2, <2>3, <3>2 DEF Preempts, Unmasked, TasksSorted, Served
  <2>4. CASE /\ Running \in DOMAIN Adds
             /\ LET new == Adds[Running]
                IN  tasks' = AddTask(tasks, [prio |-> Priority[new], cb |-> new, due |-> now])
             /\ To(IF Running = "start" THEN "end" ELSE "trigger")
    <3> DEFINE e == [prio |-> Priority[Adds[Running]], cb |-> Adds[Running], due |-> now]
    <3>1. Adds[Running] \in {"p1", "p2", "p3", "p4"}
      BY <2>4 DEF Adds
    <3>2. Priority[Adds[Running]] \in Nat
      BY <3>1 DEF Priority
    <3>3. e \in TaskEvent
      BY <1>1, <3>1, <3>2 DEF TaskEvent, Callbacks, Adv2
    <3>4. tasks' = AddTask(tasks, e)
      BY <2>4
    <3> HIDE DEF e
    <3>5. TasksSorted'
      BY <3>3, <3>4, AddTaskSorted DEF Preempts
    <3>6. frames'[1].cb = Running /\ (frames'[1].at = "end" => Running = "start")
      BY <2>1, <2>4 DEF To, Frame, Running
    <3>7. Served'
      BY <3>6 DEF Served, Adders
    <3> QED BY <2>1, <2>2, <3>5, <3>7 DEF Preempts, Unmasked
  <2> QED BY <1>7, <2>3, <2>4 DEF Body
<1>8. CASE Trigger
  <2>1. /\ frames # <<>> /\ frames[1].at = "trigger" /\ sie' = sie /\ tasks' = tasks
        /\ hw' = now /\ now' = now
    BY <1>8, InnermostFrame DEF Trigger, In, Triggered
  <2>2. sie
    BY <2>1 DEF Preempts, Unmasked, CallbackPoints
  <2> QED BY <1>1, <2>1, <2>2 DEF Preempts, Unmasked, TasksSorted, Served
<1>9. CASE ShellStep
  <2>1. frames' = <<>> /\ tasks' = tasks
    BY <1>9 DEF ShellStep, SetTimeout, AddTimeout, TaskTest, RunProgram, ProgramEnds, ShellAt
  <2> QED BY <2>1 DEF Preempts, Unmasked, TasksSorted, Served
<1>10. CASE Advance
  <2>1. now' = now + 1 /\ UNCHANGED <<hw, tasks, prio, sie, frames>>
    BY <1>10 DEF Advance
  <2>2. NoneHigher' = NoneHigher
    BY <2>1 DEF NoneHigher
  <2> QED BY <1>1, <2>1, <2>2 DEF Preempts, Unmasked, TasksSorted, Served
<1> QED BY <1>2, <1>3, <1>4, <1>5, <1>6, <1>7, <1>8, <1>9, <1>10
        DEF Next, Interrupt, OtherTrap, TrapStep, Callback

\* task.c:176 and task.c:206: when p2, p3 or p4 ends, no task of higher priority
\* is left: the interrupt it triggered has been taken first.
THEOREM HigherAlwaysFirst == Spec => HigherRunsFirst
<1>1. Init => Preempts
  BY DEF Init, Preempts, Unmasked, TasksSorted, Served
<1>2. Inv /\ Preempts /\ [Next]_vars => Preempts'
  <2>1. Preempts /\ UNCHANGED vars => Preempts'
    BY DEF vars, Preempts, Unmasked, TasksSorted, Served, NoneHigher
  <2> QED BY <2>1, PreemptsStep
<1>3. Inv /\ Preempts =>
        [In("end") /\ Running \in {"p2", "p3", "p4"} /\ Finish =>
           \A i \in 1 .. Len(tasks) : tasks[i].prio <= prio]_vars
  <2> SUFFICES ASSUME Inv, Preempts, In("end"), Running \in {"p2", "p3", "p4"}, Finish
               PROVE  \A i \in 1 .. Len(tasks) : tasks[i].prio <= prio
    OBVIOUS
  <2>1. frames # <<>> /\ frames[1].at = "end" /\ frames[1].cb \in Adders
    BY InnermostFrame DEF In, Running, Adders
  <2>2. sie
    BY <2>1 DEF Preempts, Unmasked, CallbackPoints
  <2>3. ~(hw <= now)
    BY <2>2 DEF Finish, Quiet, Interruptible, TimerPending
  <2> QED BY <2>1, <2>3 DEF Preempts, Served, NoneHigher
<1> QED BY <1>1, <1>2, <1>3, Invariance, PTL DEF Spec, HigherRunsFirst

(***************************************************************************)
(* Message slots.  Each slot in use is referred to from one place: no step *)
(* that moves the reference can lose it or make a second one.              *)
(***************************************************************************)
Holds(q, m) == \E i \in 1 .. Len(q) : q[i].cb = m
Once(q, m) == \A i, j \in 1 .. Len(q) : q[i].cb = m /\ q[j].cb = m => i = j

InShell(m) == shell.at = "add" /\ shell.msg = m

Prints(i, m) == frames[i].at = "body" /\ frames[i].cb = m
InBody(m) == \E i \in 1 .. Len(frames) : Prints(i, m)
OneBody(m) == \A i, j \in 1 .. Len(frames) : Prints(i, m) /\ Prints(j, m) => i = j

Tracked(m) ==
  /\ Once(timers, m) /\ Once(tasks, m) /\ OneBody(m)
  /\ ~(InShell(m) /\ (Holds(timers, m) \/ Holds(tasks, m) \/ InBody(m)))
  /\ ~(Holds(timers, m) /\ (Holds(tasks, m) \/ InBody(m)))
  /\ ~(Holds(tasks, m) /\ InBody(m))
  /\ m \in used <=> InShell(m) \/ Holds(timers, m) \/ Holds(tasks, m) \/ InBody(m)

TimersSorted ==
  \A i, j \in 1 .. Len(timers) : i < j => timers[i].at <= timers[j].at

SlotsInv == TasksSorted /\ TimersSorted /\ \A m \in Msgs : Tracked(m)

\* An entry put into a list is the only new one.
LEMMA InsertHolds ==
  ASSUME NEW S, NEW q \in Seq(S), NEW e \in S, NEW stays \in SUBSET (1 .. Len(q)),
         Prefix(stays), NEW u, u = InsertAfter(q, e, stays), NEW m
  PROVE  /\ Holds(u, m) <=> Holds(q, m) \/ e.cb = m
         /\ Once(q, m) /\ (e.cb = m => ~Holds(q, m)) => Once(u, m)
<1>1. Len(u) = Len(q) + 1 /\ Len(q) \in Nat
  BY Insert
<1>2. PICK k \in 1 .. Len(q) + 1 : Inserted(u, q, e, stays, k)
  BY InsertPlaces, Zenon
<1>3. u[k] = e
  BY <1>2 DEF Inserted
<1>4. ASSUME NEW i \in 1 .. Len(q)
      PROVE  \/ i \in 1 .. k - 1 /\ u[i] = q[i]
             \/ i + 1 \in k + 1 .. Len(q) + 1 /\ u[i + 1] = q[i]
  BY <1>1, <1>2 DEF Inserted
<1>5. ASSUME NEW i \in 1 .. Len(q) + 1, i # k
      PROVE  \/ i < k /\ i \in 1 .. Len(q) /\ u[i] = q[i]
             \/ i > k /\ i - 1 \in 1 .. Len(q) /\ u[i] = q[i - 1]
  BY <1>1, <1>2, <1>5 DEF Inserted
<1>6. Holds(u, m) <=> Holds(q, m) \/ e.cb = m
  <2>1. Holds(u, m) => Holds(q, m) \/ e.cb = m
    BY <1>1, <1>3, <1>5 DEF Holds
  <2>2. ASSUME Holds(q, m)
        PROVE  Holds(u, m)
    <3>1. PICK i \in 1 .. Len(q) : q[i].cb = m
      BY <2>2 DEF Holds
    <3>2. \E j \in 1 .. Len(q) + 1 : u[j] = q[i]
      BY <1>1, <1>4
    <3> QED BY <1>1, <3>1, <3>2 DEF Holds
  <2>3. e.cb = m => Holds(u, m)
    BY <1>1, <1>3 DEF Holds
  <2> QED BY <2>1, <2>2, <2>3
<1>7. ASSUME Once(q, m), e.cb = m => ~Holds(q, m)
      PROVE  Once(u, m)
  <2> SUFFICES ASSUME NEW i \in 1 .. Len(q) + 1, NEW j \in 1 .. Len(q) + 1,
                      u[i].cb = m, u[j].cb = m
               PROVE  i = j
    BY <1>1 DEF Once
  <2>1. CASE e.cb = m
    <3>1. \A n \in 1 .. Len(q) : q[n].cb # m
      BY <1>7, <2>1 DEF Holds
    <3> QED BY <1>5, <3>1
  <2>2. CASE e.cb # m
    <3>1. i # k /\ j # k
      BY <1>3, <2>2
    <3>2. CASE i < k /\ j < k
      BY <1>5, <1>7, <3>1, <3>2 DEF Once
    <3>3. CASE i > k /\ j > k
      <4>1. i - 1 \in 1 .. Len(q) /\ j - 1 \in 1 .. Len(q) /\ u[i] = q[i - 1] /\ u[j] = q[j - 1]
        BY <1>5, <3>1, <3>3
      <4>2. i - 1 = j - 1
        BY <1>7, <4>1 DEF Once
      <4> QED BY <4>2
    <3>4. CASE i < k /\ j > k
      <4>1. i \in 1 .. Len(q) /\ j - 1 \in 1 .. Len(q) /\ u[i] = q[i] /\ u[j] = q[j - 1]
        BY <1>5, <3>1, <3>4
      <4>2. i = j - 1
        BY <1>7, <4>1 DEF Once
      <4> QED BY <3>4, <4>2
    <3>5. CASE i > k /\ j < k
      <4>1. j \in 1 .. Len(q) /\ i - 1 \in 1 .. Len(q) /\ u[j] = q[j] /\ u[i] = q[i - 1]
        BY <1>5, <3>1, <3>5
      <4>2. j = i - 1
        BY <1>7, <4>1 DEF Once
      <4> QED BY <3>5, <4>2
    <3> QED BY <3>1, <3>2, <3>3, <3>4, <3>5
  <2> QED BY <2>1, <2>2
<1> QED BY <1>6, <1>7

\* The first entry taken from a list was in it once.
LEMMA PopHolds ==
  ASSUME NEW S, NEW q \in Seq(S), q # <<>>, NEW m
  PROVE  /\ Holds(q, m) <=> Head(q).cb = m \/ Holds(Tail(q), m)
         /\ Once(q, m) => Once(Tail(q), m)
         /\ Once(q, m) /\ Head(q).cb = m => ~Holds(Tail(q), m)
<1> DEFINE t == Tail(q)
<1>1. /\ Head(q) = q[1] /\ Len(q) \in Nat /\ Len(q) >= 1 /\ Len(t) = Len(q) - 1
      /\ \A i \in 1 .. Len(q) - 1 : t[i] = q[i + 1]
  BY Pop
<1> HIDE DEF t
<1>2. Holds(q, m) => q[1].cb = m \/ Holds(t, m)
  <2> SUFFICES ASSUME NEW i \in 1 .. Len(q), q[i].cb = m, i # 1
               PROVE  Holds(t, m)
    BY DEF Holds
  <2>1. i - 1 \in 1 .. Len(t) /\ t[i - 1] = q[(i - 1) + 1] /\ (i - 1) + 1 = i
    BY <1>1
  <2> QED BY <2>1 DEF Holds
<1>3. Holds(t, m) \/ q[1].cb = m => Holds(q, m)
  <2>1. \A i \in 1 .. Len(t) : i + 1 \in 1 .. Len(q) /\ t[i] = q[i + 1]
    BY <1>1
  <2>2. 1 \in 1 .. Len(q)
    BY <1>1
  <2> QED BY <2>1, <2>2 DEF Holds
<1>4. Once(q, m) => Once(t, m)
  <2> SUFFICES ASSUME Once(q, m), NEW i \in 1 .. Len(t), NEW j \in 1 .. Len(t),
                      t[i].cb = m, t[j].cb = m
               PROVE  i = j
    BY DEF Once
  <2>1. i + 1 \in 1 .. Len(q) /\ j + 1 \in 1 .. Len(q) /\ t[i] = q[i + 1] /\ t[j] = q[j + 1]
    BY <1>1
  <2>2. i + 1 = j + 1
    BY <2>1 DEF Once
  <2> QED BY <1>1, <2>2
<1>5. Once(q, m) /\ q[1].cb = m => ~Holds(t, m)
  <2> SUFFICES ASSUME Once(q, m), q[1].cb = m, NEW i \in 1 .. Len(t), t[i].cb = m
               PROVE  FALSE
    BY DEF Holds
  <2>1. i + 1 \in 1 .. Len(q) /\ t[i] = q[i + 1] /\ 1 \in 1 .. Len(q) /\ i >= 1
    BY <1>1
  <2>2. i + 1 = 1
    BY <2>1 DEF Once
  <2> QED BY <1>1, <2>1, <2>2
<1> QED BY <1>1, <1>2, <1>3, <1>4, <1>5 DEF t

\* add_task makes the new task the only new reference, or makes none.
LEMMA AddTaskHolds ==
  ASSUME Inv, TasksSorted, NEW e \in TaskEvent, tasks' = AddTask(tasks, e), NEW m
  PROVE  IF Len(tasks) < TaskPool
         THEN /\ Holds(tasks', m) <=> Holds(tasks, m) \/ e.cb = m
              /\ Once(tasks, m) /\ (e.cb = m => ~Holds(tasks, m)) => Once(tasks', m)
         ELSE tasks' = tasks
<1> DEFINE R == {p \in TaskEvent \X TaskEvent : p[1].prio >= p[2].prio}
           stays == {i \in 1 .. Len(tasks) : tasks[i].prio >= e.prio}
<1>1. tasks \in Seq(TaskEvent) /\ \A x \in TaskEvent : x.prio \in Nat
  BY DEF Inv, TypeOK, TaskEvent
<1>2. \A i \in 1 .. Len(tasks) : tasks[i] \in TaskEvent
  BY <1>1
<1>3. Sorted(tasks, R) /\ stays = {i \in 1 .. Len(tasks) : <<tasks[i], e>> \in R}
  BY <1>2 DEF TasksSorted, Sorted
<1>4. Ordering(TaskEvent, R)
  BY <1>1 DEF Ordering
<1>5. Len(tasks) < TaskPool => tasks' = InsertAfter(tasks, e, stays)
  BY DEF AddTask, InsertTask
<1>a. e \in TaskEvent /\ tasks \in Seq(TaskEvent)
  BY <1>1
<1> HIDE DEF R, stays
<1>6. Prefix(stays) /\ stays \in SUBSET (1 .. Len(tasks))
  <2>1. stays \in SUBSET (1 .. Len(tasks))
    BY <1>3
  <2> QED BY <2>1, <1>a, <1>3, <1>4, StaysPrefix
<1>7. CASE Len(tasks) < TaskPool
  BY <1>1, <1>5, <1>6, <1>7, InsertHolds
<1>8. CASE ~(Len(tasks) < TaskPool)
  BY <1>8 DEF AddTask
<1> QED BY <1>7, <1>8

\* add_timer keeps the list sorted, and makes the new timer the only new reference.
LEMMA AddTimerHolds ==
  ASSUME Inv, TimersSorted, NEW cb \in Callbacks, NEW delay \in Nat, AddTimer(cb, delay)
  PROVE  /\ TimersSorted'
         /\ \A m : /\ Holds(timers', m) <=> Holds(timers, m) \/ cb = m
                   /\ Once(timers, m) /\ (cb = m => ~Holds(timers, m)) => Once(timers', m)
<1> DEFINE e == [at |-> now + delay, cb |-> cb]
           R == {p \in TimerEvent \X TimerEvent : p[1].at <= p[2].at}
           stays == {i \in 1 .. Len(timers) : timers[i].at <= e.at}
<1>1. timers \in Seq(TimerEvent) /\ now \in Nat /\ \A x \in TimerEvent : x.at \in Nat
  BY DEF Inv, TypeOK, TimerEvent
<1>2. \A i \in 1 .. Len(timers) : timers[i] \in TimerEvent
  BY <1>1
<1>3. e \in TimerEvent /\ e.cb = cb
  BY <1>1 DEF TimerEvent
<1>4. timers' = InsertAfter(timers, e, stays)
  BY DEF AddTimer, InsertTimer
<1> HIDE DEF e
<1>5. Sorted(timers, R) /\ stays = {i \in 1 .. Len(timers) : <<timers[i], e>> \in R}
  BY <1>2, <1>3 DEF TimersSorted, Sorted
<1>6. Ordering(TimerEvent, R)
  BY <1>1 DEF Ordering
<1>7. Sorted(timers', R) => TimersSorted'
  BY DEF Sorted, TimersSorted
<1> HIDE DEF R, stays
<1>8. Prefix(stays) /\ stays \in SUBSET (1 .. Len(timers))
  BY <1>1, <1>3, <1>5, <1>6, StaysPrefix
<1>9. Sorted(timers', R)
  BY <1>1, <1>3, <1>4, <1>5, <1>6, InsertSorted
<1>10. ASSUME NEW m
       PROVE  /\ Holds(timers', m) <=> Holds(timers, m) \/ cb = m
              /\ Once(timers, m) /\ (cb = m => ~Holds(timers, m)) => Once(timers', m)
  BY <1>1, <1>3, <1>4, <1>8, InsertHolds
<1> QED BY <1>7, <1>9, <1>10

\* Pushing, popping or moving a frame that is not at the start of a callback
\* changes no reference.
LEMMA SameBodies ==
  ASSUME Inv, NEW m,
         \/ \E f \in Frame : frames' = <<f>> \o frames /\ f.at # "body"
         \/ frames # <<>> /\ frames[1].at # "body" /\ frames' = Tail(frames)
         \/ /\ frames # <<>> /\ frames[1].at # "body"
            /\ \E f \in Frame : frames' = [frames EXCEPT ![1] = f] /\ f.at # "body"
  PROVE  (InBody(m)' <=> InBody(m)) /\ (OneBody(m) => OneBody(m)')
<1>1. frames \in Seq(Frame) /\ Len(frames) \in Nat
  BY DEF Inv, TypeOK
<1>2. CASE \E f \in Frame : frames' = <<f>> \o frames /\ f.at # "body"
  <2>1. /\ Len(frames') = Len(frames) + 1 /\ frames'[1].at # "body"
        /\ \A i \in 2 .. Len(frames) + 1 : frames'[i] = frames[i - 1]
    BY <1>1, <1>2, Push
  <2>2. \A i \in 1 .. Len(frames') : Prints(i, m)' => i - 1 \in 1 .. Len(frames) /\ Prints(i - 1, m)
    BY <1>1, <2>1 DEF Prints
  <2>3. ASSUME NEW i \in 1 .. Len(frames)
        PROVE  Prints(i, m) => i + 1 \in 1 .. Len(frames') /\ Prints(i + 1, m)'
    <3>1. i + 1 \in 1 .. Len(frames') /\ frames'[i + 1] = frames[(i + 1) - 1] /\ (i + 1) - 1 = i
      BY <1>1, <2>1
    <3> QED BY <3>1 DEF Prints
  <2>4. InBody(m)' <=> InBody(m)
    BY <2>2, <2>3 DEF InBody
  <2>5. ASSUME OneBody(m), NEW i \in 1 .. Len(frames'), NEW j \in 1 .. Len(frames'),
               Prints(i, m)', Prints(j, m)'
        PROVE  i = j
    <3>1. i - 1 = j - 1
      BY <2>2, <2>5 DEF OneBody
    <3> QED BY <1>1, <2>1, <3>1
  <2> QED BY <2>4, <2>5 DEF OneBody
<1>3. CASE frames # <<>> /\ frames[1].at # "body" /\ frames' = Tail(frames)
  <2>1. /\ Len(frames') = Len(frames) - 1
        /\ \A i \in 1 .. Len(frames) - 1 : frames'[i] = frames[i + 1]
    BY <1>1, <1>3, Pop
  <2>2. \A i \in 1 .. Len(frames') : Prints(i, m)' => i + 1 \in 1 .. Len(frames) /\ Prints(i + 1, m)
    BY <1>1, <2>1 DEF Prints
  <2>3. ASSUME NEW i \in 1 .. Len(frames)
        PROVE  Prints(i, m) => i - 1 \in 1 .. Len(frames') /\ Prints(i - 1, m)'
    <3>1. CASE i = 1
      BY <1>3, <3>1 DEF Prints
    <3>2. CASE i # 1
      <4>1. i - 1 \in 1 .. Len(frames') /\ frames'[i - 1] = frames[(i - 1) + 1] /\ (i - 1) + 1 = i
        BY <1>1, <2>1, <3>2
      <4> QED BY <4>1 DEF Prints
    <3> QED BY <3>1, <3>2
  <2>4. InBody(m)' <=> InBody(m)
    BY <2>2, <2>3 DEF InBody
  <2>5. ASSUME OneBody(m), NEW i \in 1 .. Len(frames'), NEW j \in 1 .. Len(frames'),
               Prints(i, m)', Prints(j, m)'
        PROVE  i = j
    <3>1. i + 1 = j + 1
      BY <2>2, <2>5 DEF OneBody
    <3> QED BY <1>1, <2>1, <3>1
  <2> QED BY <2>4, <2>5 DEF OneBody
<1>4. CASE /\ frames # <<>> /\ frames[1].at # "body"
           /\ \E f \in Frame : frames' = [frames EXCEPT ![1] = f] /\ f.at # "body"
  <2>1. /\ Len(frames') = Len(frames) /\ frames'[1].at # "body"
        /\ \A i \in 2 .. Len(frames) : frames'[i] = frames[i]
    BY <1>1, <1>4, ReplaceFirst
  <2>2. ASSUME NEW i \in 1 .. Len(frames)
        PROVE  Prints(i, m)' <=> Prints(i, m)
    <3>1. i = 1 \/ i \in 2 .. Len(frames)
      BY <1>1
    <3>2. CASE i = 1
      BY <1>4, <2>1, <3>2 DEF Prints
    <3>3. CASE i \in 2 .. Len(frames)
      BY <2>1, <3>3 DEF Prints
    <3> QED BY <3>1, <3>2, <3>3
  <2> QED BY <2>1, <2>2 DEF InBody, OneBody
<1> QED BY <1>2, <1>3, <1>4

\* Such a step leaves every slot as it is.
LEMMA SlotsSame ==
  ASSUME Inv, SlotsInv, UNCHANGED <<timers, tasks, used>>,
         \A m \in Msgs : /\ InBody(m)' <=> InBody(m)
                         /\ OneBody(m) => OneBody(m)'
                         /\ InShell(m)' <=> InShell(m)
  PROVE  SlotsInv'
<1>1. TasksSorted' /\ TimersSorted'
  BY DEF SlotsInv, TasksSorted, TimersSorted
<1>2. ASSUME NEW m \in Msgs
      PROVE  Tracked(m)'
  BY DEF SlotsInv, Tracked
<1> QED BY <1>1, <1>2 DEF SlotsInv

\* The reference goes from the first task to the frame that runs it.
LEMMA BodyStarts ==
  ASSUME Inv, NEW m, frames # <<>>, frames[1].at # "body", NEW f \in Frame,
         frames' = [frames EXCEPT ![1] = f], f.at = "body"
  PROVE  /\ InBody(m)' <=> InBody(m) \/ f.cb = m
         /\ OneBody(m) /\ (f.cb = m => ~InBody(m)) => OneBody(m)'
<1>1. frames \in Seq(Frame) /\ Len(frames) \in Nat /\ Len(frames) >= 1
  BY InnermostFrame
<1>2. /\ Len(frames') = Len(frames) /\ frames'[1] = f
      /\ \A i \in 2 .. Len(frames) : frames'[i] = frames[i]
  BY <1>1, ReplaceFirst
<1>3. ~Prints(1, m) /\ (Prints(1, m)' <=> f.cb = m) /\ 1 \in 1 .. Len(frames)
  BY <1>1, <1>2 DEF Prints
<1>4. \A i \in 2 .. Len(frames) : Prints(i, m)' <=> Prints(i, m)
  BY <1>2 DEF Prints
<1>5. \A i \in 1 .. Len(frames) : i = 1 \/ i \in 2 .. Len(frames)
  BY <1>1
<1>6. InBody(m)' <=> InBody(m) \/ f.cb = m
  BY <1>2, <1>3, <1>4, <1>5 DEF InBody
<1>7. OneBody(m) /\ (f.cb = m => ~InBody(m)) => OneBody(m)'
  BY <1>2, <1>3, <1>4, <1>5 DEF InBody, OneBody
<1> QED BY <1>6, <1>7

\* The callback gives the slot back.
LEMMA BodyEnds ==
  ASSUME Inv, NEW m, frames # <<>>, frames[1].at = "body", NEW f \in Frame,
         frames' = [frames EXCEPT ![1] = f], f.at # "body", OneBody(m)
  PROVE  OneBody(m)' /\ (InBody(m)' <=> InBody(m) /\ frames[1].cb # m)
<1>1. frames \in Seq(Frame) /\ Len(frames) \in Nat /\ Len(frames) >= 1
  BY InnermostFrame
<1>2. /\ Len(frames') = Len(frames) /\ frames'[1] = f
      /\ \A i \in 2 .. Len(frames) : frames'[i] = frames[i]
  BY <1>1, ReplaceFirst
<1>3. ~Prints(1, m)' /\ (Prints(1, m) <=> frames[1].cb = m) /\ 1 \in 1 .. Len(frames)
  BY <1>1, <1>2 DEF Prints
<1>4. \A i \in 2 .. Len(frames) : (Prints(i, m)' <=> Prints(i, m)) /\ i # 1 /\ i \in 1 .. Len(frames)
  BY <1>1, <1>2 DEF Prints
<1>5. \A i \in 1 .. Len(frames) : i = 1 \/ i \in 2 .. Len(frames)
  BY <1>1
<1>6. OneBody(m)'
  BY <1>2, <1>3, <1>4, <1>5 DEF OneBody
<1>7. InBody(m)' <=> InBody(m) /\ frames[1].cb # m
  BY <1>2, <1>3, <1>4, <1>5 DEF InBody, OneBody
<1> QED BY <1>6, <1>7

\* A turn of the timer interrupt moves the slot of the timer it runs to a task, or frees it.
LEMMA TimerTurnSlots ==
  ASSUME Inv, SlotsInv, TimerTurn
  PROVE  SlotsInv'
<1>1. /\ frames # <<>> /\ frames[1].at = "timer" /\ Len(frames) >= 1
      /\ frames[1] \in Frame /\ frames \in Seq(Frame) /\ shell' = shell
  BY InnermostFrame DEF TimerTurn, In
<1>2. CASE /\ To(IF Head(frames).user THEN "sched" ELSE "pending")
           /\ UNCHANGED <<timers, tasks, used>>
  <2> DEFINE f == [frames[1] EXCEPT !.at = IF Head(frames).user THEN "sched" ELSE "pending"]
  <2>1. f \in Frame /\ f.at # "body" /\ frames' = [frames EXCEPT ![1] = f]
    BY <1>1, <1>2 DEF To, Frame
  <2> HIDE DEF f
  <2>2. \A m : (InBody(m)' <=> InBody(m)) /\ (OneBody(m) => OneBody(m)')
    BY <1>1, <2>1, SameBodies
  <2> QED BY <1>1, <1>2, <2>2, SlotsSame DEF InShell
<1>3. CASE /\ Expired /\ timers' = Tail(timers) /\ DeliverTimer(Head(timers))
           /\ UNCHANGED <<hw, frames>>
  <2> DEFINE e == [prio |-> 1, cb |-> Head(timers).cb, due |-> Head(timers).at]
  <2>1. timers # <<>> /\ timers \in Seq(TimerEvent) /\ Head(timers) \in TimerEvent
    BY <1>3, Pop DEF Expired, Inv, TypeOK
  <2>2. e \in TaskEvent /\ e.cb = Head(timers).cb /\ tasks' = AddTask(tasks, e)
    BY <1>3, <2>1 DEF TimerEvent, TaskEvent, DeliverTimer
  <2> HIDE DEF e
  <2>3. TasksSorted'
    BY <2>2, AddTaskSorted DEF SlotsInv
  <2>4. TimersSorted'
    <3>1. /\ Len(timers') = Len(timers) - 1 /\ Len(timers) \in Nat
          /\ \A i \in 1 .. Len(timers) - 1 : timers'[i] = timers[i + 1]
      BY <1>3, <2>1, Pop
    <3> SUFFICES ASSUME NEW i \in 1 .. Len(timers'), NEW j \in 1 .. Len(timers'), i < j
                 PROVE  timers'[i].at <= timers'[j].at
      BY DEF TimersSorted
    <3>2. /\ i + 1 \in 1 .. Len(timers) /\ j + 1 \in 1 .. Len(timers) /\ i + 1 < j + 1
          /\ timers'[i] = timers[i + 1] /\ timers'[j] = timers[j + 1]
      BY <3>1
    <3> QED BY <3>2 DEF SlotsInv, TimersSorted
  <2>5. ASSUME NEW m \in Msgs
        PROVE  Tracked(m)'
    <3>1. Tracked(m)
      BY DEF SlotsInv
    <3>2. /\ Holds(timers, m) <=> e.cb = m \/ Holds(timers', m)
          /\ Once(timers, m) => Once(timers', m)
          /\ Once(timers, m) /\ e.cb = m => ~Holds(timers', m)
      BY <1>3, <2>1, <2>2, PopHolds
    <3>3. (InShell(m)' <=> InShell(m)) /\ (InBody(m)' <=> InBody(m)) /\ (OneBody(m)' <=> OneBody(m))
      BY <1>1, <1>3 DEF InShell, InBody, OneBody, Prints
    <3>4. CASE Len(tasks) < TaskPool
      <4>1. /\ Holds(tasks', m) <=> Holds(tasks, m) \/ e.cb = m
            /\ Once(tasks, m) /\ (e.cb = m => ~Holds(tasks, m)) => Once(tasks', m)
        BY <2>2, <3>4, AddTaskHolds DEF SlotsInv
      <4>2. used' = used
        BY <1>3, <3>4 DEF DeliverTimer
      <4> QED BY <3>1, <3>2, <3>3, <4>1, <4>2 DEF Tracked
    <3>5. CASE ~(Len(tasks) < TaskPool)
      <4>1. tasks' = tasks /\ (m \in used' <=> m \in used /\ m # e.cb)
        BY <1>3, <2>2, <3>5 DEF DeliverTimer, AddTask
      <4> QED BY <3>1, <3>2, <3>3, <4>1 DEF Tracked
    <3> QED BY <3>4, <3>5
  <2> QED BY <2>3, <2>4, <2>5 DEF SlotsInv
<1> QED BY <1>2, <1>3 DEF TimerTurn

\* Taking a task off the queue moves its slot to the frame that runs it.
LEMMA StartTaskSlots ==
  ASSUME Inv, SlotsInv, StartTask, TasksSorted'
  PROVE  SlotsInv'
<1> DEFINE f == [frames[1] EXCEPT !.at = "body", !.cb = Head(tasks).cb, !.prev = prio]
<1>1. /\ frames # <<>> /\ frames[1].at = "pending" /\ frames[1] \in Frame
      /\ tasks # <<>> /\ tasks' = Tail(tasks) /\ UNCHANGED <<timers, used, shell>>
      /\ tasks \in Seq(TaskEvent) /\ prio \in Nat \cup {NoPriority}
  BY InnermostFrame DEF StartTask, In, StartsNow, Inv, TypeOK
<1>2. Head(tasks) \in TaskEvent
  BY <1>1, Pop
<1>3. f \in Frame /\ f.at = "body" /\ f.cb = Head(tasks).cb
  BY <1>1, <1>2 DEF Frame, TaskEvent
<1>4. frames' = [frames EXCEPT ![1] = f]
  BY <1>1 DEF StartTask
<1> HIDE DEF f
<1>5. ASSUME NEW m \in Msgs
      PROVE  Tracked(m)'
  <2>1. Tracked(m)
    BY DEF SlotsInv
  <2>2. /\ Holds(tasks, m) <=> f.cb = m \/ Holds(tasks', m)
        /\ Once(tasks, m) => Once(tasks', m)
        /\ Once(tasks, m) /\ f.cb = m => ~Holds(tasks', m)
    BY <1>1, <1>3, PopHolds
  <2>3. /\ InBody(m)' <=> InBody(m) \/ f.cb = m
        /\ OneBody(m) /\ (f.cb = m => ~InBody(m)) => OneBody(m)'
    BY <1>1, <1>3, <1>4, BodyStarts
  <2>4. InShell(m)' <=> InShell(m)
    BY <1>1 DEF InShell
  <2> QED BY <1>1, <2>1, <2>2, <2>3, <2>4 DEF Tracked
<1>6. TimersSorted'
  BY <1>1 DEF SlotsInv, TimersSorted
<1> QED BY <1>5, <1>6 DEF SlotsInv

\* The body of a callback, and its end, leave every slot with its owner or free it.
LEMMA BodySlots ==
  ASSUME Inv, SlotsInv, Body, TasksSorted'
  PROVE  SlotsInv'
<1>1. /\ frames # <<>> /\ frames[1].at = "body" /\ frames[1] \in Frame /\ Running = frames[1].cb
      /\ UNCHANGED <<timers, shell>> /\ now \in Nat
  BY InnermostFrame DEF Body, In, Running, Inv, TypeOK
<1>2. \E f \in Frame : frames' = [frames EXCEPT ![1] = f] /\ f.at # "body"
  <2>1. PICK at \in {"end", "trigger"} : To(at)
    BY DEF Body
  <2>2. [frames[1] EXCEPT !.at = at] \in Frame /\ [frames[1] EXCEPT !.at = at].at # "body"
    BY <1>1 DEF Frame
  <2>3. frames' = [frames EXCEPT ![1] = [frames[1] EXCEPT !.at = at]]
    BY <1>1, <2>1 DEF To
  <2> QED BY <2>2, <2>3
<1>3. ASSUME NEW m \in Msgs
      PROVE  Tracked(m)'
  <2>1. Tracked(m)
    BY DEF SlotsInv
  <2>2. OneBody(m)' /\ (InBody(m)' <=> InBody(m) /\ Running # m)
    BY <1>1, <1>2, <2>1, BodyEnds DEF Tracked
  <2>3. InShell(m)' <=> InShell(m)
    BY <1>1 DEF InShell
  <2>4. Running = m => InBody(m)
    BY <1>1, InnermostFrame DEF InBody, Prints
  <2>5. CASE Running \in Msgs \cup {"p1"} /\ used' = used \ {Running} /\ tasks' = tasks
    BY <1>1, <2>1, <2>2, <2>3, <2>4, <2>5 DEF Tracked
  <2>6. CASE /\ Running \in DOMAIN Adds /\ used' = used
             /\ tasks' = AddTask(tasks, [prio |-> Priority[Adds[Running]],
                                         cb |-> Adds[Running], due |-> now])
    <3> DEFINE e == [prio |-> Priority[Adds[Running]], cb |-> Adds[Running], due |-> now]
    <3>1. Adds[Running] \in {"p1", "p2", "p3", "p4"} /\ Running \in Adv2
      BY <2>6 DEF Adds, Adv2
    <3>2. Priority[Adds[Running]] \in Nat
      BY <3>1 DEF Priority
    <3>3. e \in TaskEvent /\ e.cb # m /\ Running # m
      BY <1>1, <3>1, <3>2, DeferredAssumption DEF TaskEvent, Callbacks, Adv2
    <3>4. tasks' = AddTask(tasks, e)
      BY <2>6
    <3> HIDE DEF e
    <3>5. (Holds(tasks', m) <=> Holds(tasks, m)) /\ (Once(tasks, m) => Once(tasks', m))
      BY <3>3, <3>4, AddTaskHolds DEF SlotsInv
    <3> QED BY <1>1, <2>1, <2>2, <2>3, <2>6, <3>3, <3>5 DEF Tracked
  <2> QED BY <2>5, <2>6 DEF Body
<1>4. TimersSorted'
  BY <1>1 DEF SlotsInv, TimersSorted
<1> QED BY <1>3, <1>4 DEF SlotsInv

\* Entering and leaving a trap moves no slot.
LEMMA TrapSlots ==
  ASSUME Inv, SlotsInv,
         (\E at \in {"timer", "pending"} : Trap(at)) \/ Resume \/ Trigger \/ Finish \/ TrapReturn
  PROVE  SlotsInv'
<1>1. UNCHANGED <<timers, tasks, used, shell>>
  BY DEF Trap, Resume, Trigger, Finish, TrapReturn
<1>2. ASSUME NEW m
      PROVE  (InBody(m)' <=> InBody(m)) /\ (OneBody(m) => OneBody(m)')
  <2>1. CASE \E at \in {"timer", "pending"} : Trap(at)
    <3>1. PICK at \in {"timer", "pending"} : Trap(at)
      BY <2>1
    <3> DEFINE f == [at |-> at, user |-> InUser, cb |-> None, prev |-> NoPriority]
    <3>2. f \in Frame /\ f.at # "body" /\ frames' = <<f>> \o frames
      BY <3>1 DEF Frame, InUser, Trap
    <3> HIDE DEF f
    <3> QED BY <3>2, SameBodies
  <2>2. CASE TrapReturn
    <3>1. frames # <<>> /\ frames[1].at # "body" /\ frames' = Tail(frames)
      BY <2>2, InnermostFrame DEF TrapReturn, In
    <3> QED BY <3>1, SameBodies
  <2>3. CASE Resume \/ Trigger
    <3>1. /\ frames # <<>> /\ frames[1].at # "body" /\ frames[1] \in Frame
          /\ To("pending") \/ To("end")
      BY <2>3, InnermostFrame DEF Resume, Trigger, In
    <3>2. PICK at \in {"pending", "end"} : To(at)
      BY <3>1
    <3> DEFINE f == [frames[1] EXCEPT !.at = at]
    <3>3. f \in Frame /\ f.at # "body"
      BY <3>1 DEF Frame
    <3>4. frames' = [frames EXCEPT ![1] = f]
      BY <3>1, <3>2 DEF To
    <3> HIDE DEF f
    <3> QED BY <3>1, <3>3, <3>4, SameBodies
  <2>4. CASE Finish
    <3> DEFINE f == [frames[1] EXCEPT !.at = "pending", !.cb = None, !.prev = NoPriority]
    <3>1. frames # <<>> /\ frames[1].at # "body" /\ frames[1] \in Frame
      BY <2>4, InnermostFrame DEF Finish, In
    <3>2. f \in Frame /\ f.at # "body"
      BY <3>1 DEF Frame
    <3>3. frames' = [frames EXCEPT ![1] = f]
      BY <2>4, <3>1 DEF Finish
    <3> HIDE DEF f
    <3> QED BY <3>1, <3>2, <3>3, SameBodies
  <2> QED BY <2>1, <2>2, <2>3, <2>4
<1> QED BY <1>1, <1>2, SlotsSame DEF InShell

\* The commands of the shell take a free slot or none.
LEMMA CommandSlots ==
  ASSUME Inv, SlotsInv, SetTimeout \/ RunProgram \/ ProgramEnds \/ Advance
  PROVE  SlotsInv'
<1>1. timers' = timers /\ tasks' = tasks
  BY DEF SetTimeout, RunProgram, ProgramEnds, Advance
<1>2. TasksSorted' /\ TimersSorted'
  BY <1>1 DEF SlotsInv, TasksSorted, TimersSorted
<1>3. ASSUME NEW m \in Msgs
      PROVE  (InBody(m)' <=> InBody(m)) /\ (OneBody(m) => OneBody(m)')
  <2>1. CASE frames' = frames
    BY <2>1 DEF InBody, OneBody, Prints
  <2>2. CASE ProgramEnds
    <3>1. frames' = <<>>
      BY <2>2 DEF ProgramEnds
    <3>2. ~InBody(m)
      <4>1. CASE frames = <<>>
        BY <4>1 DEF InBody
      <4>2. CASE frames # <<>>
        <5>1. Len(frames) = 1 /\ frames[1].at = "sched"
          BY <2>2, <4>2, InnermostFrame DEF ProgramEnds, In
        <5> QED BY <5>1 DEF InBody, Prints
      <4> QED BY <4>1, <4>2
    <3> QED BY <3>1, <3>2 DEF InBody, OneBody
  <2> QED BY <2>1, <2>2 DEF SetTimeout, RunProgram, Advance
<1>4. CASE SetTimeout
  <2>1. PICK n \in Msgs \ used, d \in Delays :
          used' = used \cup {n} /\ shell' = [at |-> "add", msg |-> n, delay |-> d]
    BY <1>4 DEF SetTimeout
  <2>2. shell.at = "prompt"
    BY <1>4 DEF SetTimeout, ShellAt
  <2>3. ASSUME NEW m \in Msgs
        PROVE  Tracked(m)'
    <3>1. Tracked(m) /\ ~InShell(m) /\ (InShell(m)' <=> m = n)
      BY <2>1, <2>2 DEF SlotsInv, InShell
    <3>2. m \in used' <=> m \in used \/ m = n
      BY <2>1
    <3> QED BY <1>1, <1>3, <2>1, <3>1, <3>2 DEF Tracked
  <2> QED BY <1>2, <2>3 DEF SlotsInv
<1>5. CASE RunProgram \/ ProgramEnds \/ Advance
  <2>1. used' = used /\ \A m \in Msgs : InShell(m)' <=> InShell(m)
    BY <1>5 DEF RunProgram, ProgramEnds, Advance, ShellAt, InShell
  <2> QED BY <1>1, <1>3, <2>1, SlotsSame
<1> QED BY <1>4, <1>5

\* add_timer and enqueue_task give a slot to one list, in its place.
LEMMA AddSlots ==
  ASSUME Inv, SlotsInv, AddTimeout \/ TaskTest
  PROVE  SlotsInv'
<1>1. tasks' = tasks /\ frames' = frames
  BY DEF AddTimeout, TaskTest
<1>2. TasksSorted'
  BY <1>1 DEF SlotsInv, TasksSorted
<1>3. \A m : (InBody(m)' <=> InBody(m)) /\ (OneBody(m) => OneBody(m)')
  BY <1>1 DEF InBody, OneBody, Prints
<1>4. CASE TaskTest
  <2>1. "start" \in Callbacks /\ 0 \in Nat /\ AddTimer("start", 0) /\ "start" \notin Msgs
        /\ UNCHANGED <<used, shell>>
    BY <1>4, DeferredAssumption DEF TaskTest, Callbacks, Adv2
  <2>2. TimersSorted'
    BY <2>1, AddTimerHolds DEF SlotsInv
  <2>3. ASSUME NEW m \in Msgs
        PROVE  Tracked(m)'
    <3>1. (Holds(timers', m) <=> Holds(timers, m)) /\ (Once(timers, m) => Once(timers', m))
      BY <2>1, AddTimerHolds DEF SlotsInv
    <3>2. InShell(m)' <=> InShell(m)
      BY <2>1 DEF InShell
    <3> QED BY <1>1, <1>3, <2>1, <3>1, <3>2 DEF Tracked, SlotsInv
  <2> QED BY <1>2, <2>2, <2>3 DEF SlotsInv
<1>5. CASE AddTimeout /\ (shell.delay < 0 \/ Len(timers) = TimerPool)
  <2>1. /\ timers' = timers /\ used' = used \ {shell.msg} /\ shell.at = "add"
        /\ shell'.at = "prompt"
    BY <1>5 DEF AddTimeout, ShellAt
  <2>2. ASSUME NEW m \in Msgs
        PROVE  Tracked(m)'
    <3>1. Tracked(m) /\ (InShell(m) <=> shell.msg = m) /\ ~InShell(m)'
      BY <2>1 DEF SlotsInv, InShell
    <3>2. m \in used' <=> m \in used /\ shell.msg # m
      BY <2>1
    <3> QED BY <1>1, <1>3, <2>1, <3>1, <3>2 DEF Tracked
  <2>3. TimersSorted'
    BY <2>1 DEF SlotsInv, TimersSorted
  <2> QED BY <1>2, <2>2, <2>3 DEF SlotsInv
<1>6. CASE AddTimeout /\ ~(shell.delay < 0 \/ Len(timers) = TimerPool)
  <2>1. /\ AddTimer(shell.msg, shell.delay) /\ used' = used /\ shell.at = "add"
        /\ shell'.at = "prompt" /\ shell \in Shell
    BY <1>6 DEF AddTimeout, ShellAt, Inv, TypeOK
  <2>2. shell.msg \in Msgs /\ shell.delay \in Delays
    BY <2>1 DEF Shell
  <2>3. shell.delay \in Nat /\ shell.msg \in Callbacks
    <3>1. shell.delay \in Int /\ shell.msg \in Callbacks
      BY <2>2, DeferredAssumption DEF Callbacks
    <3>2. ~(shell.delay < 0)
      BY <1>6
    <3> QED BY <3>1, <3>2
  <2>4. TimersSorted'
    BY <2>1, <2>3, AddTimerHolds DEF SlotsInv
  <2>5. ASSUME NEW m \in Msgs
        PROVE  Tracked(m)'
    <3>1. Tracked(m) /\ (InShell(m) <=> shell.msg = m) /\ ~InShell(m)'
      BY <2>1 DEF SlotsInv, InShell
    <3>2. /\ Holds(timers', m) <=> Holds(timers, m) \/ shell.msg = m
          /\ Once(timers, m) /\ (shell.msg = m => ~Holds(timers, m)) => Once(timers', m)
      BY <2>1, <2>3, AddTimerHolds DEF SlotsInv
    <3> QED BY <1>1, <1>3, <2>1, <3>1, <3>2 DEF Tracked
  <2> QED BY <1>2, <2>4, <2>5 DEF SlotsInv
<1> QED BY <1>4, <1>5, <1>6

\* What the invariant says of the places that refer to a slot.
LEMMA TrackedOwned == SlotsInv => SlotsOwned
<1> SUFFICES ASSUME SlotsInv, NEW m \in Msgs
             PROVE  IF m \in used THEN \E o \in Owners(m) : Owners(m) = {o} ELSE Owners(m) = {}
  BY DEF SlotsOwned
<1>1. Tracked(m)
  BY DEF SlotsInv
<1>2. \A o \in Owners(m) :
        \/ o = <<"shell", 1>> /\ InShell(m)
        \/ \E i \in 1 .. Len(timers) : o = <<"timer", i>> /\ timers[i].cb = m
        \/ \E i \in 1 .. Len(tasks) : o = <<"task", i>> /\ tasks[i].cb = m
        \/ \E i \in 1 .. Len(frames) : o = <<"frame", i>> /\ Prints(i, m)
  BY DEF Owners, InShell, Prints
<1>3. /\ InShell(m) => <<"shell", 1>> \in Owners(m)
      /\ \A i \in 1 .. Len(timers) : timers[i].cb = m => <<"timer", i>> \in Owners(m)
      /\ \A i \in 1 .. Len(tasks) : tasks[i].cb = m => <<"task", i>> \in Owners(m)
      /\ \A i \in 1 .. Len(frames) : Prints(i, m) => <<"frame", i>> \in Owners(m)
  BY DEF Owners, InShell, Prints
<1>4. CASE m \notin used
  BY <1>1, <1>2, <1>4 DEF Tracked, Holds, InBody
<1>5. CASE m \in used
  <2>1. \E o : o \in Owners(m)
    BY <1>1, <1>3, <1>5 DEF Tracked, Holds, InBody
  <2>2. ASSUME NEW o \in Owners(m), NEW p \in Owners(m)
        PROVE  o = p
    BY <1>1, <1>2 DEF Tracked, Holds, InBody, Once, OneBody
  <2> QED BY <1>5, <2>1, <2>2
<1> QED BY <1>4, <1>5

\* The three inductive invariants together.
LEMMA AllInvariant == Spec => [](Inv /\ Preempts /\ SlotsInv)
<1>1. Init => SlotsInv
  <2> SUFFICES ASSUME Init
               PROVE  SlotsInv
    OBVIOUS
  <2>1. ASSUME NEW m \in Msgs
        PROVE  Tracked(m)
    BY DEF Init, Tracked, Holds, Once, InShell, InBody, OneBody
  <2>2. TasksSorted /\ TimersSorted
    BY DEF Init, TasksSorted, TimersSorted
  <2> QED BY <2>1, <2>2 DEF SlotsInv
<1>2. Init => Preempts
  BY DEF Init, Preempts, Unmasked, TasksSorted, Served
<1>3. Inv /\ Preempts /\ SlotsInv /\ [Next]_vars => Preempts' /\ SlotsInv'
  <2> SUFFICES ASSUME Inv, Preempts, SlotsInv, [Next]_vars
               PROVE  Preempts' /\ SlotsInv'
    OBVIOUS
  <2>1. CASE UNCHANGED vars
    <3>1. Preempts'
      BY <2>1 DEF vars, Preempts, Unmasked, TasksSorted, Served, NoneHigher
    <3>2. SlotsInv'
      <4>1. UNCHANGED <<timers, tasks, used, shell, frames>>
        BY <2>1 DEF vars
      <4> QED BY <4>1, SlotsSame DEF InShell, InBody, OneBody, Prints
    <3> QED BY <3>1, <3>2
  <2>2. CASE Next
    <3>1. Preempts'
      BY <2>2, PreemptsStep
    <3>2. TasksSorted'
      BY <3>1 DEF Preempts
    <3>3. SlotsInv'
      BY <2>2, <3>2, TrapSlots, TimerTurnSlots, StartTaskSlots, BodySlots, CommandSlots, AddSlots
      DEF Next, Interrupt, OtherTrap, TrapStep, Callback, ShellStep
    <3> QED BY <3>1, <3>3
  <2> QED BY <2>1, <2>2
<1> QED BY <1>1, <1>2, <1>3, Invariance, PTL DEF Spec

\* timeout_msgs[]: every slot in use has exactly one owner and a free one has none,
\* for any number of slots, pools of any size, and any nesting of interrupts.
THEOREM SlotsAlwaysOwned == Spec => []SlotsOwned
BY AllInvariant, TrackedOwned, PTL

(***************************************************************************)
(* The order of the timeouts.  Without tasktest every timer and every task *)
(* is that of one message slot, so there are at most as many as there are  *)
(* slots, and a pool of that many tasks never runs out.                    *)
(***************************************************************************)
OnlyTimeouts ==
  /\ \A i \in 1 .. Len(timers) : timers[i].cb \in Msgs
  /\ \A i \in 1 .. Len(tasks) : tasks[i].cb \in Msgs /\ tasks[i].prio = 1 /\ tasks[i].due <= now
  /\ \A i \in 1 .. Len(frames) : frames[i].cb \in Msgs \cup {None}

Waits == [cb : Msgs, due : Nat]

\* The list of the timeouts that wait, entry by entry.
WaitingIs ==
  /\ Waiting \in Seq(Waits) /\ Len(Waiting) = Len(tasks) + Len(timers)
  /\ \A i \in 1 .. Len(tasks) : Waiting[i] = [cb |-> tasks[i].cb, due |-> tasks[i].due]
  /\ \A i \in 1 .. Len(timers) :
       Waiting[Len(tasks) + i] = [cb |-> timers[i].cb, due |-> timers[i].at]

LEMMA WaitingAt == TypeOK /\ OnlyTimeouts => WaitingIs
<1> SUFFICES ASSUME TypeOK, OnlyTimeouts PROVE WaitingIs
  OBVIOUS
<1> DEFINE s == [i \in 1 .. Len(tasks) |-> [cb |-> tasks[i].cb, due |-> tasks[i].due]]
           t == [i \in 1 .. Len(timers) |-> [cb |-> timers[i].cb, due |-> timers[i].at]]
<1>1. /\ tasks \in Seq(TaskEvent) /\ timers \in Seq(TimerEvent)
      /\ Len(tasks) \in Nat /\ Len(timers) \in Nat
  BY DEF TypeOK
<1>2. /\ \A i \in 1 .. Len(tasks) : s[i] \in Waits
      /\ \A i \in 1 .. Len(timers) : t[i] \in Waits
  <2>1. /\ \A i \in 1 .. Len(tasks) : tasks[i].cb \in Msgs /\ tasks[i].due \in Nat
        /\ \A i \in 1 .. Len(timers) : timers[i].cb \in Msgs /\ timers[i].at \in Nat
    <3>1. /\ \A i \in 1 .. Len(tasks) : tasks[i] \in TaskEvent
          /\ \A i \in 1 .. Len(timers) : timers[i] \in TimerEvent
      BY <1>1
    <3> QED BY <3>1 DEF OnlyTimeouts, TaskEvent, TimerEvent
  <2> QED BY <2>1 DEF Waits
<1>3. s \in Seq(Waits) /\ t \in Seq(Waits) /\ Len(s) = Len(tasks) /\ Len(t) = Len(timers)
  BY <1>1, <1>2
<1>4. Waiting = s \o t
  BY DEF Waiting
<1>5. /\ \A i \in 1 .. Len(tasks) : s[i] = [cb |-> tasks[i].cb, due |-> tasks[i].due]
      /\ \A i \in 1 .. Len(timers) : t[i] = [cb |-> timers[i].cb, due |-> timers[i].at]
  OBVIOUS
<1> HIDE DEF s, t
<1>6. s \o t \in Seq(Waits) /\ Len(s \o t) = Len(s) + Len(t)
  BY <1>3
<1>7. /\ \A i \in 1 .. Len(s) : (s \o t)[i] = s[i]
      /\ \A i \in 1 .. Len(t) : (s \o t)[Len(s) + i] = t[i]
  BY <1>3
<1> QED BY <1>3, <1>4, <1>5, <1>6, <1>7 DEF WaitingIs

LEMMA WaitingNext == (TypeOK /\ OnlyTimeouts)' => WaitingIs'
BY WaitingAt, PTL

\* Lists that agree in every place are the same.
LEMMA SameSeq ==
  ASSUME NEW S, NEW s \in Seq(S), NEW t \in Seq(S), Len(s) = Len(t),
         \A i \in 1 .. Len(s) : s[i] = t[i]
  PROVE  s = t
OBVIOUS

\* What a list is without an entry that was put in.
LEMMA RemoveInserted ==
  ASSUME NEW S, NEW s \in Seq(S), NEW u \in Seq(S), Len(u) = Len(s) + 1, NEW k \in 1 .. Len(u),
         \A i \in 1 .. k - 1 : u[i] = s[i],
         \A i \in k + 1 .. Len(u) : u[i] = s[i - 1]
  PROVE  Promised!RemoveAt(u, k) = s
<1> DEFINE a == SubSeq(u, 1, k - 1)
           b == SubSeq(u, k + 1, Len(u))
<1>1. Len(s) \in Nat /\ Len(u) \in Nat /\ k \in Nat /\ k >= 1 /\ k <= Len(u)
  OBVIOUS
<1>2. /\ a \in Seq(S) /\ Len(a) = k - 1
      /\ \A i \in 1 .. k - 1 : a[i] = u[i]
  BY <1>1
<1>3. /\ b \in Seq(S) /\ Len(b) = Len(u) - k
      /\ \A i \in 1 .. Len(u) - k : b[i] = u[k + i]
  BY <1>1
<1>4. Promised!RemoveAt(u, k) = a \o b
  BY DEF Promised!RemoveAt
<1> HIDE DEF a, b
<1>5. a \o b \in Seq(S) /\ Len(a \o b) = Len(s)
  BY <1>1, <1>2, <1>3
<1>6. ASSUME NEW i \in 1 .. Len(s) PROVE (a \o b)[i] = s[i]
  <2>1. CASE i <= k - 1
    BY <1>1, <1>2, <1>3, <2>1
  <2>2. CASE i > k - 1
    <3>1. (a \o b)[i] = b[i - (k - 1)]
      BY <1>1, <1>2, <1>3, <2>2
    <3>2. i - (k - 1) \in 1 .. Len(u) - k /\ k + (i - (k - 1)) = i + 1
      BY <1>1, <2>2
    <3>3. i + 1 \in k + 1 .. Len(u) /\ (i + 1) - 1 = i
      BY <1>1, <2>2
    <3> QED BY <1>3, <3>1, <3>2, <3>3
  <2>3. i <= k - 1 \/ i > k - 1
    BY <1>1
  <2> QED BY <2>1, <2>2, <2>3
<1> QED BY <1>4, <1>5, <1>6, SameSeq

\* The tasks and one more timeout are of different slots.
LEMMA RoomForTask ==
  ASSUME IsFiniteSet(Msgs), Cardinality(Msgs) <= TaskPool,
         Inv, SlotsInv, OnlyTimeouts, timers # <<>>
  PROVE  Len(tasks) < TaskPool
<1> DEFINE n == Len(tasks)
           f == [i \in 1 .. n + 1 |-> IF i = n + 1 THEN timers[1].cb ELSE tasks[i].cb]
<1>1. n \in Nat /\ TaskPool \in Nat /\ 1 \in 1 .. Len(timers)
  BY DeferredAssumption DEF Inv, TypeOK
<1>2. \A i \in 1 .. n + 1 : f[i] \in Msgs
  <2>1. ASSUME NEW i \in 1 .. n + 1 PROVE f[i] \in Msgs
    <3>1. i = n + 1 \/ i \in 1 .. n
      BY <1>1
    <3> QED BY <1>1, <3>1 DEF OnlyTimeouts
  <2> QED BY <2>1
<1>3. \A m \in Msgs : Once(tasks, m) /\ (timers[1].cb = m => ~Holds(tasks, m))
  <2>1. \A m : timers[1].cb = m => Holds(timers, m)
    BY <1>1 DEF Holds
  <2> QED BY <2>1 DEF SlotsInv, Tracked
<1>4. ASSUME NEW i \in 1 .. n + 1, NEW j \in 1 .. n + 1, f[i] = f[j] PROVE i = j
  <2>1. CASE i \in 1 .. n /\ j \in 1 .. n
    BY <1>1, <1>2, <1>3, <1>4, <2>1 DEF Once
  <2>2. CASE i = n + 1 /\ j \in 1 .. n
    BY <1>1, <1>2, <1>3, <1>4, <2>2 DEF Holds
  <2>3. CASE i \in 1 .. n /\ j = n + 1
    BY <1>1, <1>2, <1>3, <1>4, <2>3 DEF Holds
  <2> QED BY <1>1, <2>1, <2>2, <2>3
<1>5. f \in Injection(1 .. n + 1, Msgs)
  BY <1>2, <1>4 DEF Injection, IsInjective
<1> HIDE DEF f
<1>6. Cardinality(1 .. n + 1) <= Cardinality(Msgs) /\ Cardinality(1 .. n + 1) = n + 1
  BY <1>1, <1>5, FS_Injection, FS_Interval
<1>7. Cardinality(Msgs) \in Nat
  BY FS_CardinalityType
<1> QED BY <1>1, <1>6, <1>7

\* Steps that leave the lists alone.
LEMMA WaitingSame ==
  ASSUME UNCHANGED <<timers, tasks, now>>, OnlyTimeouts,
         \A i \in 1 .. Len(frames') : frames'[i].cb \in Msgs \cup {None}
  PROVE  OnlyTimeouts' /\ Waiting' = Waiting
BY DEF OnlyTimeouts, Waiting

\* The callbacks of the frames, after a step of the innermost one.
LEMMA FramesOnly ==
  ASSUME Inv, \A i \in 1 .. Len(frames) : frames[i].cb \in Msgs \cup {None},
         \/ frames' = frames \/ frames' = <<>>
         \/ \E f \in Frame : frames' = <<f>> \o frames /\ f.cb \in Msgs \cup {None}
         \/ frames # <<>> /\ frames' = Tail(frames)
         \/ frames # <<>> /\ \E f \in Frame : /\ frames' = [frames EXCEPT ![1] = f]
                                              /\ f.cb \in Msgs \cup {None}
  PROVE  \A i \in 1 .. Len(frames') : frames'[i].cb \in Msgs \cup {None}
<1>1. frames \in Seq(Frame) /\ Len(frames) \in Nat
  BY DEF Inv, TypeOK
<1>2. CASE \E f \in Frame : frames' = <<f>> \o frames /\ f.cb \in Msgs \cup {None}
  <2>1. /\ Len(frames') = Len(frames) + 1 /\ frames'[1].cb \in Msgs \cup {None}
        /\ \A i \in 2 .. Len(frames) + 1 : frames'[i] = frames[i - 1]
    BY <1>1, <1>2, Push
  <2>2. \A i \in 1 .. Len(frames) + 1 : i = 1 \/ (i \in 2 .. Len(frames) + 1 /\ i - 1 \in 1 .. Len(frames))
    BY <1>1
  <2> QED BY <2>1, <2>2
<1>3. CASE frames # <<>> /\ frames' = Tail(frames)
  <2>1. /\ Len(frames') = Len(frames) - 1
        /\ \A i \in 1 .. Len(frames) - 1 : frames'[i] = frames[i + 1]
    BY <1>1, <1>3, Pop
  <2>2. \A i \in 1 .. Len(frames) - 1 : i + 1 \in 1 .. Len(frames)
    BY <1>1
  <2> QED BY <2>1, <2>2
<1>4. CASE frames # <<>> /\ \E f \in Frame : /\ frames' = [frames EXCEPT ![1] = f]
                                             /\ f.cb \in Msgs \cup {None}
  <2>1. /\ Len(frames') = Len(frames) /\ frames'[1].cb \in Msgs \cup {None}
        /\ \A i \in 2 .. Len(frames) : frames'[i] = frames[i]
    BY <1>1, <1>4, ReplaceFirst
  <2>2. \A i \in 1 .. Len(frames) : i = 1 \/ i \in 2 .. Len(frames)
    BY <1>1
  <2> QED BY <2>1, <2>2
<1>5. CASE frames' = frames \/ frames' = <<>>
  BY <1>5
<1> QED BY <1>2, <1>3, <1>4, <1>5

\* The expired timer comes behind the tasks, where it was.
LEMMA DeliverWaits ==
  ASSUME IsFiniteSet(Msgs), Cardinality(Msgs) <= TaskPool,
         Inv, Inv', SlotsInv, OnlyTimeouts, TimerTurn, Expired, timers' = Tail(timers),
         DeliverTimer(Head(timers)), frames' = frames, now' = now
  PROVE  OnlyTimeouts' /\ Waiting' = Waiting
<1> DEFINE e == [prio |-> 1, cb |-> Head(timers).cb, due |-> Head(timers).at]
           stays == {i \in 1 .. Len(tasks) : tasks[i].prio >= 1}
<1>1. /\ timers # <<>> /\ timers \in Seq(TimerEvent) /\ tasks \in Seq(TaskEvent)
      /\ Len(timers) \in Nat /\ Len(tasks) \in Nat /\ now \in Nat
  BY DEF Expired, Inv, TypeOK
<1>2. /\ Head(timers) = timers[1] /\ timers[1] \in TimerEvent /\ Len(timers) > 0
      /\ Len(timers') = Len(timers) - 1
      /\ \A i \in 1 .. Len(timers) - 1 : timers'[i] = timers[i + 1]
  BY <1>1, Pop
<1>3. /\ e \in TaskEvent /\ e.cb = timers[1].cb /\ e.due = timers[1].at /\ e.prio = 1
      /\ e.cb \in Msgs /\ e.due <= now
  <2>1. timers[1].cb \in Msgs /\ timers[1].at <= now
    BY <1>2 DEF OnlyTimeouts, Expired
  <2> QED BY <1>2, <2>1 DEF TimerEvent, TaskEvent
<1>4. stays = 1 .. Len(tasks)
  BY <1>1 DEF OnlyTimeouts
<1>5. tasks' = InsertAfter(tasks, e, stays)
  BY RoomForTask, <1>1 DEF DeliverTimer, AddTask, InsertTask
<1> HIDE DEF e, stays
<1>6. /\ Len(tasks') = Len(tasks) + 1
      /\ \A i \in 1 .. Len(tasks) : tasks'[i] = tasks[i]
      /\ tasks'[Len(tasks) + 1] = e
  <2>1. /\ tasks' \in Seq(TaskEvent) /\ Len(tasks') = Len(tasks) + 1
    BY <1>1, <1>3, <1>4, <1>5, Insert
  <2>2. \A i \in 1 .. Len(tasks) + 1 :
          tasks'[i] = IF i \in 1 .. Len(tasks) THEN tasks[i]
                      ELSE IF i = 1 \/ i - 1 \in 1 .. Len(tasks) THEN e ELSE tasks[i - 1]
    BY <1>4, <1>5 DEF InsertAfter
  <2>3. /\ Len(tasks) + 1 \in 1 .. Len(tasks) + 1 /\ Len(tasks) + 1 \notin 1 .. Len(tasks)
        /\ Len(tasks) + 1 = 1 \/ (Len(tasks) + 1) - 1 \in 1 .. Len(tasks)
    BY <1>1
  <2> QED BY <1>1, <2>1, <2>2, <2>3
<1>7. OnlyTimeouts'
  <2>1. \A i \in 1 .. Len(tasks) + 1 : i \in 1 .. Len(tasks) \/ i = Len(tasks) + 1
    BY <1>1
  <2>2. \A i \in 1 .. Len(tasks') : tasks'[i].cb \in Msgs /\ tasks'[i].prio = 1 /\ tasks'[i].due <= now
    BY <1>3, <1>6, <2>1 DEF OnlyTimeouts
  <2>3. \A i \in 1 .. Len(timers') : timers'[i].cb \in Msgs
    <3>1. \A i \in 1 .. Len(timers) - 1 : i + 1 \in 1 .. Len(timers)
      BY <1>1
    <3> QED BY <1>2, <3>1 DEF OnlyTimeouts
  <2> QED BY <2>2, <2>3 DEF OnlyTimeouts
<1>8. WaitingIs /\ WaitingIs'
  BY <1>7, WaitingAt, WaitingNext DEF Inv
<1>9. Len(Waiting') = Len(Waiting)
  BY <1>1, <1>2, <1>6, <1>8 DEF WaitingIs
<1>10. ASSUME NEW i \in 1 .. Len(Waiting) PROVE Waiting'[i] = Waiting[i]
  <2>0. i \in 1 .. Len(tasks) + Len(timers)
    BY <1>8 DEF WaitingIs
  <2>1. CASE i \in 1 .. Len(tasks)
    <3>1. i \in 1 .. Len(tasks')
      BY <1>1, <1>6, <2>1
    <3> QED BY <1>6, <1>8, <2>1, <3>1 DEF WaitingIs
  <2>2. CASE i = Len(tasks) + 1
    <3>1. i \in 1 .. Len(tasks') /\ 1 \in 1 .. Len(timers)
      BY <1>1, <1>2, <1>6, <2>2
    <3> QED BY <1>3, <1>6, <1>8, <2>2, <3>1 DEF WaitingIs
  <2>3. CASE i > Len(tasks) + 1
    <3>1. PICK j \in 1 .. Len(timers) - 1 : i = Len(tasks') + j /\ i = Len(tasks) + (j + 1)
      <4>1. i - Len(tasks) - 1 \in 1 .. Len(timers) - 1
        BY <1>1, <2>0, <2>3
      <4>2. i = Len(tasks') + (i - Len(tasks) - 1) /\ i = Len(tasks) + ((i - Len(tasks) - 1) + 1)
        BY <1>1, <1>6, <2>0
      <4> QED BY <4>1, <4>2
    <3>2. j \in 1 .. Len(timers') /\ j + 1 \in 1 .. Len(timers) /\ timers'[j] = timers[j + 1]
      BY <1>1, <1>2
    <3> QED BY <1>8, <3>1, <3>2 DEF WaitingIs
  <2>4. i \in 1 .. Len(tasks) \/ i = Len(tasks) + 1 \/ i > Len(tasks) + 1
    BY <1>1, <2>0
  <2> QED BY <2>1, <2>2, <2>3, <2>4
<1> QED BY <1>7, <1>8, <1>9, <1>10, SameSeq DEF WaitingIs

\* The first task starts: it is the first timeout that waits.
LEMMA StartWaits ==
  ASSUME Inv, Inv', OnlyTimeouts, StartTask
  PROVE  OnlyTimeouts' /\ Promised!Emit
<1> DEFINE f == [frames[1] EXCEPT !.at = "body", !.cb = Head(tasks).cb, !.prev = prio]
<1>1. /\ frames # <<>> /\ frames[1] \in Frame /\ tasks # <<>> /\ tasks' = Tail(tasks)
      /\ timers' = timers /\ now' = now /\ tasks \in Seq(TaskEvent) /\ Len(tasks) \in Nat
      /\ Len(timers) \in Nat /\ prio \in Nat \cup {NoPriority}
  BY InnermostFrame DEF StartTask, In, StartsNow, Inv, TypeOK
<1>2. /\ Head(tasks) = tasks[1] /\ tasks[1] \in TaskEvent /\ Len(tasks) > 0
      /\ Len(tasks') = Len(tasks) - 1
      /\ \A i \in 1 .. Len(tasks) - 1 : tasks'[i] = tasks[i + 1]
  BY <1>1, Pop
<1>3. tasks[1].cb \in Msgs /\ tasks[1].due <= now
  BY <1>2 DEF OnlyTimeouts
<1>4. f \in Frame /\ f.cb \in Msgs \cup {None}
  BY <1>1, <1>2, <1>3 DEF Frame, TaskEvent
<1>5. frames' = [frames EXCEPT ![1] = f]
  BY <1>1 DEF StartTask
<1> HIDE DEF f
<1>6. \A i \in 1 .. Len(frames') : frames'[i].cb \in Msgs \cup {None}
  BY <1>1, <1>4, <1>5, FramesOnly DEF OnlyTimeouts
<1>7. OnlyTimeouts'
  <2>1. \A i \in 1 .. Len(tasks) - 1 : i + 1 \in 1 .. Len(tasks)
    BY <1>1
  <2> QED BY <1>1, <1>2, <1>6, <2>1 DEF OnlyTimeouts
<1>8. WaitingIs /\ WaitingIs'
  BY <1>7, WaitingAt, WaitingNext DEF Inv
<1>9. /\ Waiting \in Seq(Waits) /\ Len(Waiting) = Len(tasks) + Len(timers)
      /\ Waiting' \in Seq(Waits) /\ Len(Waiting') = Len(Waiting) - 1 /\ Len(Waiting') \in Nat
  BY <1>1, <1>2, <1>8 DEF WaitingIs
<1>10. Waiting # <<>>
  BY <1>1, <1>2, <1>9
<1>11. Head(Waiting).due <= now
  <2>1. Waiting[1] = [cb |-> tasks[1].cb, due |-> tasks[1].due]
    BY <1>1, <1>2, <1>8 DEF WaitingIs
  <2> QED BY <1>3, <1>9, <1>10, <2>1, Pop
<1>12. ASSUME NEW i \in 1 .. Len(Waiting') PROVE Waiting'[i] = Waiting[i + 1]
  <2>1. CASE i \in 1 .. Len(tasks) - 1
    <3>1. i \in 1 .. Len(tasks') /\ i + 1 \in 1 .. Len(tasks)
      BY <1>1, <1>2, <2>1
    <3>2. tasks'[i] = tasks[i + 1]
      BY <1>2, <2>1
    <3>3. Waiting'[i] = [cb |-> tasks'[i].cb, due |-> tasks'[i].due]
      BY <1>8, <3>1 DEF WaitingIs
    <3>4. Waiting[i + 1] = [cb |-> tasks[i + 1].cb, due |-> tasks[i + 1].due]
      BY <1>8, <3>1 DEF WaitingIs
    <3> QED BY <3>2, <3>3, <3>4
  <2>2. CASE i > Len(tasks) - 1
    <3>1. PICK j \in 1 .. Len(timers) : i = Len(tasks') + j /\ i + 1 = Len(tasks) + j
      <4>1. i - (Len(tasks) - 1) \in 1 .. Len(timers)
        BY <1>1, <1>9, <2>2
      <4>2. /\ i = Len(tasks') + (i - (Len(tasks) - 1))
            /\ i + 1 = Len(tasks) + (i - (Len(tasks) - 1))
        BY <1>1, <1>2, <1>9
      <4> QED BY <4>1, <4>2
    <3>2. j \in 1 .. Len(timers')
      BY <1>1
    <3> QED BY <1>1, <1>8, <3>1, <3>2 DEF WaitingIs
  <2>3. i \in 1 .. Len(tasks) - 1 \/ i > Len(tasks) - 1
    BY <1>1, <1>9
  <2> QED BY <2>1, <2>2, <2>3
<1>13. Waiting' = Tail(Waiting)
  <2>1. /\ Tail(Waiting) \in Seq(Waits) /\ Len(Tail(Waiting)) = Len(Waiting) - 1
        /\ \A i \in 1 .. Len(Waiting) - 1 : Tail(Waiting)[i] = Waiting[i + 1]
    BY <1>9, <1>10, Pop
  <2> QED BY <1>9, <1>12, <2>1, SameSeq
<1> QED BY <1>1, <1>7, <1>10, <1>11, <1>13 DEF Promised!Emit

\* A new timer comes behind the timeouts that are due no later, none of them its own.
LEMMA AddWaits ==
  ASSUME Inv, Inv', SlotsInv, OnlyTimeouts, NEW m \in Msgs, ~Holds(tasks, m), ~Holds(timers, m),
         NEW delay \in Nat, AddTimer(m, delay), UNCHANGED <<now, tasks, frames>>
  PROVE  OnlyTimeouts' /\ Promised!Accept
<1> DEFINE e == [at |-> now + delay, cb |-> m]
           R == {p \in TimerEvent \X TimerEvent : p[1].at <= p[2].at}
           stays == {i \in 1 .. Len(timers) : timers[i].at <= e.at}
<1>1. /\ timers \in Seq(TimerEvent) /\ tasks \in Seq(TaskEvent) /\ now \in Nat
      /\ Len(timers) \in Nat /\ Len(tasks) \in Nat /\ \A x \in TimerEvent : x.at \in Nat
  BY DEF Inv, TypeOK, TimerEvent
<1>2. \A i \in 1 .. Len(timers) : timers[i] \in TimerEvent
  BY <1>1
<1>3. e \in TimerEvent /\ e.cb = m /\ e.at >= now
  BY <1>1 DEF TimerEvent, Callbacks
<1>4. timers' = InsertAfter(timers, e, stays)
  BY DEF AddTimer, InsertTimer
<1> HIDE DEF e
<1>5. Sorted(timers, R) /\ stays = {i \in 1 .. Len(timers) : <<timers[i], e>> \in R}
  BY <1>2, <1>3 DEF SlotsInv, TimersSorted, Sorted
<1>6. Ordering(TimerEvent, R)
  BY <1>1 DEF Ordering
<1>7. \A i \in 1 .. Len(timers) : i \in stays <=> timers[i].at <= e.at
  OBVIOUS
<1> HIDE DEF R, stays
<1>8. Prefix(stays) /\ stays \in SUBSET (1 .. Len(timers))
  BY <1>1, <1>3, <1>5, <1>6, StaysPrefix
<1>9. PICK k \in 1 .. Len(timers) + 1 : Inserted(timers', timers, e, stays, k)
  BY <1>1, <1>3, <1>4, <1>8, InsertPlaces
<1>10. /\ timers' \in Seq(TimerEvent) /\ Len(timers') = Len(timers) + 1 /\ timers'[k] = e
       /\ \A i \in 1 .. k - 1 : timers'[i] = timers[i] /\ timers[i].at <= e.at
       /\ \A i \in k .. Len(timers) : timers'[i + 1] = timers[i] /\ timers[i].at > e.at
  <2>1. timers' \in Seq(TimerEvent) /\ Len(timers') = Len(timers) + 1
    BY <1>1, <1>3, <1>4, <1>8, Insert
  <2>2. ASSUME NEW i \in 1 .. k - 1 PROVE timers'[i] = timers[i] /\ timers[i].at <= e.at
    <3>1. i \in 1 .. Len(timers)
      BY <1>1
    <3>2. timers'[i] = timers[i] /\ i \in stays
      BY <1>9 DEF Inserted
    <3> QED BY <1>7, <3>1, <3>2
  <2>3. ASSUME NEW i \in k .. Len(timers) PROVE timers'[i + 1] = timers[i] /\ timers[i].at > e.at
    <3>1. i + 1 \in k + 1 .. Len(timers) + 1 /\ (i + 1) - 1 = i /\ i \in 1 .. Len(timers)
      BY <1>1
    <3>2. timers'[i + 1] = timers[i] /\ i \notin stays
      BY <1>9, <3>1 DEF Inserted
    <3>3. timers[i].at \in Int /\ e.at \in Int
      BY <1>1, <1>2, <1>3, <3>1
    <3> QED BY <1>7, <3>1, <3>2, <3>3
  <2> QED BY <1>9, <2>1, <2>2, <2>3 DEF Inserted
<1>11. OnlyTimeouts'
  <2>1. ASSUME NEW i \in 1 .. Len(timers') PROVE timers'[i].cb \in Msgs
    <3>1. CASE i <= k - 1
      <4>1. i \in 1 .. k - 1 /\ i \in 1 .. Len(timers)
        BY <1>1, <1>10, <3>1
      <4> QED BY <1>10, <4>1 DEF OnlyTimeouts
    <3>2. CASE i = k
      BY <1>3, <1>10, <3>2
    <3>3. CASE i > k
      <4>1. i - 1 \in k .. Len(timers) /\ (i - 1) + 1 = i /\ i - 1 \in 1 .. Len(timers)
        BY <1>1, <1>10, <3>3
      <4> QED BY <1>10, <4>1 DEF OnlyTimeouts
    <3>4. i <= k - 1 \/ i = k \/ i > k
      BY <1>1, <1>10
    <3> QED BY <3>1, <3>2, <3>3, <3>4
  <2> QED BY <2>1 DEF OnlyTimeouts
<1>12. WaitingIs /\ WaitingIs'
  BY <1>11, WaitingAt, WaitingNext DEF Inv
<1> DEFINE n == Len(tasks) + k
           w == Waiting'
<1>13. /\ w \in Seq(Waits) /\ Len(w) = Len(Waiting) + 1 /\ n \in 1 .. Len(w)
       /\ Waiting \in Seq(Waits) /\ Len(Waiting) = Len(tasks) + Len(timers)
       /\ w[n] = [cb |-> m, due |-> e.at]
  <2>1. /\ w \in Seq(Waits) /\ Waiting \in Seq(Waits) /\ Len(Waiting) = Len(tasks) + Len(timers)
        /\ Len(w) = Len(tasks') + Len(timers')
    BY <1>12 DEF WaitingIs
  <2>2. Len(w) = Len(Waiting) + 1 /\ n \in 1 .. Len(w)
    BY <1>1, <1>10, <2>1
  <2>3. k \in 1 .. Len(timers') /\ n = Len(tasks') + k
    BY <1>1, <1>10
  <2>4. w[n] = [cb |-> timers'[k].cb, due |-> timers'[k].at]
    BY <1>12, <2>3 DEF WaitingIs
  <2> QED BY <1>3, <1>10, <2>1, <2>2, <2>4
<1>14. ASSUME NEW j \in 1 .. Len(Waiting)
       PROVE  /\ Waiting[j].cb # m
              /\ j < n => w[j] = Waiting[j] /\ Waiting[j].due <= e.at
              /\ j >= n => w[j + 1] = Waiting[j] /\ ~(Waiting[j].due <= e.at)
  <2>1. CASE j \in 1 .. Len(tasks)
    <3>1. j < n /\ j \in 1 .. Len(tasks')
      BY <1>1, <2>1
    <3>2. Waiting[j] = [cb |-> tasks[j].cb, due |-> tasks[j].due] /\ w[j] = Waiting[j]
      BY <1>12, <2>1, <3>1 DEF WaitingIs
    <3>3. tasks[j].cb # m
      BY <2>1 DEF Holds
    <3>4. tasks[j].due <= e.at
      <4>1. tasks[j] \in TaskEvent
        BY <1>1, <2>1
      <4>2. tasks[j].due \in Nat /\ tasks[j].due <= now
        BY <2>1, <4>1 DEF OnlyTimeouts, TaskEvent
      <4> QED BY <1>1, <1>3, <4>2
    <3> QED BY <1>1, <3>1, <3>2, <3>3, <3>4
  <2>2. CASE j \notin 1 .. Len(tasks)
    <3>1. PICK i \in 1 .. Len(timers) : j = Len(tasks) + i
      <4>1. j - Len(tasks) \in 1 .. Len(timers) /\ j = Len(tasks) + (j - Len(tasks))
        BY <1>1, <1>13, <2>2
      <4> QED BY <4>1
    <3>2. Waiting[j] = [cb |-> timers[i].cb, due |-> timers[i].at] /\ timers[i].cb # m
      BY <1>12, <3>1 DEF WaitingIs, Holds
    <3>3. CASE i \in 1 .. k - 1
      <4>1. j < n /\ i \in 1 .. Len(timers')
        BY <1>1, <1>10, <3>1, <3>3
      <4>2. w[j] = [cb |-> timers'[i].cb, due |-> timers'[i].at]
        BY <1>12, <3>1, <4>1 DEF WaitingIs
      <4> QED BY <1>1, <1>10, <3>2, <3>3, <4>1, <4>2
    <3>4. CASE i \in k .. Len(timers)
      <4>1. j >= n /\ i + 1 \in 1 .. Len(timers') /\ j + 1 = Len(tasks') + (i + 1)
        BY <1>1, <1>10, <3>1, <3>4
      <4>2. w[j + 1] = [cb |-> timers'[i + 1].cb, due |-> timers'[i + 1].at]
        BY <1>12, <4>1 DEF WaitingIs
      <4>3. timers'[i + 1] = timers[i] /\ timers[i].at > e.at /\ timers[i].at \in Int /\ e.at \in Int
        BY <1>1, <1>2, <1>3, <1>10, <3>1, <3>4
      <4>4. w[j + 1] = Waiting[j] /\ Waiting[j].cb # m /\ Waiting[j].due = timers[i].at
        BY <3>2, <4>2, <4>3
      <4>5. ~(timers[i].at <= e.at)
        BY <4>3
      <4>6. ~(j < n)
        BY <1>1, <3>1, <4>1
      <4> QED BY <4>1, <4>4, <4>5, <4>6
    <3>5. i \in 1 .. k - 1 \/ i \in k .. Len(timers)
      BY <1>1, <3>1
    <3> QED BY <3>3, <3>4, <3>5
  <2> QED BY <2>1, <2>2
<1> HIDE DEF n, w
<1>15. Promised!RemoveAt(w, n) = Waiting
  <2>1. Len(Waiting) \in Nat /\ n \in Nat
    BY <1>13
  <2>2. ASSUME NEW i \in 1 .. n - 1 PROVE w[i] = Waiting[i]
    <3>1. i \in 1 .. Len(Waiting) /\ i < n
      BY <1>13, <2>1
    <3> QED BY <1>14, <3>1
  <2>3. ASSUME NEW i \in n + 1 .. Len(w) PROVE w[i] = Waiting[i - 1]
    <3>1. i - 1 \in 1 .. Len(Waiting) /\ i - 1 >= n /\ (i - 1) + 1 = i
      BY <1>13, <2>1
    <3> QED BY <1>14, <3>1
  <2> QED BY <1>13, <2>2, <2>3, RemoveInserted
<1>16. w[n].due >= now /\ \A j \in 1 .. Len(Waiting) :
         Waiting[j].cb # w[n].cb /\ (j < n <=> Waiting[j].due <= w[n].due)
  <2>1. w[n].due = e.at /\ w[n].cb = m
    BY <1>13
  <2>2. \A j \in 1 .. Len(Waiting) : j < n \/ j >= n
    BY <1>13
  <2>3. \A j \in 1 .. Len(Waiting) : ~(j < n /\ j >= n)
    BY <1>13
  <2> QED BY <1>3, <1>14, <2>1, <2>2, <2>3
<1> QED BY <1>11, <1>13, <1>15, <1>16 DEF Promised!Accept, w

\* The innermost trap at another point, in the same callback.
LEMMA SameCallbackFrame ==
  ASSUME frames # <<>>, frames[1] \in Frame, NEW at, To(at),
         at \in {"timer", "sched", "pending", "body", "trigger", "end"}
  PROVE  \E f \in Frame : frames' = [frames EXCEPT ![1] = f] /\ f.cb = frames[1].cb
<1> DEFINE f == [frames[1] EXCEPT !.at = at]
<1>1. f \in Frame /\ f.cb = frames[1].cb
  BY DEF Frame
<1>2. frames' = [frames EXCEPT ![1] = f]
  BY DEF To
<1> QED BY <1>1, <1>2

\* The steps that leave the lists and the clock alone.
LEMMA QuietSteps ==
  ASSUME Inv, OnlyTimeouts,
         \/ \E at : Trap(at) /\ at \in {"timer", "pending"}
         \/ Resume \/ TrapReturn \/ Body \/ Trigger \/ Finish
         \/ SetTimeout \/ RunProgram \/ ProgramEnds
  PROVE  OnlyTimeouts' /\ Waiting' = Waiting /\ now' = now
<1>1. /\ frames # <<>> => frames[1] \in Frame /\ Head(frames) = frames[1]
      /\ \A i \in 1 .. Len(frames) : frames[i].cb \in Msgs \cup {None}
      /\ frames # <<>> => frames[1].cb \in Msgs \cup {None}
  <2>1. frames # <<>> => 1 \in 1 .. Len(frames)
    BY DEF Inv, TypeOK
  <2> QED BY <2>1, InnermostFrame DEF Inv, OnlyTimeouts
<1>2. UNCHANGED <<timers, tasks, now>> =>
        \/ frames' = frames \/ frames' = <<>>
        \/ \E f \in Frame : frames' = <<f>> \o frames /\ f.cb \in Msgs \cup {None}
        \/ frames # <<>> /\ frames' = Tail(frames)
        \/ frames # <<>> /\ \E f \in Frame : /\ frames' = [frames EXCEPT ![1] = f]
                                             /\ f.cb \in Msgs \cup {None}
  <2>1. CASE \E at : Trap(at) /\ at \in {"timer", "pending"}
    <3>1. PICK at \in {"timer", "pending"} : Trap(at)
      BY <2>1
    <3> DEFINE f == [at |-> at, user |-> InUser, cb |-> None, prev |-> NoPriority]
    <3>2. f \in Frame /\ f.cb = None
      BY <3>1 DEF Frame, InUser
    <3> QED BY <3>1, <3>2 DEF Trap
  <2>2. CASE Resume
    BY <1>1, <2>2, SameCallbackFrame DEF Resume, In
  <2>3. CASE TrapReturn
    BY <2>3 DEF TrapReturn, In
  <2>4. CASE Body
    <3>1. frames # <<>> /\ (To("end") \/ To("trigger"))
      BY <2>4 DEF Body, In
    <3> QED BY <1>1, <3>1, SameCallbackFrame
  <2>5. CASE Trigger
    BY <1>1, <2>5, SameCallbackFrame DEF Trigger, In
  <2>6. CASE Finish
    <3> DEFINE f == [frames[1] EXCEPT !.at = "pending", !.cb = None, !.prev = NoPriority]
    <3>1. frames # <<>> /\ frames' = [frames EXCEPT ![1] = f]
      BY <2>6 DEF Finish, In
    <3>2. f \in Frame /\ f.cb = None
      BY <1>1, <3>1 DEF Frame
    <3> QED BY <3>1, <3>2
  <2>7. CASE SetTimeout \/ RunProgram \/ ProgramEnds
    BY <2>7 DEF SetTimeout, RunProgram, ProgramEnds
  <2> QED BY <2>1, <2>2, <2>3, <2>4, <2>5, <2>6, <2>7
<1>3. UNCHANGED <<timers, tasks, now>>
  <2>1. CASE Body
    <3>1. frames # <<>> /\ Head(frames).at = "body"
      BY <2>1 DEF Body, In
    <3>2. Running \in Msgs
      <4>1. Running # None
        BY <1>1, <3>1 DEF Inv, FrameRules, Running, CallbackPoints
      <4> QED BY <1>1, <3>1, <4>1 DEF Running
    <3>3. Running \notin DOMAIN Adds
      <4>1. DOMAIN Adds \subseteq Adv2
        BY DEF Adds, Adv2
      <4> QED BY <3>2, <4>1, DeferredAssumption
    <3> QED BY <2>1, <3>3 DEF Body
  <2> QED BY <2>1 DEF Trap, Resume, TrapReturn, Trigger, Finish, SetTimeout, RunProgram, ProgramEnds
<1>4. \A i \in 1 .. Len(frames') : frames'[i].cb \in Msgs \cup {None}
  BY <1>1, <1>2, <1>3, FramesOnly
<1> QED BY <1>3, <1>4, WaitingSame

\* timer_handle_interrupt hands an expired timer on, or goes on to the next point.
LEMMA TimerTurnWaits ==
  ASSUME IsFiniteSet(Msgs), Cardinality(Msgs) <= TaskPool,
         Inv, Inv', SlotsInv, OnlyTimeouts, TimerTurn
  PROVE  OnlyTimeouts' /\ Waiting' = Waiting /\ now' = now
<1>1. now' = now
  BY DEF TimerTurn
<1>2. CASE ~Expired
  <2>1. UNCHANGED <<timers, tasks, now>> /\ frames # <<>>
        /\ To(IF Head(frames).user THEN "sched" ELSE "pending")
    BY <1>2 DEF TimerTurn, In
  <2>2. /\ frames[1] \in Frame /\ Head(frames) = frames[1]
        /\ frames[1].cb \in Msgs \cup {None}
    <3>1. 1 \in 1 .. Len(frames)
      BY <2>1 DEF Inv, TypeOK
    <3> QED BY <2>1, <3>1, InnermostFrame DEF Inv, OnlyTimeouts
  <2>3. \E f \in Frame : frames' = [frames EXCEPT ![1] = f] /\ f.cb \in Msgs \cup {None}
    BY <2>1, <2>2, SameCallbackFrame
  <2>4. \A i \in 1 .. Len(frames') : frames'[i].cb \in Msgs \cup {None}
    BY <2>1, <2>3, FramesOnly DEF OnlyTimeouts
  <2> QED BY <1>1, <2>1, <2>4, WaitingSame
<1>3. CASE Expired
  <2>1. timers' = Tail(timers) /\ DeliverTimer(Head(timers)) /\ frames' = frames
    BY <1>3 DEF TimerTurn
  <2> QED BY <1>1, <1>3, <2>1, DeliverWaits
<1> QED BY <1>2, <1>3

\* setTimeout gives its slot back, or the timeout is accepted.
LEMMA AddTimeoutWaits ==
  ASSUME Inv, Inv', SlotsInv, OnlyTimeouts, AddTimeout
  PROVE  OnlyTimeouts' /\ (Promised!Accept \/ (Waiting' = Waiting /\ now' = now))
<1>1. UNCHANGED <<now, tasks, frames>> /\ shell.at = "add"
  BY DEF AddTimeout, ShellAt
<1>2. CASE shell.delay < 0 \/ Len(timers) = TimerPool
  <2>1. timers' = timers
    BY <1>2 DEF AddTimeout
  <2> QED BY <1>1, <2>1, WaitingSame DEF OnlyTimeouts
<1>3. CASE ~(shell.delay < 0 \/ Len(timers) = TimerPool)
  <2>1. shell.msg \in Msgs /\ shell.delay \in Nat
    <3>1. shell.msg \in Msgs /\ shell.delay \in Int
      BY <1>1, DeferredAssumption DEF Inv, TypeOK, Shell
    <3> QED BY <1>3, <3>1
  <2>2. ~Holds(tasks, shell.msg) /\ ~Holds(timers, shell.msg)
    BY <1>1, <2>1 DEF SlotsInv, Tracked, InShell
  <2>3. AddTimer(shell.msg, shell.delay)
    BY <1>3 DEF AddTimeout
  <2> QED BY <1>1, <2>1, <2>2, <2>3, AddWaits
<1> QED BY <1>2, <1>3

\* Every step is one of the abstract specification, or none for it.
LEMMA StepWaits ==
  ASSUME ~TaskTests, IsFiniteSet(Msgs), Cardinality(Msgs) <= TaskPool,
         Inv, Inv', SlotsInv, OnlyTimeouts, [Next]_vars
  PROVE  OnlyTimeouts' /\ [Promised!Next]_(Promised!vars)
<1>1. CASE UNCHANGED vars
  BY <1>1 DEF vars, OnlyTimeouts, Waiting, Promised!vars
<1>2. CASE Advance
  <2>1. UNCHANGED <<timers, tasks, frames>> /\ now' = now + 1
    BY <1>2 DEF Advance
  <2>2. Waiting' = Waiting
    BY <2>1 DEF Waiting
  <2>3. OnlyTimeouts'
    <3>1. ASSUME NEW i \in 1 .. Len(tasks) PROVE tasks[i].due <= now + 1
      <4>1. tasks[i] \in TaskEvent /\ now \in Nat
        BY DEF Inv, TypeOK
      <4>2. tasks[i].due \in Nat /\ tasks[i].due <= now
        BY <4>1 DEF TaskEvent, OnlyTimeouts
      <4> QED BY <4>1, <4>2
    <3> QED BY <2>1, <3>1 DEF OnlyTimeouts
  <2> QED BY <2>1, <2>2, <2>3 DEF Promised!Next, Promised!Advance
<1>3. CASE StartTask
  BY <1>3, StartWaits DEF Promised!Next
<1>4. CASE TimerTurn
  BY <1>4, TimerTurnWaits DEF Promised!vars
<1>5. CASE AddTimeout
  BY <1>5, AddTimeoutWaits DEF Promised!vars, Promised!Next
<1>6. CASE \/ \E at : Trap(at) /\ at \in {"timer", "pending"}
           \/ Resume \/ TrapReturn \/ Body \/ Trigger \/ Finish
           \/ SetTimeout \/ RunProgram \/ ProgramEnds
  BY <1>6, QuietSteps DEF Promised!vars
<1> QED BY <1>1, <1>2, <1>3, <1>4, <1>5, <1>6
        DEF Next, Interrupt, OtherTrap, TrapStep, Callback, ShellStep, TaskTest

\* setTimeout implements its promise: without the command tasktest, and with a task
\* for every message slot, the callbacks of the accepted timeouts start once each, not
\* early, in the order in which they fall due and then in that of the commands, for
\* any ticks, delays and nesting of interrupts.
THEOREM TimeoutsAlwaysInOrder ==
  ASSUME ~TaskTests, IsFiniteSet(Msgs), Cardinality(Msgs) <= TaskPool
  PROVE  Spec => PrintsInOrder
<1>1. Init => OnlyTimeouts /\ Promised!Init
  <2> SUFFICES ASSUME Init PROVE OnlyTimeouts /\ Promised!Init
    OBVIOUS
  <2>1. timers = <<>> /\ tasks = <<>> /\ frames = <<>> /\ now = 0
    BY DEF Init
  <2>2. OnlyTimeouts
    BY <2>1 DEF OnlyTimeouts
  <2>3. Waiting = <<>>
    <3>1. WaitingIs
      BY <2>2, InitInv, WaitingAt DEF Inv
    <3> QED BY <2>1, <3>1 DEF WaitingIs
  <2> QED BY <2>1, <2>2, <2>3 DEF Promised!Init
<1>2. Inv /\ Inv' /\ SlotsInv /\ OnlyTimeouts /\ [Next]_vars
      => OnlyTimeouts' /\ [Promised!Next]_(Promised!vars)
  BY StepWaits
<1> QED BY <1>1, <1>2, AllInvariant, PTL DEF Spec, PrintsInOrder, Promised!Spec
=============================================================================
