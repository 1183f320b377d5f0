------------------------------ MODULE Deferred ------------------------------
(***************************************************************************)
(* Deferred work on the hart: the software timers of timer.c over the one  *)
(* hardware comparator, the priority queue of task.c whose callbacks run   *)
(* on the way out of a trap with interrupts enabled and so nest, and the   *)
(* shell's setTimeout and tasktest commands that feed them.                *)
(*                                                                         *)
(* `frames` is the stack of traps in progress, the innermost first.  Code  *)
(* between two points where an interrupt can be taken is one action.  The  *)
(* hart takes a pending timer interrupt before the next instruction that   *)
(* runs with interrupts enabled.                                           *)
(***************************************************************************)
EXTENDS Integers, Sequences

CONSTANTS
  Msgs,       \* timeout_msgs[], the message slots of setTimeout
  TimerPool,  \* TIMER_POOL_SIZE
  TaskPool,   \* TASK_POOL_SIZE
  Tick,       \* sched_tick_interval
  Delays,     \* the delays users ask for; negative ones stand for a number that wrapped
  TaskTests,  \* whether the shell is given the command tasktest
  Programs,   \* whether the shell is given commands that run user processes
  Horizon     \* bound on the clock

None == "none"
Adv2 == {"start", "p1", "p2", "p3", "p4"}   \* the callbacks of task_queue_adv2_test

ASSUME DeferredAssumption ==
  /\ TimerPool \in Nat \ {0} /\ TaskPool \in Nat \ {0} /\ Tick \in Nat \ {0}
  /\ Delays \subseteq Int /\ Horizon \in Nat
  /\ TaskTests \in BOOLEAN /\ Programs \in BOOLEAN
  /\ Msgs \cap (Adv2 \cup {None}) = {}

VARIABLES
  now,       \* the time CSR
  nextTick,  \* sched_next_tick
  hw,        \* the comparator: the timer interrupt is pending once now has reached it
  timers,    \* the list at timer_head
  tasks,     \* the list at task_head
  prio,      \* task_current_priority
  used,      \* the message slots with used = 1
  sie,       \* sstatus.SIE
  shell,     \* what the shell does
  frames     \* the traps in progress

vars == <<now, nextTick, hw, timers, tasks, prio, used, sie, shell, frames>>

NoPriority == -1        \* -2147483647 in the code, below every priority
Callbacks == Msgs \cup Adv2

\* The tasks that the callbacks of task_queue_adv2_test add.
Adds == [start |-> "p4", p4 |-> "p2", p2 |-> "p3", p3 |-> "p1"]
Priority == [p1 |-> 40, p2 |-> 30, p3 |-> 20, p4 |-> 10]

\* `due` of a task is the expiry of the timer it comes from; the code drops it.
TimerEvent == [at : Nat, cb : Callbacks]
TaskEvent == [prio : Nat, cb : Callbacks, due : Nat]
Frame ==
  [at : {"timer", "sched", "pending", "body", "trigger", "end"}, user : BOOLEAN,
   cb : Callbacks \cup {None}, prev : Nat \cup {NoPriority}]
Shell ==
  [at : {"prompt", "user"}] \cup [at : {"add"}, msg : Msgs, delay : Delays]

Init ==
  /\ now = 0 /\ nextTick = Tick /\ hw = Tick
  /\ timers = <<>> /\ tasks = <<>> /\ prio = NoPriority /\ used = {}
  /\ sie = TRUE /\ shell = [at |-> "prompt"] /\ frames = <<>>

(***************************************************************************)
(* The two sorted lists.                                                   *)
(***************************************************************************)
\* e goes behind the entries of q that `stays` keeps in front, a prefix of q.
InsertAfter(q, e, stays) ==
  [i \in 1 .. Len(q) + 1 |->
     IF i \in stays THEN q[i]
     ELSE IF i = 1 \/ i - 1 \in stays THEN e
     ELSE q[i - 1]]

\* Mutant: an event goes in front of those that expire with it.
MutInsertTimer(q, e) == InsertAfter(q, e, {i \in 1 .. Len(q) : q[i].at < e.at})

InsertTimer(q, e) == InsertAfter(q, e, {i \in 1 .. Len(q) : q[i].at <= e.at})

InsertTask(q, e) == InsertAfter(q, e, {i \in 1 .. Len(q) : q[i].prio >= e.prio})

\* What timer_program_next_locked writes to the comparator.
Earliest(q, tick) == IF q # <<>> /\ Head(q).at < tick THEN Head(q).at ELSE tick

\* Mutant: the comparator is programmed only when the list was empty.
MutArm(q, e) == IF timers = <<>> THEN Earliest(q, nextTick) ELSE hw

\* The comparator after add_timer: written only for a new first event.
Arm(q, e) ==
  IF timers = <<>> \/ e.at < Head(timers).at THEN Earliest(q, nextTick) ELSE hw

AddTimer(cb, delay) ==
  LET e == [at |-> now + delay, cb |-> cb]
  IN  /\ timers' = InsertTimer(timers, e)
      /\ hw' = Arm(timers', e)

\* Mutant: the pool is not checked.
MutAddTask(q, e) == InsertTask(q, e)

\* add_task, which fails when no node is free.
AddTask(q, e) == IF Len(q) < TaskPool THEN InsertTask(q, e) ELSE q

(***************************************************************************)
(* Traps.                                                                  *)
(***************************************************************************)
InUser == shell.at = "user" /\ frames = <<>>
Interruptible == sie \/ InUser
TimerPending == hw <= now

\* No interrupt is due before the next instruction.
Quiet == ~(Interruptible /\ TimerPending)

Trap(at) ==
  /\ Interruptible
  /\ frames' = <<[at |-> at, user |-> InUser, cb |-> None, prev |-> NoPriority]>> \o frames
  /\ sie' = FALSE
  /\ UNCHANGED <<now, nextTick, hw, timers, tasks, prio, used, shell>>

Interrupt == TimerPending /\ Trap("timer")

\* External interrupts, and system calls that neither schedule nor end the process.
OtherTrap == Trap("pending")

In(at) == frames # <<>> /\ Head(frames).at = at
To(at) == frames' = [frames EXCEPT ![1].at = at]

\* Mutant: the tick that has passed is armed again.
MutTickAfter(time) == nextTick

\* The ticks that have passed are skipped.
TickAfter(time) ==
  IF nextTick > time THEN nextTick
  ELSE nextTick + Tick * ((time - nextTick) \div Tick + 1)

\* Mutant: the message is not released when its callback ran directly.
MutDeliverTimer(e) ==
  /\ tasks' = AddTask(tasks, [prio |-> 1, cb |-> e.cb, due |-> e.at])
  /\ UNCHANGED used

\* The callback of an expired event becomes a task of priority 1; if the pool is
\* exhausted it runs at once (add_task fails for adv2_test_start, too).
DeliverTimer(e) ==
  /\ tasks' = AddTask(tasks, [prio |-> 1, cb |-> e.cb, due |-> e.at])
  /\ used' = IF Len(tasks) < TaskPool THEN used ELSE used \ {e.cb}

Expired == timers # <<>> /\ Head(timers).at <= now

\* One turn of the loop of timer_handle_interrupt.
TimerTurn ==
  /\ In("timer")
  /\ nextTick' = TickAfter(now)
  /\ \/ /\ ~Expired
        /\ hw' = Earliest(timers, nextTick')
        /\ To(IF Head(frames).user THEN "sched" ELSE "pending")
        /\ UNCHANGED <<timers, tasks, used>>
     \/ /\ Expired
        /\ timers' = Tail(timers)
        /\ DeliverTimer(Head(timers))
        /\ UNCHANGED <<hw, frames>>
  /\ UNCHANGED <<now, prio, sie, shell>>

\* schedule() in a trap from U-mode has come back to this process.
Resume ==
  /\ In("sched") /\ To("pending")
  /\ UNCHANGED <<now, nextTick, hw, timers, tasks, prio, used, sie, shell>>

\* Mutant: a task of lower priority may start, too.
MutStartsNow == tasks # <<>>

\* run_pending_task takes the first task unless it is below the running one.
StartsNow == tasks # <<>> /\ Head(tasks).prio >= prio

StartTask ==
  /\ In("pending") /\ StartsNow
  /\ tasks' = Tail(tasks)
  /\ prio' = Head(tasks).prio
  /\ frames' = [frames EXCEPT ![1] =
                  [@ EXCEPT !.at = "body", !.cb = Head(tasks).cb, !.prev = prio]]
  /\ sie' = TRUE
  /\ UNCHANGED <<now, nextTick, hw, timers, used, shell>>

\* Nothing to start: sret.
TrapReturn ==
  /\ In("pending") /\ ~StartsNow
  /\ frames' = Tail(frames)
  /\ sie' = ~Head(frames).user
  /\ UNCHANGED <<now, nextTick, hw, timers, tasks, prio, used, shell>>

(***************************************************************************)
(* Callbacks.                                                              *)
(***************************************************************************)
Running == Head(frames).cb

Body ==
  /\ In("body") /\ Quiet
  /\ \/ /\ Running \in Msgs \cup {"p1"}
        /\ used' = used \ {Running}
        /\ To("end")
        /\ UNCHANGED tasks
     \/ /\ Running \in DOMAIN Adds
        /\ LET new == Adds[Running]
           IN  tasks' = AddTask(tasks, [prio |-> Priority[new], cb |-> new, due |-> now])
        /\ To(IF Running = "start" THEN "end" ELSE "trigger")
        /\ UNCHANGED used
  /\ UNCHANGED <<now, nextTick, hw, timers, prio, sie, shell>>

\* Mutant: the comparator is left alone.
MutTriggered == hw

\* timer_trigger_now.
Triggered == now

Trigger ==
  /\ In("trigger") /\ Quiet
  /\ hw' = Triggered
  /\ To("end")
  /\ UNCHANGED <<now, nextTick, timers, tasks, prio, used, sie, shell>>

Finish ==
  /\ In("end") /\ Quiet
  /\ prio' = Head(frames).prev
  /\ frames' = [frames EXCEPT ![1] =
                  [@ EXCEPT !.at = "pending", !.cb = None, !.prev = NoPriority]]
  /\ sie' = FALSE
  /\ UNCHANGED <<now, nextTick, hw, timers, tasks, used, shell>>

(***************************************************************************)
(* The shell and the user processes it runs.                               *)
(***************************************************************************)
ShellAt(p) == frames = <<>> /\ shell.at = p /\ Quiet

\* setTimeout takes a message slot ...
SetTimeout ==
  /\ ShellAt("prompt")
  /\ \E m \in Msgs \ used, d \in Delays :
       /\ now + d <= Horizon
       /\ used' = used \cup {m}
       /\ shell' = [at |-> "add", msg |-> m, delay |-> d]
  /\ UNCHANGED <<now, nextTick, hw, timers, tasks, prio, sie, frames>>

\* ... and then a timer, or gives the slot back.
AddTimeout ==
  /\ ShellAt("add")
  /\ IF shell.delay < 0 \/ Len(timers) = TimerPool
     THEN used' = used \ {shell.msg} /\ UNCHANGED <<timers, hw>>
     ELSE AddTimer(shell.msg, shell.delay) /\ UNCHANGED used
  /\ shell' = [at |-> "prompt"]
  /\ UNCHANGED <<now, nextTick, tasks, prio, sie, frames>>

TaskTest ==
  /\ TaskTests /\ ShellAt("prompt") /\ Len(timers) < TimerPool
  /\ AddTimer("start", 0)
  /\ UNCHANGED <<now, nextTick, tasks, prio, used, sie, shell, frames>>

RunProgram ==
  /\ Programs /\ ShellAt("prompt")
  /\ shell' = [at |-> "user"]
  /\ sie' = FALSE
  /\ UNCHANGED <<now, nextTick, hw, timers, tasks, prio, used, frames>>

\* The process ends in a trap, by exit or, while schedule() has taken the hart
\* from it, by stop or a signal; switch_to leaves SIE as the trap set it.
ProgramEnds ==
  /\ shell.at = "user"
  /\ frames = <<>> \/ In("sched")
  /\ frames' = <<>>
  /\ shell' = [at |-> "prompt"]
  /\ sie' = FALSE
  /\ UNCHANGED <<now, nextTick, hw, timers, tasks, prio, used>>

\* Time stops at the bound, and early enough for a command under way to fit in.
Advance ==
  /\ now < Horizon
  /\ shell.at = "add" => now + shell.delay < Horizon
  /\ now' = now + 1
  /\ UNCHANGED <<nextTick, hw, timers, tasks, prio, used, sie, shell, frames>>

(***************************************************************************)
(* The specification.                                                      *)
(***************************************************************************)
Callback == Body \/ Trigger \/ Finish
TrapStep == TimerTurn \/ Resume \/ StartTask \/ TrapReturn
ShellStep == SetTimeout \/ AddTimeout \/ TaskTest \/ RunProgram \/ ProgramEnds

Next == Interrupt \/ OtherTrap \/ TrapStep \/ Callback \/ ShellStep \/ Advance

Spec == Init /\ [][Next]_vars

\* Time passes, trap code runs on, and a pending timer interrupt, an interrupted
\* callback or an interrupted command is not put off for ever by other interrupts.
FairSpec ==
  /\ Spec
  /\ WF_vars(Advance) /\ WF_vars(TrapStep)
  /\ SF_vars(Interrupt) /\ SF_vars(Callback) /\ SF_vars(AddTimeout)
=============================================================================
