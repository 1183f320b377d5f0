------------------------------ MODULE TrapPath ------------------------------
(***************************************************************************)
(* The path between tasks at the level of registers: handle_exception and  *)
(* switch_to of start.S, return_to_user of trap_entry.S, and the C code    *)
(* that prepares what they load: trap frames, kernel stacks, contexts.     *)
(*                                                                         *)
(* `hart` is the hart; `pc` names a place in the code.  Instructions that  *)
(* no interrupt can tell apart are one action; wherever the code may run   *)
(* with sstatus.SIE set, an interrupt can come between two actions.  The   *)
(* registers other than sp, tp and t0 are one value x; t0 is left out,     *)
(* because handle_exception overwrites it before it is saved.  Which task  *)
(* runs next is any that is alive: the choice is the business of Proc.     *)
(***************************************************************************)
EXTENDS Integers

CONSTANTS
  LastTask,    \* MAX_THREADS - 1
  Values,      \* what user programs keep in their registers
  Depth,       \* bound on the traps that nest on one stack
  QuietWindow  \* whether no interrupt arrives while return_to_user runs

ASSUME TrapAssumption ==
  LastTask \in Nat /\ 0 \in Values /\ Depth \in Nat \ {0} /\ QuietWindow \in BOOLEAN

VARIABLES
  hart,       \* the registers of the hart
  stack,      \* the trap frames in memory, by the sp that points to them
  context,    \* task->context, the cpu_context of switch_to
  trapframe,  \* task->trapframe, for the first entry to U-mode
  kind        \* what the slots of tasks[] hold

vars == <<hart, stack, context, trapframe, kind>>

Tasks == 0 .. LastTask
Idle == 0

\* A stack pointer: the kernel or the user stack of a task, n trap frames deep.
SP == [area : {"k", "u"}, of : Tasks, n : 0 .. Depth]
Sp(area, t) == [area |-> area, of |-> t, n |-> 0]
Push(sp) == [sp EXCEPT !.n = @ + 1]
Pop(sp) == [sp EXCEPT !.n = @ - 1]

At(p) == [at |-> p]
UserCode == {At("entry"), At("body")}

\* The registers of kernel code that runs on a stack at some depth.
KernelRegs(sp) == sp

\* The registers of a user program.
UserRegs(v) == [value |-> v]

Init ==
  /\ hart = [mode |-> "S", pc |-> At("prompt"), sp |-> Sp("k", Idle), tp |-> Idle,
             x |-> KernelRegs(Sp("k", Idle)), sie |-> TRUE, spp |-> "S", spie |-> TRUE,
             sepc |-> At("prompt"), sscratch |-> Sp("k", Idle)]
  /\ kind = [t \in Tasks |-> IF t = Idle THEN "shell" ELSE "unused"]
  /\ stack = [p \in {} |-> 0]
  /\ context = [t \in {} |-> 0]
  /\ trapframe = [t \in {} |-> 0]

Put(f, k, v) == [i \in DOMAIN f \cup {k} |-> IF i = k THEN v ELSE f[i]]

\* Memory that the code never reads again is forgotten.
Forget(f, K) == [i \in DOMAIN f \ K |-> f[i]]
FramesOf(t) == {p \in DOMAIN stack : p.of = t}

Alive(t) == kind[t] # "unused"

\* Kernel code is at p.
PcIs(p) == hart.mode = "S" /\ hart.pc.at = p
GoTo(pc) == hart' = [hart EXCEPT !.pc = pc]
OnlyHart == UNCHANGED <<stack, context, trapframe, kind>>

(***************************************************************************)
(* Trap entry: the hardware, then handle_exception up to the call of       *)
(* do_trap.                                                                *)
(***************************************************************************)
\* Mutant: the stacks are exchanged whatever the mode was.
MutEntrySp == hart.sscratch

EntrySp == IF hart.mode = "U" THEN hart.sscratch ELSE hart.sp

\* The trap frame: sstatus is read after the hardware has changed it.
Saved ==
  [x |-> hart.x, sp |-> hart.sp, tp |-> hart.tp, pc |-> hart.pc,
   sie |-> FALSE, spp |-> hart.mode, spie |-> hart.sie]

Trap(cause) ==
  LET top == Push(EntrySp)
  IN  /\ hart.mode = "S" => hart.sp.n < Depth
      /\ stack' = Put(stack, top, Saved)
      /\ hart' = [hart EXCEPT
                    !.mode = "S", !.pc = At(cause), !.sp = top, !.x = KernelRegs(top),
                    !.sie = FALSE, !.spp = hart.mode, !.spie = hart.sie, !.sepc = hart.pc,
                    !.sscratch = IF hart.mode = "U" THEN hart.sp ELSE @]
      /\ UNCHANGED <<context, trapframe, kind>>

InWindow == hart.pc.at \in {"rtu_sepc", "rtu_regs", "rtu_sp", "rtu_sret"}

Interrupt ==
  /\ hart.mode = "U" \/ hart.sie
  /\ QuietWindow => ~InWindow
  /\ Trap("timer") \/ Trap("external")

\* An exception that do_trap does not handle.
Fault == hart.mode = "U" /\ Trap("fault")

Ecall == hart.mode = "U" /\ hart.pc = At("body") /\ Trap("ecall")

(***************************************************************************)
(* schedule and switch_to.                                                 *)
(***************************************************************************)
Switch(next, ret) == [at |-> "switch", next |-> next, ret |-> ret]

\* schedule() called by the task in tp, which continues at ret.
Schedule(ret) ==
  IF \E t \in Tasks \ {hart.tp} : Alive(t)
  THEN \E t \in Tasks \ {hart.tp} : Alive(t) /\ GoTo(Switch(t, ret))
  ELSE GoTo(ret)

SwitchSave ==
  /\ PcIs("switch")
  /\ context' = IF Alive(hart.tp)
                THEN Put(context, hart.tp,
                         [ra |-> hart.pc.ret, sp |-> hart.sp, x |-> hart.x])
                ELSE context
  /\ GoTo([at |-> "switch_load", next |-> hart.pc.next])
  /\ UNCHANGED <<stack, trapframe, kind>>

SwitchLoad ==
  /\ PcIs("switch_load")
  /\ LET next == context[hart.pc.next]
     IN  hart' = [hart EXCEPT !.sp = next.sp, !.x = next.x,
                    !.pc = [at |-> "switch_tp", next |-> hart.pc.next, ret |-> next.ra]]
  /\ context' = Forget(context, {hart.pc.next})
  /\ UNCHANGED <<stack, trapframe, kind>>

SwitchTp ==
  /\ PcIs("switch_tp")
  /\ hart' = [hart EXCEPT !.tp = hart.pc.next, !.pc = hart.pc.ret]
  /\ OnlyHart

\* thread_exit: the slot is free for others once the switch is over.
ThreadExit ==
  /\ \E t \in Tasks \ {hart.tp} : Alive(t) /\ GoTo(Switch(t, At("dead")))
  /\ kind' = [kind EXCEPT ![hart.tp] = "unused"]
  /\ stack' = Forget(stack, FramesOf(hart.tp))
  /\ UNCHANGED <<context, trapframe>>

(***************************************************************************)
(* New tasks.                                                              *)
(***************************************************************************)
\* context.sp, and user_process_create's kernel_sp: the top of the kernel stack.
NewContext(t) == [ra |-> At("trampoline"), sp |-> Sp("k", t), x |-> KernelRegs(Sp("k", t))]

\* setup_user_trapframe: sstatus is the current one, with SPP and SPIE changed.
FreshFrame(t) ==
  [x |-> UserRegs(0), sp |-> Sp("u", t), tp |-> t, pc |-> At("entry"),
   sie |-> hart.sie, spp |-> "U", spie |-> TRUE]

\* Mutant: the child keeps the tp of its parent.
MutForkFrame(tf, child) == [tf EXCEPT !.sp.of = child]

\* The child's copy of the frame of its parent, whose sp is in the user stack.
ForkFrame(tf, child) == [tf EXCEPT !.tp = child, !.sp.of = child]

NewProcess(t, tf) ==
  /\ ~Alive(t)
  /\ kind' = [kind EXCEPT ![t] = "new"]
  /\ context' = Put(context, t, NewContext(t))
  /\ trapframe' = Put(trapframe, t, tf)
  /\ UNCHANGED stack

(***************************************************************************)
(* The first steps of a task: thread_trampoline, and for a process         *)
(* user_process_entry and return_to_user.                                  *)
(***************************************************************************)
TrampolineThread ==
  /\ PcIs("trampoline") /\ kind[hart.tp] = "thread"
  /\ GoTo(At("thread"))
  /\ OnlyHart

\* Mutant: kernel_sp is left at its initial value.
MutKernelSp == Sp("k", Idle)

\* current->kernel_sp.
KernelSp == Sp("k", hart.tp)

UserProcessEntry ==
  /\ PcIs("trampoline") /\ kind[hart.tp] = "new"
  /\ hart' = [hart EXCEPT !.sscratch = KernelSp, !.pc = At("rtu_sstatus")]
  /\ OnlyHart

Frame == trapframe[hart.tp]

ReturnToUserSstatus ==
  /\ PcIs("rtu_sstatus")
  /\ hart' = [hart EXCEPT !.sie = Frame.sie, !.spp = Frame.spp, !.spie = Frame.spie,
                          !.pc = At("rtu_sepc")]
  /\ OnlyHart

ReturnToUserSepc ==
  /\ PcIs("rtu_sepc")
  /\ hart' = [hart EXCEPT !.sepc = Frame.pc, !.pc = At("rtu_regs")]
  /\ OnlyHart

\* tp and the general registers but t6, through which the frame is read.
ReturnToUserRegs ==
  /\ PcIs("rtu_regs")
  /\ hart' = [hart EXCEPT !.tp = Frame.tp, !.x = Frame.x, !.pc = At("rtu_sp")]
  /\ OnlyHart

ReturnToUserSp ==
  /\ PcIs("rtu_sp")
  /\ hart' = [hart EXCEPT !.sp = Frame.sp, !.pc = At("rtu_sret")]
  /\ OnlyHart

\* What sret makes of the hart.
Sret(h) ==
  [h EXCEPT !.mode = h.spp, !.sie = h.spie, !.spie = TRUE, !.spp = "U", !.pc = h.sepc]

ReturnToUserSret ==
  /\ PcIs("rtu_sret")
  /\ hart' = Sret(hart)
  /\ kind' = [kind EXCEPT ![hart.tp] = "user"]
  /\ trapframe' = Forget(trapframe, {hart.tp})
  /\ UNCHANGED <<stack, context>>

(***************************************************************************)
(* do_trap.                                                                *)
(***************************************************************************)
Tf == stack[hart.sp]
FromUser == Tf.spp = "U"
Pending == At("pending")

\* A thread is switched only if the timer interrupted U-mode.
Timer ==
  /\ PcIs("timer")
  /\ IF FromUser THEN Schedule(Pending) ELSE GoTo(Pending)
  /\ OnlyHart

External == PcIs("external") /\ GoTo(Pending) /\ OnlyHart

\* fork, exec, exit, stop of another task; uart_read and usleep; other calls.
SysFork ==
  /\ PcIs("ecall")
  /\ \E c \in Tasks : NewProcess(c, ForkFrame(Tf, c))
  /\ GoTo(Pending)

SysExec ==
  /\ PcIs("ecall")
  /\ stack' = Put(stack, hart.sp, FreshFrame(hart.tp))
  /\ GoTo(Pending)
  /\ UNCHANGED <<context, trapframe, kind>>

SysExit == PcIs("ecall") /\ ThreadExit

SysStop ==
  /\ PcIs("ecall")
  /\ \E t \in Tasks \ {Idle, hart.tp} :
       /\ Alive(t)
       /\ kind' = [kind EXCEPT ![t] = "unused"]
       /\ stack' = Forget(stack, FramesOf(t))
       /\ context' = Forget(context, {t})
       /\ trapframe' = Forget(trapframe, {t})
  /\ GoTo(Pending)

SysOther == PcIs("ecall") /\ (GoTo(Pending) \/ GoTo(At("poll"))) /\ OnlyHart

Poll == PcIs("poll") /\ (Schedule(At("poll")) \/ GoTo(Pending)) /\ OnlyHart

\* do_trap stops in a wfi loop.
Stopped == PcIs("fault") /\ UNCHANGED vars

(***************************************************************************)
(* run_pending_task: callbacks run with interrupts enabled.                *)
(***************************************************************************)
RunCallback ==
  /\ PcIs("pending")
  /\ hart' = [hart EXCEPT !.sie = TRUE, !.pc = [at |-> "callback", of |-> hart.sp]]
  /\ OnlyHart

\* Mutant: interrupts stay enabled after the callback.
MutCallbackEnds ==
  /\ PcIs("callback")
  /\ GoTo(Pending)
  /\ OnlyHart

CallbackEnds ==
  /\ PcIs("callback")
  /\ hart' = [hart EXCEPT !.sie = FALSE, !.pc = Pending]
  /\ OnlyHart

(***************************************************************************)
(* The end of handle_exception.                                            *)
(***************************************************************************)
ExitSepc ==
  /\ PcIs("pending")
  /\ hart' = [hart EXCEPT !.sepc = Tf.pc, !.pc = At("exit_sstatus")]
  /\ OnlyHart

ExitSstatus ==
  /\ PcIs("exit_sstatus")
  /\ hart' = [hart EXCEPT !.sie = Tf.sie, !.spp = Tf.spp, !.spie = Tf.spie,
                          !.pc = At("exit_sscratch")]
  /\ OnlyHart

\* Mutant: on the way to U-mode, sscratch is trusted to hold the user's sp still.
MutExitSscratch ==
  /\ PcIs("exit_sscratch")
  /\ hart' = [hart EXCEPT !.sscratch = IF FromUser THEN @ ELSE Tf.sp,
                          !.pc = At("exit_regs")]
  /\ OnlyHart

ExitSscratch ==
  /\ PcIs("exit_sscratch")
  /\ hart' = [hart EXCEPT !.sscratch = Tf.sp, !.pc = At("exit_regs")]
  /\ OnlyHart

ExitRegs ==
  /\ PcIs("exit_regs")
  /\ hart' = [hart EXCEPT !.tp = Tf.tp, !.x = Tf.x, !.pc = At("exit_sret")]
  /\ OnlyHart

\* Mutant: the frame is not released.
MutExitSret ==
  /\ PcIs("exit_sret")
  /\ hart' = Sret([hart EXCEPT !.sp = hart.sscratch, !.sscratch = hart.sp])
  /\ stack' = Forget(stack, {hart.sp})
  /\ UNCHANGED <<context, trapframe, kind>>

\* addi sp; csrrw sp, sscratch, sp; sret.
ExitSret ==
  /\ PcIs("exit_sret")
  /\ hart' = Sret([hart EXCEPT !.sp = hart.sscratch, !.sscratch = Pop(hart.sp)])
  /\ stack' = Forget(stack, {hart.sp})
  /\ UNCHANGED <<context, trapframe, kind>>

(***************************************************************************)
(* Kernel threads, the shell, and user programs.                           *)
(***************************************************************************)
Thread == PcIs("thread") /\ (ThreadExit \/ (Schedule(At("thread")) /\ OnlyHart))

ShellWaits(on) == [at |-> "shwait", on |-> on]

ShellRun ==
  /\ PcIs("prompt")
  /\ \E t \in Tasks : NewProcess(t, FreshFrame(t)) /\ GoTo(ShellWaits({t}))

ShellThreads ==
  /\ PcIs("prompt")
  /\ LET new == {t \in Tasks : ~Alive(t)}
     IN  /\ kind' = [t \in Tasks |-> IF t \in new THEN "thread" ELSE kind[t]]
         /\ context' = [t \in DOMAIN context \cup new |->
                          IF t \in new THEN NewContext(t) ELSE context[t]]
         /\ GoTo(ShellWaits(new))
  /\ UNCHANGED <<stack, trapframe>>

ShellWait ==
  /\ PcIs("shwait")
  /\ IF \E t \in hart.pc.on : Alive(t) THEN Schedule(hart.pc) ELSE GoTo(At("prompt"))
  /\ OnlyHart

Compute ==
  /\ hart.mode = "U" /\ hart.pc \in UserCode
  /\ \E v \in Values : hart' = [hart EXCEPT !.x = UserRegs(v), !.pc = At("body")]
  /\ OnlyHart

(***************************************************************************)
(* The specification.                                                      *)
(***************************************************************************)
SwitchStep == SwitchSave \/ SwitchLoad \/ SwitchTp

FirstSteps ==
  TrampolineThread \/ UserProcessEntry \/ ReturnToUserSstatus \/ ReturnToUserSepc
    \/ ReturnToUserRegs \/ ReturnToUserSp \/ ReturnToUserSret

DoTrap ==
  Timer \/ External \/ SysFork \/ SysExec \/ SysExit \/ SysStop \/ SysOther \/ Poll
    \/ Stopped \/ RunCallback \/ CallbackEnds

ExitStep == ExitSepc \/ ExitSstatus \/ ExitSscratch \/ ExitRegs \/ ExitSret

TaskStep == Thread \/ ShellRun \/ ShellThreads \/ ShellWait \/ Compute

Next ==
  Interrupt \/ Fault \/ Ecall \/ SwitchStep \/ FirstSteps \/ DoTrap \/ ExitStep \/ TaskStep

Spec == Init /\ [][Next]_vars
=============================================================================
