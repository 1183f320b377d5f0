----------------------------- MODULE TrapProps ------------------------------
(***************************************************************************)
(* What TrapPath must guarantee.                                           *)
(***************************************************************************)
EXTENDS TrapPath

Switching == hart.pc.at \in {"switch", "switch_load", "switch_tp"}
Exiting == hart.pc.at \in {"exit_sstatus", "exit_sscratch", "exit_regs", "exit_sret"}
Entering == InWindow \/ PcIs("rtu_sstatus")

\* The types of the registers and of the frames in memory.
TypeOK ==
  /\ hart.mode \in {"S", "U"} /\ hart.spp \in {"S", "U"}
  /\ hart.sp \in SP /\ hart.sscratch \in SP /\ hart.tp \in Tasks
  /\ hart.x \in {UserRegs(v) : v \in Values} \cup SP
  /\ hart.sie \in BOOLEAN /\ hart.spie \in BOOLEAN
  /\ kind \in [Tasks -> {"shell", "unused", "new", "user", "thread"}]
  /\ DOMAIN stack \subseteq SP
  /\ DOMAIN context \subseteq Tasks /\ DOMAIN trapframe \subseteq Tasks

\* A trap interrupted switch_to between the loads of sp and of tp.
InSwitch ==
  \E i \in 1 .. hart.sp.n :
    LET tf == stack[[hart.sp EXCEPT !.n = i]]
    IN  tf.pc.at = "switch_tp" /\ tf.pc.next = hart.sp.of /\ tf.spp = "S"

\* Kernel code, wherever it is interrupted or switched away, continues on the
\* stack of its own task, at the depth it had, with the registers it had.
KernelResumes ==
  hart.mode = "S" /\ ~Switching /\ ~Exiting /\ ~Entering =>
    /\ hart.sp.area = "k" /\ (hart.sp.of = hart.tp \/ InSwitch)
    /\ hart.x = KernelRegs(hart.sp)
    /\ PcIs("callback") => hart.pc.of = hart.sp
    /\ hart.pc.at \in {"prompt", "shwait"} => hart.sp = Sp("k", Idle)

\* While a process runs, sscratch holds the empty kernel stack of that process:
\* the stack its next trap will use.
KernelStackReady ==
  hart.mode = "U" => hart.sscratch = Sp("k", hart.tp)

\* The way out of a trap, on which sepc and sscratch already hold what sret needs,
\* is never interruptible.
ExitMasked == Exiting => ~hart.sie

\* sret enters U-mode in the program, never inside the kernel.
UserRunsUserCode == hart.mode = "U" => hart.pc \in UserCode

(***************************************************************************)
(* The registers of each process: on the hart while it runs, in its first  *)
(* trap frame while it is in the kernel or waits, in task->trapframe       *)
(* before its first entry to U-mode.                                       *)
(***************************************************************************)
View(c) == [x |-> c.x, sp |-> c.sp, pc |-> c.pc]

UserContext(t) ==
  IF hart.mode = "U" /\ hart.tp = t THEN View(hart)
  ELSE IF kind[t] = "new" THEN View(trapframe[t])
  ELSE View(stack[Push(Sp("k", t))])

Procs == {t \in Tasks : kind[t] \in {"new", "user"}}
Ctx == [t \in Procs |-> UserContext(t)]
Run == IF hart.mode = "U" THEN hart.tp ELSE Idle

C == INSTANCE Contexts WITH
  Processes <- Tasks \ {Idle}, Kernel <- Idle, Zero <- UserRegs(0),
  Values <- {UserRegs(v) : v \in Values}, ctx <- Ctx, run <- Run

\* Traps, interrupts and switches are invisible to processes: the registers of a
\* process change only by its own instructions and by its own exec.
RegistersKept == C!Spec
=============================================================================
