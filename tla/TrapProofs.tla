----------------------------- MODULE TrapProofs -----------------------------
(***************************************************************************)
(* Proofs about TrapPath, for any number of tasks and any depth of nested  *)
(* traps, as long as no interrupt hits return_to_user (QuietWindow).       *)
(*                                                                         *)
(* The properties are not inductive: they need to be told what is kept for *)
(* the tasks that are switched away and for the code that traps have       *)
(* interrupted.  Inv says it for each of the four kinds of place where the *)
(* hart can be.                                                            *)
(***************************************************************************)
EXTENDS TrapProps, TLAPS

(***************************************************************************)
(* The inductive invariant.                                                *)
(***************************************************************************)
Level(t, n) == [area |-> "k", of |-> t, n |-> n]
UserX == {UserRegs(v) : v \in Values}

FrameFields == {"x", "sp", "tp", "pc", "sie", "spp", "spie"}
Fields == {"mode", "pc", "sp", "tp", "x", "sie", "spp", "spie", "sepc", "sscratch"}

KernelPcs == {"prompt", "shwait", "trampoline", "thread", "rtu_sstatus",
              "switch", "switch_load", "switch_tp"}
WindowPcs == {"rtu_sepc", "rtu_regs", "rtu_sp", "rtu_sret"}
ExitPcs == {"exit_sstatus", "exit_sscratch", "exit_regs", "exit_sret"}
TrapPcs == {"timer", "external", "ecall", "fault", "poll", "pending", "callback"} \cup ExitPcs
Deep == {"pending", "poll"}

Types ==
  /\ DOMAIN hart = Fields
  /\ TypeOK
  /\ kind[Idle] = "shell" /\ \A t \in Tasks : kind[t] = "shell" => t = Idle

\* What a process left when it trapped: where it is in its program, on its stack.
UserFrame(f, t) ==
  /\ DOMAIN f = FrameFields
  /\ f.spp = "U" /\ f.sie = FALSE /\ f.spie \in BOOLEAN /\ f.tp = t
  /\ f.sp = Sp("u", t) /\ f.x \in UserX /\ f.pc \in UserCode

\* What setup_user_trapframe or fork left for the first entry of a process.
NewFrame(f, t) ==
  /\ f.spp = "U" /\ f.sie \in BOOLEAN /\ f.spie \in BOOLEAN /\ f.tp = t
  /\ f.sp = Sp("u", t) /\ f.x \in UserX /\ f.pc \in UserCode

NewFrames == \A t \in Tasks : kind[t] = "new" =>
               t \in DOMAIN trapframe /\ NewFrame(trapframe[t], t)

\* Kernel code can continue at pc on the stack at sp: outside of traps, or, in the
\* trap of a process, on the frame of that process.
Resumable(pc, sp) ==
  \/ pc.at = "shwait" /\ sp = Level(Idle, 0)
  \/ /\ pc.at \in {"trampoline", "thread"} /\ sp = Level(sp.of, 0)
     /\ kind[sp.of] \in {"new", "thread"}
  \/ /\ pc.at \in Deep /\ sp = Level(sp.of, 1) /\ kind[sp.of] = "user"
     /\ sp \in DOMAIN stack /\ UserFrame(stack[sp], sp.of)

SavedContexts == \A t \in DOMAIN context :
  /\ context[t].sp.of = t /\ context[t].x = context[t].sp
  /\ Resumable(context[t].ra, context[t].sp)

\* Kernel code that is in no trap, or that switches away in one: c is the hart or
\* the frame of an interrupt.
KernelCode(c) ==
  /\ c.pc.at \in KernelPcs
  /\ c.sp.area = "k" /\ c.x = c.sp
  /\ c.pc.at # "switch_tp" => c.sp.of = c.tp
  /\ c.pc.at \in {"prompt", "shwait"} => c.sp = Level(Idle, 0)
  /\ c.pc.at \in {"trampoline", "thread"} =>
       c.sp.n = 0 /\ kind[c.tp] \in {"new", "thread"}
  /\ c.pc.at = "rtu_sstatus" => c.sp.n = 0 /\ kind[c.tp] = "new"
  /\ c.pc.at = "switch" =>
       c.pc.next \in DOMAIN context /\ (Alive(c.tp) => Resumable(c.pc.ret, c.sp))
  /\ c.pc.at = "switch_load" =>
       c.pc.next \in DOMAIN context /\ (c.sp.n = 0 => kind[c.tp] # "user")
  /\ c.pc.at = "switch_tp" =>
       c.pc.next = c.sp.of /\ Alive(c.sp.of) /\ Resumable(c.pc.ret, c.sp)

InKernel ==
  /\ hart.mode = "S" /\ KernelCode(hart)
  /\ hart.pc.at = "rtu_sstatus" => hart.sscratch = Level(hart.tp, 0)

InReturn ==
  /\ hart.mode = "S" /\ hart.pc.at \in WindowPcs
  /\ kind[hart.tp] = "new" /\ hart.sscratch = Level(hart.tp, 0) /\ hart.spp = "U"
  /\ hart.pc.at \in {"rtu_regs", "rtu_sp", "rtu_sret"} => hart.sepc = Frame.pc
  /\ hart.pc.at \in {"rtu_sp", "rtu_sret"} => hart.x = Frame.x
  /\ hart.pc.at = "rtu_sret" => hart.sp = Frame.sp

InUser ==
  /\ hart.mode = "U" /\ hart.pc \in UserCode
  /\ kind[hart.tp] = "user"
  /\ hart.sp = Sp("u", hart.tp) /\ hart.sscratch = Level(hart.tp, 0) /\ hart.x \in UserX

\* The frames on the stack of the hart: the first is that of a process or of kernel
\* code, the others are those of callbacks.
Bottom == stack[Level(hart.sp.of, 1)]

KernelFrame(f, t) ==
  /\ f.spp = "S" /\ f.sie = FALSE /\ f.spie \in BOOLEAN
  /\ f.sp = Level(t, 0) /\ f.tp \in Tasks /\ KernelCode(f)

CallbackFrame(f, t, n) ==
  /\ f.spp = "S" /\ f.sie = FALSE /\ f.spie \in BOOLEAN
  /\ f.sp = Level(t, n) /\ f.x = f.sp /\ f.tp = Bottom.tp
  /\ f.pc.at = "callback" /\ f.pc.of = f.sp

Frames ==
  /\ \A i \in 1 .. hart.sp.n : Level(hart.sp.of, i) \in DOMAIN stack
  /\ \/ UserFrame(Bottom, hart.sp.of) /\ kind[hart.sp.of] = "user"
     \/ KernelFrame(Bottom, hart.sp.of)
  /\ \A i \in 2 .. hart.sp.n :
       CallbackFrame(stack[Level(hart.sp.of, i)], hart.sp.of, i - 1)

Leaving ==
  /\ hart.pc.at \in ExitPcs => hart.sepc = Tf.pc
  /\ hart.pc.at \in ExitPcs \ {"exit_sstatus"} => hart.spp = Tf.spp /\ hart.spie = Tf.spie
  /\ hart.pc.at \in {"exit_regs", "exit_sret"} => hart.sscratch = Tf.sp
  /\ hart.x = IF hart.pc.at = "exit_sret" THEN Tf.x ELSE hart.sp

InTrap ==
  /\ hart.mode = "S" /\ hart.pc.at \in TrapPcs
  /\ hart.sp.area = "k" /\ hart.sp.n # 0
  /\ hart.tp = Bottom.tp
  /\ Frames
  /\ hart.pc.at = "callback" => hart.pc.of = hart.sp
  /\ hart.pc.at \in {"ecall", "poll", "fault"} => hart.sp.n = 1 /\ Bottom.spp = "U"
  /\ Leaving

\* The code outside of traps that the hart executes or will return to.
Nested == hart.mode = "S" /\ hart.pc.at \in TrapPcs /\ Bottom.spp = "S"
Base == IF Nested THEN Bottom ELSE hart

Running(c) ==
  IF c.pc.at = "switch_load" THEN {}
  ELSE IF c.pc.at = "switch_tp" THEN {c.pc.next} ELSE {c.tp}

\* Who is alive and does not run can be switched to.
Others == DOMAIN context = {t \in Tasks : Alive(t)} \ Running(Base)

NoneDeep == \A t \in DOMAIN context : context[t].ra.at \notin Deep

\* Kernel code runs with interrupts enabled in callbacks; and, before any process has
\* trapped, outside of traps.
Masked ==
  /\ hart.mode = "S" /\ hart.sie /\ hart.pc.at \notin WindowPcs \cup {"callback"} =>
       hart.sp.n = 0 /\ hart.pc.at \in KernelPcs /\ NoneDeep
  /\ Nested => NoneDeep

Inv ==
  /\ Types /\ NewFrames /\ SavedContexts
  /\ InKernel \/ InReturn \/ InUser \/ InTrap
  /\ Others /\ Masked

(***************************************************************************)
(* Facts about stack pointers and memory.                                  *)
(***************************************************************************)
\* A level names one stack and one depth.
LEMMA LevelFields ==
  ASSUME NEW t, NEW n
  PROVE  /\ Level(t, n).area = "k" /\ Level(t, n).of = t /\ Level(t, n).n = n
         /\ Sp("k", t) = Level(t, 0)
BY DEF Level, Sp

\* Pushing and popping a frame move sp by one level.
LEMMA LevelMoves ==
  ASSUME NEW t, NEW n \in Nat
  PROVE  /\ Push(Level(t, n)) = Level(t, n + 1)
         /\ Pop(Level(t, n + 1)) = Level(t, n)
BY DEF Level, Push, Pop

\* Every kernel stack pointer is a level.
LEMMA KernelSps ==
  ASSUME NEW sp \in SP, sp.area = "k"
  PROVE  sp = Level(sp.of, sp.n) /\ sp.of \in Tasks /\ sp.n \in 0 .. Depth
BY DEF SP, Level

\* A level of the stack of a task is a stack pointer.
LEMMA LevelTyped ==
  ASSUME NEW t \in Tasks, NEW n \in 0 .. Depth
  PROVE  Level(t, n) \in SP
BY DEF SP, Level

\* The sp of a process is a typed one.
LEMMA UserSp ==
  ASSUME NEW t \in Tasks
  PROVE  Sp("u", t) \in SP /\ Sp("u", t).area = "u" /\ Sp("u", t).of = t /\ Sp("u", t).n = 0
BY TrapAssumption DEF SP, Sp

\* Writing to and forgetting memory.
LEMMA PutFacts ==
  ASSUME NEW f, NEW k, NEW v
  PROVE  /\ DOMAIN Put(f, k, v) = DOMAIN f \cup {k}
         /\ Put(f, k, v)[k] = v
         /\ \A i \in DOMAIN f : i # k => Put(f, k, v)[i] = f[i]
BY DEF Put

\* Forgetting memory keeps the rest.
LEMMA ForgetFacts ==
  ASSUME NEW f, NEW K
  PROVE  /\ DOMAIN Forget(f, K) = DOMAIN f \ K
         /\ \A i \in DOMAIN f \ K : Forget(f, K)[i] = f[i]
BY DEF Forget

\* The depths of the stacks start at 0 and leave room for a trap.
LEMMA Depths == Depth \in Nat /\ 0 \in 0 .. Depth /\ 1 \in 0 .. Depth /\ 0 \in Tasks
BY TrapAssumption DEF Tasks

(***************************************************************************)
(* Steps that only move the hart leave what waits in memory as it is.      *)
(***************************************************************************)
LEMMA OnlyHartKeeps ==
  ASSUME OnlyHart, NewFrames, SavedContexts
  PROVE  NewFrames' /\ SavedContexts' /\ NoneDeep' = NoneDeep
BY DEF OnlyHart, NewFrames, SavedContexts, NewFrame, Resumable, UserFrame, NoneDeep

\* The frames mean the same as long as sp and what waits in memory stay.
LEMMA FramesKept ==
  ASSUME stack' = stack, kind' = kind, context' = context, hart'.sp = hart.sp,
         Bottom' = Bottom, Frames
  PROVE  Frames'
<1>1. UserFrame(Bottom, hart.sp.of) => UserFrame(Bottom, hart.sp.of)'
  BY DEF UserFrame
<1>2. KernelFrame(Bottom, hart.sp.of) => KernelFrame(Bottom, hart.sp.of)'
  <2>1. KernelCode(Bottom) => KernelCode(Bottom)'
    BY DEF KernelCode, Resumable, UserFrame, Alive
  <2> QED BY <2>1 DEF KernelFrame
<1>3. ASSUME NEW i \in 2 .. hart.sp.n
      PROVE  CallbackFrame(stack[Level(hart.sp.of, i)], hart.sp.of, i - 1)'
  <2>1. CallbackFrame(stack[Level(hart.sp.of, i)], hart.sp.of, i - 1)
    BY DEF Frames
  <2> QED BY <2>1 DEF CallbackFrame
<1> QED BY <1>1, <1>2, <1>3 DEF Frames

(***************************************************************************)
(* The end of handle_exception.                                            *)
(***************************************************************************)
LEMMA TrapLevels ==
  ASSUME Types, InTrap
  PROVE  /\ hart.sp.of \in Tasks /\ hart.sp.n \in 1 .. Depth
         /\ hart.sp = Level(hart.sp.of, hart.sp.n) /\ hart.sp \in DOMAIN stack
         /\ Tf.sie = FALSE /\ Tf.spp \in {"S", "U"} /\ Tf.spie \in BOOLEAN
         /\ Tf.sp \in SP /\ Tf.tp = hart.tp /\ Tf.x \in UserX \cup SP
         /\ FromUser => hart.sp.n = 1 /\ UserFrame(Tf, hart.sp.of)
<1>1. hart.sp.of \in Tasks /\ hart.sp.n \in 1 .. Depth /\ hart.sp = Level(hart.sp.of, hart.sp.n)
  BY KernelSps DEF Types, TypeOK, InTrap
<1>2. hart.sp \in DOMAIN stack
  BY <1>1 DEF InTrap, Frames
<1>3. CASE hart.sp.n = 1
  <2>1. Tf = Bottom
    BY <1>1, <1>3 DEF Tf, Bottom
  <2>2. CASE UserFrame(Bottom, hart.sp.of)
    BY <1>1, <1>2, <1>3, <2>1, <2>2, UserSp DEF UserFrame, FromUser, InTrap
  <2>3. CASE KernelFrame(Bottom, hart.sp.of)
    BY <1>1, <1>2, <1>3, <2>1, <2>3, LevelTyped, Depths DEF KernelFrame, KernelCode, FromUser, InTrap
  <2> QED BY <2>2, <2>3 DEF InTrap, Frames
<1>4. CASE hart.sp.n # 1
  <2>1. hart.sp.n \in 2 .. hart.sp.n /\ hart.sp.n - 1 \in 0 .. Depth
    BY <1>1, <1>4, Depths
  <2>2. CallbackFrame(Tf, hart.sp.of, hart.sp.n - 1)
    BY <1>1, <2>1 DEF InTrap, Frames, Tf
  <2> QED BY <1>1, <1>2, <2>1, <2>2, LevelTyped DEF CallbackFrame, FromUser, InTrap
<1> QED BY <1>3, <1>4

\* The place in the code decides which kind of place the hart is in.
LEMMA TrapAt ==
  ASSUME Inv, NEW p \in TrapPcs, PcIs(p)
  PROVE  InTrap /\ hart.mode = "S" /\ hart.pc.at = p
BY DEF Inv, PcIs, InKernel, KernelCode, InReturn, InUser, TrapPcs, ExitPcs, KernelPcs, WindowPcs

\* Steps inside a trap.
LEMMA TrapMoves ==
  ASSUME Inv, InTrap, OnlyHart, Types',
         hart'.sp = hart.sp, hart'.tp = hart.tp, hart'.mode = "S",
         hart'.pc.at \in TrapPcs,
         hart'.pc.at = "callback" \/ ~hart'.sie,
         hart'.pc.at = "callback" => hart'.pc.of = hart.sp,
         hart'.pc.at \in {"ecall", "poll", "fault"} => hart.sp.n = 1 /\ Bottom.spp = "U",
         Leaving'
  PROVE  Inv'
<1>1. stack' = stack /\ kind' = kind /\ context' = context
  BY DEF OnlyHart
<1>2. Bottom' = Bottom
  BY <1>1 DEF Bottom
<1>3. Frames'
  BY <1>1, <1>2, FramesKept DEF InTrap
<1>4. InTrap'
  BY <1>2, <1>3 DEF InTrap
<1>5. hart.mode = "S" /\ hart.pc.at \in TrapPcs
  BY DEF InTrap
<1>6. Nested' = Nested
  BY <1>2, <1>5 DEF Nested
<1>7. Running(Base') = Running(Base)
  <2>1. CASE Nested
    BY <2>1, <1>2, <1>6 DEF Base
  <2>2. CASE ~Nested
    BY <2>2, <1>5, <1>6 DEF Base, Running, TrapPcs, ExitPcs
  <2> QED BY <2>1, <2>2
<1>8. Others'
  BY <1>1, <1>7 DEF Inv, Others, Alive
<1>9. NewFrames' /\ SavedContexts' /\ NoneDeep' = NoneDeep
  BY OnlyHartKeeps DEF Inv
<1>10. Masked'
  BY <1>6, <1>9 DEF Inv, Masked
<1> QED BY <1>4, <1>8, <1>9, <1>10 DEF Inv

\* The steps of restore_regs before its sret.
LEMMA ExitMoves ==
  ASSUME Inv, ExitSepc \/ ExitSstatus \/ ExitSscratch \/ ExitRegs
  PROVE  Inv'
<1>1. InTrap /\ OnlyHart /\ hart.pc.at \in TrapPcs /\ hart.mode = "S"
  <2>1. \E p \in {"pending", "exit_sstatus", "exit_sscratch", "exit_regs"} : PcIs(p)
    BY DEF ExitSepc, ExitSstatus, ExitSscratch, ExitRegs
  <2>2. InTrap /\ hart.pc.at \in TrapPcs /\ hart.mode = "S"
    BY <2>1, TrapAt DEF TrapPcs, ExitPcs
  <2> QED BY <2>2 DEF ExitSepc, ExitSstatus, ExitSscratch, ExitRegs
<1>2. Types
  BY DEF Inv
<1>3. Tf' = stack[hart'.sp]
  BY <1>1 DEF OnlyHart, Tf
<1>4. /\ Tf.sie = FALSE /\ Tf.spp \in {"S", "U"} /\ Tf.spie \in BOOLEAN
      /\ Tf.sp \in SP /\ Tf.tp = hart.tp /\ Tf.x \in UserX \cup SP
  BY <1>1, <1>2, TrapLevels
<1>5. DOMAIN hart = Fields
  BY <1>2 DEF Types
<1>6. ~hart.sie
  BY <1>1 DEF Inv, Masked, ExitSepc, ExitSstatus, ExitSscratch, ExitRegs, PcIs, KernelPcs, WindowPcs
<1>7. /\ hart'.sp = hart.sp /\ hart'.tp = hart.tp /\ hart'.mode = "S" /\ ~hart'.sie
      /\ DOMAIN hart' = Fields /\ hart'.pc.at \in ExitPcs
  <2>1. CASE ExitSepc
    BY <2>1, <1>1, <1>5, <1>6 DEF ExitSepc, Fields, At, ExitPcs
  <2>2. CASE ExitSstatus
    BY <2>2, <1>1, <1>4, <1>5 DEF ExitSstatus, Fields, At, ExitPcs
  <2>3. CASE ExitSscratch
    BY <2>3, <1>1, <1>5, <1>6 DEF ExitSscratch, Fields, At, ExitPcs
  <2>4. CASE ExitRegs
    BY <2>4, <1>1, <1>4, <1>5, <1>6 DEF ExitRegs, Fields, At, ExitPcs
  <2> QED BY <2>1, <2>2, <2>3, <2>4
<1>8. Types'
  BY <1>1, <1>2, <1>4, <1>5, <1>7
  DEF Types, TypeOK, ExitSepc, ExitSstatus, ExitSscratch, ExitRegs, Fields, OnlyHart, UserX
<1>9. Leaving'
  <2>1. Tf' = Tf
    BY <1>3, <1>7 DEF Tf
  <2>2. CASE ExitSepc
    BY <2>1, <2>2, <1>1, <1>5, <1>7 DEF InTrap, Leaving, ExitSepc, Fields, At, ExitPcs, PcIs
  <2>3. CASE ExitSstatus
    BY <2>1, <2>3, <1>1, <1>5, <1>7 DEF InTrap, Leaving, ExitSstatus, Fields, At, ExitPcs, PcIs
  <2>4. CASE ExitSscratch
    BY <2>1, <2>4, <1>1, <1>5, <1>7 DEF InTrap, Leaving, ExitSscratch, Fields, At, ExitPcs, PcIs
  <2>5. CASE ExitRegs
    BY <2>1, <2>5, <1>1, <1>5, <1>7 DEF InTrap, Leaving, ExitRegs, Fields, At, ExitPcs, PcIs
  <2> QED BY <2>2, <2>3, <2>4, <2>5
<1> QED
  BY <1>1, <1>7, <1>8, <1>9, TrapMoves DEF ExitPcs, TrapPcs

\* The saved contexts stand as long as the frames of the processes among them do.
LEMMA ContextsKept ==
  ASSUME SavedContexts, context' = context,
         \A t \in DOMAIN context :
           /\ kind'[t] = kind[t]
           /\ context[t].ra.at \in Deep /\ Level(t, 1) \in DOMAIN stack =>
                /\ Level(t, 1) \in DOMAIN stack'
                /\ stack'[Level(t, 1)] = stack[Level(t, 1)]
  PROVE  SavedContexts' /\ NoneDeep' = NoneDeep
<1>1. SUFFICES ASSUME NEW t \in DOMAIN context
               PROVE  Resumable(context[t].ra, context[t].sp)'
  BY DEF SavedContexts, NoneDeep
<1>2. context[t].sp.of = t /\ Resumable(context[t].ra, context[t].sp)
  BY DEF SavedContexts
<1> QED
  BY <1>2 DEF Resumable, UserFrame

\* The frames of processes that have not run stay, unless the process starts.
LEMMA NewFramesKept ==
  ASSUME NewFrames,
         \A t \in Tasks : kind'[t] = "new" =>
           kind[t] = "new" /\ (t \in DOMAIN trapframe =>
                                 t \in DOMAIN trapframe' /\ trapframe'[t] = trapframe[t])
  PROVE  NewFrames'
BY DEF NewFrames, NewFrame

\* What ExitSret makes of the hart.
LEMMA SretHart ==
  ASSUME Inv, ExitSret
  PROVE  /\ InTrap /\ hart.mode = "S" /\ hart.pc.at = "exit_sret" /\ DOMAIN hart' = Fields
         /\ hart'.mode = Tf.spp /\ hart'.pc = Tf.pc /\ hart'.sp = Tf.sp /\ hart'.x = Tf.x
         /\ hart'.tp = hart.tp /\ hart'.sie = Tf.spie /\ hart'.spie = TRUE /\ hart'.spp = "U"
         /\ hart'.sscratch = Level(hart.sp.of, hart.sp.n - 1)
<1>1. InTrap /\ hart.mode = "S" /\ hart.pc.at = "exit_sret"
  BY TrapAt DEF ExitSret, TrapPcs, ExitPcs
<1>2. Types
  BY DEF Inv
<1>3. /\ hart.sepc = Tf.pc /\ hart.spp = Tf.spp /\ hart.spie = Tf.spie
      /\ hart.sscratch = Tf.sp /\ hart.x = Tf.x
  BY <1>1 DEF InTrap, Leaving, ExitPcs
<1>4. hart.sp = Level(hart.sp.of, hart.sp.n) /\ hart.sp.n - 1 \in Nat
  BY <1>1, <1>2, TrapLevels, Depths
<1>5. (hart.sp.n - 1) + 1 = hart.sp.n
  BY <1>1, <1>2, TrapLevels, Depths
<1>6. Pop(hart.sp) = Level(hart.sp.of, hart.sp.n - 1)
  BY <1>4, <1>5, LevelMoves
<1> QED
  BY <1>1, <1>2, <1>3, <1>6 DEF ExitSret, Sret, Types, Fields

\* The sret of restore_regs, back into U-mode or into the interrupted kernel code.
LEMMA ExitSretInv ==
  ASSUME Inv, ExitSret
  PROVE  Inv'
<1>1. Types /\ InTrap /\ DOMAIN hart = Fields
  BY SretHart DEF Inv, Types
<1>2. /\ hart.sp.of \in Tasks /\ hart.sp.n \in 1 .. Depth
      /\ hart.sp = Level(hart.sp.of, hart.sp.n) /\ hart.sp \in DOMAIN stack
      /\ Tf.sie = FALSE /\ Tf.spp \in {"S", "U"} /\ Tf.spie \in BOOLEAN
      /\ Tf.sp \in SP /\ Tf.tp = hart.tp /\ Tf.x \in UserX \cup SP
      /\ FromUser => hart.sp.n = 1 /\ UserFrame(Tf, hart.sp.of)
  BY <1>1, TrapLevels
<1>3. stack' = Forget(stack, {hart.sp}) /\ UNCHANGED <<context, trapframe, kind>>
  BY DEF ExitSret
<1>4. /\ DOMAIN stack' = DOMAIN stack \ {hart.sp}
      /\ \A i \in DOMAIN stack \ {hart.sp} : stack'[i] = stack[i]
  BY <1>3, ForgetFacts
<1>5. hart.sp.n - 1 \in 0 .. Depth
  BY <1>2, Depths
<1>6. Types'
  BY <1>1, <1>2, <1>3, <1>4, <1>5, SretHart, LevelTyped DEF Types, TypeOK, UserX
<1>7. NewFrames'
  BY <1>3, NewFramesKept DEF Inv
<1>8. CASE FromUser
  <2>1. hart.sp.n = 1 /\ UserFrame(Tf, hart.sp.of) /\ Tf = Bottom
    BY <1>2, <1>8 DEF Tf, Bottom
  <2>2. hart.tp = hart.sp.of /\ kind[hart.sp.of] = "user"
    BY <2>1, <1>1 DEF UserFrame, InTrap, Frames, KernelFrame
  <2>3. ~Nested /\ hart.sp.of \notin DOMAIN context
    BY <2>1, <2>2, SretHart DEF Nested, UserFrame, Inv, Others, Base, Running
  <2>4. SavedContexts'
    <3>1. \A t \in DOMAIN context : Level(t, 1) # hart.sp
      BY <2>3, LevelFields
    <3> QED BY <3>1, <1>3, <1>4, ContextsKept DEF Inv
  <2>5. InUser'
    BY <2>1, <2>2, <1>3, SretHart DEF InUser, UserFrame
  <2>6. hart'.mode = "U" /\ ~Nested' /\ hart'.pc.at \in {"entry", "body"}
    BY <2>5 DEF InUser, Nested, UserCode, At
  <2>7. Others' /\ Masked'
    BY <2>3, <2>6, <1>3, SretHart DEF Inv, Others, Base, Running, Alive, Masked
  <2> QED BY <2>4, <2>5, <2>7, <1>6, <1>7 DEF Inv
<1>9. CASE ~FromUser /\ hart.sp.n = 1
  <2>1. Tf = Bottom /\ KernelFrame(Bottom, hart.sp.of)
    BY <1>1, <1>2, <1>9 DEF Tf, Bottom, InTrap, Frames, FromUser, UserFrame
  <2>2. Nested
    BY <2>1, SretHart DEF Nested, KernelFrame, TrapPcs, ExitPcs
  <2>3. NoneDeep
    BY <2>2 DEF Inv, Masked
  <2>4. SavedContexts' /\ NoneDeep'
    BY <2>3, <1>3, ContextsKept DEF Inv, NoneDeep
  <2>5. KernelCode(Bottom) /\ Bottom.sp = Level(hart.sp.of, 0)
    BY <2>1 DEF KernelFrame
  <2>6. hart'.sp.n = 0 /\ hart'.sp.of = hart.sp.of /\ hart'.sp.area = "k"
    BY <2>1, <2>5, SretHart, LevelFields
  <2>7. KernelCode(hart)'
    BY <2>1, <2>5, <2>6, <1>3, SretHart, LevelFields DEF KernelCode, Resumable, Alive, InTrap
  <2>8. InKernel'
    BY <2>1, <2>5, <2>6, <2>7, <1>9, SretHart, LevelFields DEF InKernel, KernelFrame, KernelCode
  <2>9. Masked'
    BY <2>4, <2>6, <2>7 DEF Masked, Nested, KernelCode, KernelPcs, TrapPcs, ExitPcs
  <2>10. Others'
    <3>1. hart'.pc = Bottom.pc /\ hart'.tp = Bottom.tp
      BY <2>1, SretHart DEF InTrap
    <3>2. Base = Bottom
      BY <2>2 DEF Base
    <3>3. Base' = hart'
      BY <2>7 DEF Base, Nested, KernelCode, KernelPcs, TrapPcs, ExitPcs
    <3>4. Running(Base)' = Running(Base)
      BY <3>1, <3>2, <3>3 DEF Running
    <3> QED BY <1>3, <3>4 DEF Inv, Others, Alive
  <2> QED BY <2>4, <2>8, <2>9, <2>10, <1>6, <1>7 DEF Inv
<1>10. CASE ~FromUser /\ hart.sp.n # 1
  <2> DEFINE n == hart.sp.n - 1
  <2>1. n \in Nat /\ n # 0 /\ n + 1 = hart.sp.n /\ n \in 0 .. Depth
    BY <1>2, <1>10, Depths
  <2>2. CallbackFrame(Tf, hart.sp.of, n)
    BY <1>1, <1>2, <1>10, Depths DEF InTrap, Frames, Tf
  <2>3. hart'.sp = Level(hart.sp.of, n) /\ hart'.sp.of = hart.sp.of /\ hart'.sp.n = n
    BY <2>2, SretHart, LevelFields DEF CallbackFrame
  <2>4. Level(hart.sp.of, 1) # hart.sp /\ \A i \in 1 .. n : Level(hart.sp.of, i) # hart.sp
    BY <1>2, <1>10, LevelFields
  <2>5. \A i \in 1 .. n : Level(hart.sp.of, i) \in DOMAIN stack'
                         /\ stack'[Level(hart.sp.of, i)] = stack[Level(hart.sp.of, i)]
    BY <2>1, <2>4, <1>1, <1>4 DEF InTrap, Frames
  <2>6. Bottom' = Bottom
    BY <2>1, <2>3, <2>5 DEF Bottom
  <2>7. SavedContexts' /\ NoneDeep' = NoneDeep
    <3>1. \A t \in DOMAIN context : Level(t, 1) # hart.sp
      BY <1>10, LevelFields
    <3> QED BY <3>1, <1>3, <1>4, ContextsKept DEF Inv
  <2>8. Frames'
    <3>1. \A i \in 2 .. n : CallbackFrame(stack[Level(hart.sp.of, i)], hart.sp.of, i - 1)'
      BY <2>1, <2>3, <2>5, <2>6, <1>1 DEF InTrap, Frames, CallbackFrame
    <3>2. \/ UserFrame(Bottom, hart.sp.of)' /\ kind'[hart'.sp.of] = "user"
          \/ KernelFrame(Bottom, hart.sp.of)'
      BY <2>3, <2>6, <1>1, <1>3, LevelFields
      DEF InTrap, Frames, UserFrame, KernelFrame, KernelCode, Resumable, Alive
    <3> QED BY <2>3, <2>5, <3>1, <3>2 DEF Frames
  <2>9. hart'.mode = "S" /\ hart'.pc.at = "callback" /\ hart'.pc.of = hart'.sp /\ hart'.x = hart'.sp
    BY <2>2, SretHart DEF CallbackFrame
  <2>10. InTrap'
    BY <2>1, <2>3, <2>6, <2>8, <2>9, <1>1, SretHart, LevelFields
    DEF InTrap, Leaving, TrapPcs, ExitPcs
  <2>11. Nested' = Nested
    BY <2>6, <2>9, SretHart DEF Nested, TrapPcs, ExitPcs
  <2>12. Others'
    BY <2>6, <2>9, <2>11, <1>3, SretHart DEF Inv, Others, Base, Running, Alive
  <2>13. Masked'
    BY <2>7, <2>9, <2>11 DEF Inv, Masked
  <2> QED BY <2>7, <2>10, <2>12, <2>13, <1>6, <1>7 DEF Inv
<1> QED BY <1>8, <1>9, <1>10

(***************************************************************************)
(* Trap entry.                                                             *)
(***************************************************************************)
Causes == {"timer", "external", "ecall", "fault"}

\* What Trap makes of the hart and of memory, from the level it enters at.
LEMMA TrapEntry ==
  ASSUME Inv, NEW cause \in Causes, Trap(cause),
         NEW t \in Tasks, NEW n \in 0 .. Depth, EntrySp = Level(t, n), n < Depth
  PROVE  /\ DOMAIN hart' = Fields /\ hart'.mode = "S" /\ hart'.pc.at = cause
         /\ hart'.sp = Level(t, n + 1) /\ hart'.x = Level(t, n + 1) /\ hart'.tp = hart.tp
         /\ hart'.sie = FALSE
         /\ DOMAIN stack' = DOMAIN stack \cup {Level(t, n + 1)}
         /\ stack'[Level(t, n + 1)] = Saved
         /\ \A p \in DOMAIN stack : p # Level(t, n + 1) => stack'[p] = stack[p]
         /\ UNCHANGED <<context, trapframe, kind>>
         /\ Types' /\ NewFrames' /\ Leaving'
<1>1. DOMAIN hart = Fields /\ Types
  BY DEF Inv, Types
<1>2. n \in Nat /\ n + 1 \in 0 .. Depth
  BY Depths
<1>3. Push(EntrySp) = Level(t, n + 1)
  BY <1>2, LevelMoves
<1>4. /\ DOMAIN hart' = Fields /\ hart'.mode = "S" /\ hart'.pc.at = cause
      /\ hart'.sp = Level(t, n + 1) /\ hart'.x = Level(t, n + 1) /\ hart'.tp = hart.tp
      /\ hart'.sie = FALSE /\ hart'.spp = hart.mode /\ hart'.spie = hart.sie
      /\ hart'.sscratch \in {hart.sp, hart.sscratch}
  BY <1>1, <1>3 DEF Trap, Fields, At, KernelRegs
<1>5. stack' = Put(stack, Level(t, n + 1), Saved) /\ UNCHANGED <<context, trapframe, kind>>
  BY <1>3 DEF Trap
<1>6. /\ DOMAIN stack' = DOMAIN stack \cup {Level(t, n + 1)}
      /\ stack'[Level(t, n + 1)] = Saved
      /\ \A p \in DOMAIN stack : p # Level(t, n + 1) => stack'[p] = stack[p]
  <2> DEFINE top == Level(t, n + 1)
  <2> HIDE DEF top
  <2>1. stack' = Put(stack, top, Saved)
    BY <1>5 DEF top
  <2>2. /\ DOMAIN stack' = DOMAIN stack \cup {top} /\ stack'[top] = Saved
        /\ \A p \in DOMAIN stack : p # top => stack'[p] = stack[p]
    BY <2>1 DEF Put
  <2> QED BY <2>2 DEF top
<1>7. Types'
  BY <1>1, <1>2, <1>4, <1>5, <1>6, LevelTyped DEF Types, TypeOK, UserX
<1>8. NewFrames'
  BY <1>5, NewFramesKept DEF Inv
<1>9. Leaving'
  BY <1>4 DEF Leaving, Causes, ExitPcs
<1> QED BY <1>4, <1>5, <1>6, <1>7, <1>8, <1>9

\* A trap from U-mode.
LEMMA UserTrapInv ==
  ASSUME Inv, hart.mode = "U", NEW cause \in Causes, Trap(cause)
  PROVE  Inv'
<1> PICK t : t = hart.tp
  OBVIOUS
<1>1. InUser
  BY DEF Inv, InKernel, InReturn, InTrap
<1>2. /\ t \in Tasks /\ 0 \in 0 .. Depth /\ 0 < Depth /\ EntrySp = Level(t, 0)
      /\ Level(t, 0 + 1) = Level(t, 1)
  BY <1>1, TrapAssumption, Depths DEF InUser, EntrySp, Inv, Types, TypeOK
<1>3. /\ hart'.mode = "S" /\ hart'.pc.at = cause
      /\ hart'.sp = Level(t, 1) /\ hart'.tp = t /\ hart'.sie = FALSE
      /\ DOMAIN stack' = DOMAIN stack \cup {Level(t, 1)}
      /\ stack'[Level(t, 1)] = Saved
      /\ \A p \in DOMAIN stack : p # Level(t, 1) => stack'[p] = stack[p]
      /\ UNCHANGED <<context, trapframe, kind>>
      /\ Types' /\ NewFrames' /\ Leaving'
  <2>1. /\ hart'.mode = "S" /\ hart'.pc.at = cause
        /\ hart'.sp = Level(t, 0 + 1) /\ hart'.tp = hart.tp /\ hart'.sie = FALSE
        /\ DOMAIN stack' = DOMAIN stack \cup {Level(t, 0 + 1)}
        /\ stack'[Level(t, 0 + 1)] = Saved
        /\ \A p \in DOMAIN stack : p # Level(t, 0 + 1) => stack'[p] = stack[p]
        /\ UNCHANGED <<context, trapframe, kind>>
        /\ Types' /\ NewFrames' /\ Leaving'
    BY <1>2, TrapEntry, Zenon
  <2> QED BY <2>1, <1>2
<1>4. hart'.sp.of = t /\ hart'.sp.n = 1 /\ hart'.sp.area = "k"
  BY <1>3, LevelFields
<1>5. Bottom' = Saved /\ UserFrame(Saved, t) /\ t # Idle
  BY <1>1, <1>3, <1>4 DEF Bottom, Saved, FrameFields, UserFrame, InUser, Inv, Types, TypeOK
<1>6. ~Nested' /\ t \notin DOMAIN context
  BY <1>1, <1>3, <1>5 DEF Nested, UserFrame, Inv, Others, Base, Running, InUser, UserCode, At
<1>7. SavedContexts'
  <2>1. \A s \in DOMAIN context : Level(s, 1) # Level(t, 1)
    BY <1>6, LevelFields
  <2> QED BY <2>1, <1>3, ContextsKept DEF Inv
<1>8. Frames'
  BY <1>1, <1>3, <1>4, <1>5 DEF Frames, InUser, UserFrame
<1>9. InTrap'
  BY <1>3, <1>4, <1>5, <1>8 DEF InTrap, UserFrame, Causes, TrapPcs
<1>10. Others' /\ Masked'
  BY <1>1, <1>3, <1>6 DEF Inv, Others, Base, Running, Alive, Masked, Causes, InUser, UserCode, At, Nested
<1> QED BY <1>3, <1>7, <1>9, <1>10 DEF Inv

\* An interrupt of kernel code that is not in a trap.
LEMMA KernelInterruptInv ==
  ASSUME Inv, InKernel, hart.sie, NEW cause \in {"timer", "external"}, Trap(cause)
  PROVE  Inv'
<1> PICK t : t = hart.sp.of
  OBVIOUS
<1>1. hart.mode = "S" /\ hart.pc.at \in KernelPcs /\ KernelCode(hart) /\ hart.sp.area = "k"
  BY DEF InKernel, KernelCode
<1>2. hart.sp.n = 0 /\ NoneDeep
  BY <1>1 DEF Inv, Masked, KernelPcs, WindowPcs
<1>3. t \in Tasks /\ hart.sp = Level(t, 0) /\ EntrySp = Level(t, 0)
  BY <1>1, <1>2, KernelSps DEF EntrySp, Inv, Types, TypeOK
<1>4. 0 \in 0 .. Depth /\ 0 < Depth /\ Level(t, 0 + 1) = Level(t, 1) /\ cause \in Causes
  BY TrapAssumption, Depths DEF Causes
<1>5. /\ hart'.mode = "S" /\ hart'.pc.at = cause
      /\ hart'.sp = Level(t, 1) /\ hart'.tp = hart.tp /\ hart'.sie = FALSE
      /\ DOMAIN stack' = DOMAIN stack \cup {Level(t, 1)}
      /\ stack'[Level(t, 1)] = Saved
      /\ \A p \in DOMAIN stack : p # Level(t, 1) => stack'[p] = stack[p]
      /\ UNCHANGED <<context, trapframe, kind>>
      /\ Types' /\ NewFrames' /\ Leaving'
  <2>1. /\ hart'.mode = "S" /\ hart'.pc.at = cause
        /\ hart'.sp = Level(t, 0 + 1) /\ hart'.tp = hart.tp /\ hart'.sie = FALSE
        /\ DOMAIN stack' = DOMAIN stack \cup {Level(t, 0 + 1)}
        /\ stack'[Level(t, 0 + 1)] = Saved
        /\ \A p \in DOMAIN stack : p # Level(t, 0 + 1) => stack'[p] = stack[p]
        /\ UNCHANGED <<context, trapframe, kind>>
        /\ Types' /\ NewFrames' /\ Leaving'
    BY <1>3, <1>4, TrapEntry, Zenon
  <2> QED BY <2>1, <1>4
<1>6. hart'.sp.of = t /\ hart'.sp.n = 1 /\ hart'.sp.area = "k"
  BY <1>5, LevelFields
<1>7. /\ Saved.pc = hart.pc /\ Saved.sp = hart.sp /\ Saved.tp = hart.tp /\ Saved.x = hart.x
      /\ Saved.spp = "S" /\ Saved.sie = FALSE /\ Saved.spie = hart.sie
  BY <1>1 DEF Saved
<1>8. Bottom' = Saved /\ Nested'
  BY <1>5, <1>6, <1>7 DEF Bottom, Nested, TrapPcs
<1>9. SavedContexts' /\ NoneDeep'
  BY <1>2, <1>5, ContextsKept DEF Inv, NoneDeep
<1>10. KernelFrame(Bottom, t)'
  <2>1. KernelCode(Bottom)'
    BY <1>1, <1>2, <1>3, <1>5, <1>7, <1>8, LevelFields DEF KernelCode, Resumable, Alive
  <2> QED BY <2>1, <1>3, <1>7, <1>8 DEF KernelFrame, Inv, Types, TypeOK
<1>11. Frames'
  BY <1>5, <1>6, <1>10 DEF Frames
<1>12. InTrap'
  BY <1>5, <1>6, <1>7, <1>8, <1>11 DEF InTrap, TrapPcs
<1>13. Others'
  BY <1>1, <1>5, <1>7, <1>8
  DEF Inv, Others, Base, Running, Alive, Nested, KernelPcs, TrapPcs, ExitPcs
<1>14. Masked'
  BY <1>5, <1>9 DEF Masked
<1> QED BY <1>5, <1>9, <1>12, <1>13, <1>14 DEF Inv

\* An interrupt of a callback, nested in the trap that runs it.
LEMMA CallbackInterruptInv ==
  ASSUME Inv, InTrap, hart.pc.at = "callback",
         NEW cause \in {"timer", "external"}, Trap(cause)
  PROVE  Inv'
<1> PICK t, n : t = hart.sp.of /\ n = hart.sp.n
  OBVIOUS
<1>a. Types /\ hart.mode = "S" /\ cause \in Causes
  BY DEF Inv, InTrap, Causes
<1>b. t \in Tasks /\ n \in 1 .. Depth /\ hart.sp = Level(t, n)
  BY <1>a, TrapLevels
<1>1. /\ t \in Tasks /\ n \in 1 .. Depth /\ hart.sp = Level(t, n) /\ n \in 0 .. Depth
      /\ hart.mode = "S" /\ cause \in Causes
  BY <1>a, <1>b, Depths
<1>2. n < Depth /\ EntrySp = Level(t, n) /\ n \in Nat
  BY <1>1, Depths DEF Trap, EntrySp
<1> DEFINE top == Level(t, n + 1)
<1>3. /\ hart'.mode = "S" /\ hart'.pc.at = cause
      /\ hart'.sp = top /\ hart'.tp = hart.tp /\ hart'.sie = FALSE
      /\ DOMAIN stack' = DOMAIN stack \cup {top}
      /\ stack'[top] = Saved
      /\ \A p \in DOMAIN stack : p # top => stack'[p] = stack[p]
      /\ UNCHANGED <<context, trapframe, kind>>
      /\ Types' /\ NewFrames' /\ Leaving'
  BY <1>1, <1>2, TrapEntry
<1>4. hart'.sp.of = t /\ hart'.sp.n = n + 1 /\ hart'.sp.area = "k"
  BY <1>3, LevelFields
<1>5. /\ Saved.pc = hart.pc /\ Saved.sp = hart.sp /\ Saved.tp = hart.tp /\ Saved.x = hart.x
      /\ Saved.spp = "S" /\ Saved.sie = FALSE /\ Saved.spie = hart.sie
  BY <1>1 DEF Saved
<1>6. \A i \in 1 .. n : Level(t, i) # top
  BY <1>1, LevelFields
<1>7. \A i \in 1 .. n : Level(t, i) \in DOMAIN stack' /\ stack'[Level(t, i)] = stack[Level(t, i)]
  BY <1>3, <1>6 DEF InTrap, Frames
<1>8. Bottom' = Bottom
  <2>1. 1 \in 1 .. n
    BY <1>1, Depths
  <2> QED BY <2>1, <1>4, <1>7 DEF Bottom
<1>9. SavedContexts' /\ NoneDeep' = NoneDeep
  <2>1. \A s \in DOMAIN context : Level(s, 1) # top
    BY <1>1, LevelFields
  <2> QED BY <2>1, <1>3, ContextsKept DEF Inv
<1>10. Frames'
  <2>1. \A i \in 2 .. n : CallbackFrame(stack[Level(t, i)], t, i - 1)'
    <3>1. SUFFICES ASSUME NEW i \in 2 .. n PROVE CallbackFrame(stack[Level(t, i)], t, i - 1)'
      OBVIOUS
    <3>2. i \in 1 .. n /\ CallbackFrame(stack[Level(t, i)], t, i - 1)
      BY <1>1, Depths DEF InTrap, Frames
    <3> QED BY <3>2, <1>7, <1>8 DEF CallbackFrame
  <2>2. CallbackFrame(stack[top], t, n)'
    <3>1. /\ hart.tp = Bottom.tp /\ hart.pc.at = "callback" /\ hart.pc.of = hart.sp
          /\ hart.x = hart.sp /\ hart.sie \in BOOLEAN
      BY <1>a DEF InTrap, Leaving, ExitPcs, Types, TypeOK
    <3> QED BY <3>1, <1>1, <1>3, <1>5, <1>8 DEF CallbackFrame
  <2>3. \A i \in 2 .. n + 1 : CallbackFrame(stack[Level(t, i)], t, i - 1)'
    <3>1. SUFFICES ASSUME NEW i \in 2 .. n + 1 PROVE CallbackFrame(stack[Level(t, i)], t, i - 1)'
      OBVIOUS
    <3>2. CASE i \in 2 .. n
      BY <2>1, <3>2
    <3>3. CASE i = n + 1
      <4>1. i - 1 = n
        BY <1>2, <3>3
      <4> QED BY <2>2, <3>3, <4>1
    <3> QED BY <1>2, <3>2, <3>3
  <2>4. \/ UserFrame(Bottom, t)' /\ kind'[t] = "user"
        \/ KernelFrame(Bottom, t)'
    BY <1>3, <1>8, LevelFields
    DEF InTrap, Frames, UserFrame, KernelFrame, KernelCode, Resumable, Alive
  <2>5. \A i \in 1 .. n + 1 : Level(t, i) \in DOMAIN stack'
    BY <1>2, <1>3, <1>7
  <2> QED BY <1>4, <2>3, <2>4, <2>5 DEF Frames
<1>11. InTrap'
  BY <1>2, <1>3, <1>4, <1>8, <1>10 DEF InTrap, TrapPcs
<1>12. Nested' = Nested
  BY <1>1, <1>3, <1>8 DEF Nested, TrapPcs
<1>13. Others'
  BY <1>3, <1>8, <1>12 DEF Inv, Others, Base, Running, Alive
<1>14. Masked'
  BY <1>3, <1>9, <1>12 DEF Inv, Masked
<1> QED BY <1>3, <1>9, <1>11, <1>13, <1>14 DEF Inv

\* Every trap, while the window of return_to_user is quiet.
LEMMA EntryInv ==
  ASSUME Inv, QuietWindow, Interrupt \/ Fault \/ Ecall
  PROVE  Inv'
<1>1. CASE hart.mode = "U"
  <2>1. \E cause \in Causes : Trap(cause)
    BY DEF Interrupt, Fault, Ecall, Causes
  <2> QED BY <1>1, <2>1, UserTrapInv
<1>2. CASE hart.mode # "U"
  <2>1. /\ hart.mode = "S" /\ hart.sie /\ hart.pc.at \notin WindowPcs
        /\ \E cause \in {"timer", "external"} : Trap(cause)
    BY <1>2 DEF Interrupt, Fault, Ecall, InWindow, WindowPcs, Inv, Types, TypeOK
  <2>2. CASE hart.pc.at = "callback"
    <3>1. InTrap
      BY <2>1, <2>2, TrapAt DEF PcIs, TrapPcs
    <3> QED BY <2>1, <2>2, <3>1, CallbackInterruptInv
  <2>3. CASE hart.pc.at # "callback"
    <3>1. hart.pc.at \in KernelPcs
      BY <2>1, <2>3 DEF Inv, Masked
    <3>2. InKernel
      BY <2>1, <3>1
      DEF Inv, InReturn, InUser, InTrap, KernelPcs, WindowPcs, TrapPcs, ExitPcs
    <3> QED BY <2>1, <3>2, KernelInterruptInv
  <2> QED BY <2>2, <2>3
<1> QED BY <1>1, <1>2

(***************************************************************************)
(* schedule and switch_to.                                                 *)
(***************************************************************************)
\* In the trap of a process, the kernel works for that process.
LEMMA UserTrap ==
  ASSUME Inv, InTrap, FromUser
  PROVE  /\ ~Nested /\ hart.sp.n = 1 /\ hart.sp = Level(hart.tp, 1) /\ hart.sp.of = hart.tp
         /\ hart.sp \in DOMAIN stack /\ UserFrame(Tf, hart.tp)
         /\ Bottom = Tf /\ hart.tp \in Tasks /\ kind[hart.tp] = "user"
         /\ Running(Base) = {hart.tp} /\ hart.tp \notin DOMAIN context
<1>1. Types
  BY DEF Inv
<1>2. /\ hart.sp = Level(hart.sp.of, hart.sp.n) /\ hart.sp.n = 1 /\ hart.sp \in DOMAIN stack
      /\ UserFrame(Tf, hart.sp.of) /\ hart.sp.of \in Tasks
  BY <1>1, TrapLevels
<1>3. Bottom = Tf
  BY <1>2 DEF Bottom, Tf
<1>4. ~Nested /\ hart.tp = hart.sp.of /\ kind[hart.sp.of] = "user"
  BY <1>2, <1>3 DEF Nested, UserFrame, InTrap, Frames, KernelFrame
<1>5. Running(Base) = {hart.tp}
  BY <1>4 DEF Base, Running, InTrap, TrapPcs, ExitPcs
<1> QED BY <1>2, <1>3, <1>4, <1>5 DEF Inv, Others

\* Whoever can be chosen has a context.
LEMMA Choosable ==
  ASSUME Inv, Running(Base) = {hart.tp}, NEW t \in Tasks \ {hart.tp}, Alive(t)
  PROVE  t \in DOMAIN context
BY DEF Inv, Others

\* schedule() has chosen another task and calls switch_to.
LEMMA SwitchTo ==
  ASSUME Inv, OnlyHart, ~Nested, Running(Base) = {hart.tp},
         hart.mode = "S", hart.sp.area = "k", hart.sp.of = hart.tp, hart.x = hart.sp,
         hart.sie => hart.sp.n = 0 /\ NoneDeep,
         NEW t \in Tasks \ {hart.tp}, Alive(t), NEW ret, Resumable(ret, hart.sp),
         GoTo(Switch(t, ret))
  PROVE  Inv'
<1>1. UNCHANGED <<stack, context, trapframe, kind>>
  BY DEF OnlyHart
<1>2. /\ DOMAIN hart' = Fields /\ hart'.mode = "S" /\ hart'.sp = hart.sp /\ hart'.tp = hart.tp
      /\ hart'.x = hart.x /\ hart'.sie = hart.sie /\ hart'.spp = hart.spp
      /\ hart'.spie = hart.spie /\ hart'.sscratch = hart.sscratch
      /\ hart'.pc.at = "switch" /\ hart'.pc.next = t /\ hart'.pc.ret = ret
  BY DEF GoTo, Switch, Inv, Types, Fields
<1>3. Types'
  BY <1>1, <1>2 DEF Inv, Types, TypeOK
<1>4. NewFrames' /\ SavedContexts' /\ NoneDeep' = NoneDeep
  BY OnlyHartKeeps DEF Inv
<1>5. Resumable(ret, hart.sp)'
  BY <1>1, <1>2 DEF Resumable, UserFrame
<1>6. InKernel'
  BY <1>1, <1>2, <1>5, Choosable DEF InKernel, KernelCode, KernelPcs
<1>7. ~Nested'
  BY <1>2 DEF Nested, TrapPcs, ExitPcs
<1>8. Others'
  BY <1>1, <1>2, <1>7 DEF Inv, Others, Base, Running, Alive
<1>9. Masked'
  BY <1>2, <1>4, <1>7 DEF Masked, KernelPcs
<1> QED BY <1>3, <1>4, <1>6, <1>8, <1>9 DEF Inv

\* thread_exit, in a thread or in the trap of a process.
LEMMA ExitSwitch ==
  ASSUME Inv, ThreadExit, ~Nested, Running(Base) = {hart.tp}, hart.tp # Idle,
         hart.mode = "S", hart.sp.area = "k", hart.sp.of = hart.tp, hart.x = hart.sp,
         hart.sie => hart.sp.n = 0 /\ NoneDeep
  PROVE  Inv'
<1>1. PICK t \in Tasks \ {hart.tp} : Alive(t) /\ GoTo(Switch(t, At("dead")))
  BY DEF ThreadExit
<1>2. /\ kind' = [kind EXCEPT ![hart.tp] = "unused"]
      /\ stack' = Forget(stack, FramesOf(hart.tp)) /\ UNCHANGED <<context, trapframe>>
  BY DEF ThreadExit
<1>3. /\ DOMAIN hart' = Fields /\ hart'.mode = "S" /\ hart'.sp = hart.sp /\ hart'.tp = hart.tp
      /\ hart'.x = hart.x /\ hart'.sie = hart.sie /\ hart'.spp = hart.spp
      /\ hart'.spie = hart.spie /\ hart'.sscratch = hart.sscratch
      /\ hart'.pc.at = "switch" /\ hart'.pc.next = t
  BY <1>1 DEF GoTo, Switch, Inv, Types, Fields
<1>4. /\ DOMAIN stack' = DOMAIN stack \ FramesOf(hart.tp)
      /\ \A i \in DOMAIN stack \ FramesOf(hart.tp) : stack'[i] = stack[i]
  BY <1>2 DEF Forget
<1>5. /\ hart.tp \in Tasks /\ kind'[hart.tp] = "unused"
      /\ \A s \in Tasks : s # hart.tp => kind'[s] = kind[s]
  BY <1>2 DEF Inv, Types, TypeOK
<1>6. Types'
  BY <1>2, <1>3, <1>4, <1>5 DEF Inv, Types, TypeOK, Tasks
<1>7. NewFrames'
  BY <1>2, <1>5, NewFramesKept DEF Inv
<1>8. DOMAIN context \subseteq Tasks \ {hart.tp}
  BY DEF Inv, Others
<1>9. SavedContexts' /\ NoneDeep' = NoneDeep
  <2>1. \A s \in DOMAIN context : Level(s, 1) \notin FramesOf(hart.tp)
    BY <1>8, LevelFields DEF FramesOf
  <2> QED BY <2>1, <1>2, <1>4, <1>5, <1>8, ContextsKept DEF Inv
<1>10. InKernel'
  BY <1>1, <1>2, <1>3, <1>5, Choosable DEF InKernel, KernelCode, KernelPcs, Alive
<1>11. ~Nested'
  BY <1>3 DEF Nested, TrapPcs, ExitPcs
<1>12. Others'
  BY <1>2, <1>3, <1>5, <1>11 DEF Inv, Others, Base, Running, Alive
<1>13. Masked'
  BY <1>3, <1>9, <1>11 DEF Masked, KernelPcs
<1> QED BY <1>6, <1>7, <1>9, <1>10, <1>12, <1>13 DEF Inv

\* A point of kernel code outside of traps.
LEMMA KernelAt ==
  ASSUME Inv, NEW p \in KernelPcs, PcIs(p)
  PROVE  /\ InKernel /\ KernelCode(hart) /\ hart.mode = "S" /\ hart.pc.at = p
         /\ ~Nested /\ hart.sp.area = "k" /\ hart.x = hart.sp
         /\ hart.sie => hart.sp.n = 0 /\ NoneDeep
<1>1. InKernel
  BY DEF Inv, PcIs, InReturn, InUser, InTrap, TrapPcs, ExitPcs, KernelPcs, WindowPcs
<1>2. hart.mode = "S" /\ hart.pc.at = p /\ ~Nested
  BY DEF PcIs, Nested, TrapPcs, ExitPcs, KernelPcs
<1>3. hart.sie => hart.sp.n = 0 /\ NoneDeep
  BY <1>2 DEF Inv, Masked, KernelPcs, WindowPcs
<1> QED BY <1>1, <1>2, <1>3 DEF InKernel, KernelCode

\* switch_to saves the context of the task that leaves.
LEMMA SwitchSaveInv ==
  ASSUME Inv, SwitchSave
  PROVE  Inv'
<1>1. /\ InKernel /\ KernelCode(hart) /\ hart.mode = "S" /\ hart.pc.at = "switch"
      /\ ~Nested /\ hart.sp.area = "k" /\ hart.x = hart.sp
      /\ hart.sie => hart.sp.n = 0 /\ NoneDeep
  BY KernelAt DEF SwitchSave, KernelPcs
<1>2. /\ hart.sp.of = hart.tp /\ hart.pc.next \in DOMAIN context
      /\ Alive(hart.tp) => Resumable(hart.pc.ret, hart.sp)
  BY <1>1 DEF KernelCode
<1>3. UNCHANGED <<stack, trapframe, kind>>
  BY DEF SwitchSave
<1>4. /\ DOMAIN hart' = Fields /\ hart'.mode = "S" /\ hart'.sp = hart.sp /\ hart'.tp = hart.tp
      /\ hart'.x = hart.x /\ hart'.sie = hart.sie /\ hart'.spp = hart.spp
      /\ hart'.spie = hart.spie /\ hart'.sscratch = hart.sscratch
      /\ hart'.pc.at = "switch_load" /\ hart'.pc.next = hart.pc.next
  BY <1>1 DEF SwitchSave, GoTo, Inv, Types, Fields
<1>5. hart.tp \in Tasks /\ DOMAIN context = {t \in Tasks : Alive(t)} \ {hart.tp}
  BY <1>1 DEF Inv, Types, TypeOK, Others, Base, Running
<1>6. ~Nested'
  BY <1>4 DEF Nested, TrapPcs, ExitPcs
<1>a. hart.sp.n = 0 => kind[hart.tp] # "user"
  <2>1. CASE Alive(hart.tp)
    <3>1. Resumable(hart.pc.ret, hart.sp)
      BY <2>1, <1>2
    <3> QED BY <3>1, <1>2, LevelFields DEF Resumable, Inv, Types
  <2>2. CASE ~Alive(hart.tp)
    BY <2>2 DEF Alive
  <2> QED BY <2>1, <2>2
<1>7. NewFrames'
  BY <1>3, NewFramesKept DEF Inv
<1>8. CASE Alive(hart.tp)
  <2> DEFINE c == [ra |-> hart.pc.ret, sp |-> hart.sp, x |-> hart.x]
  <2>1. context' = Put(context, hart.tp, c)
    BY <1>8 DEF SwitchSave
  <2>2. c.ra = hart.pc.ret /\ c.sp = hart.sp /\ c.x = hart.x
    OBVIOUS
  <2> HIDE DEF c
  <2>3. /\ DOMAIN context' = DOMAIN context \cup {hart.tp} /\ context'[hart.tp] = c
        /\ \A t \in DOMAIN context : t # hart.tp => context'[t] = context[t]
    BY <2>1 DEF Put
  <2>4. SavedContexts'
    BY <2>2, <2>3, <1>1, <1>2, <1>3, <1>8
    DEF Inv, SavedContexts, Resumable, UserFrame
  <2>5. Types'
    BY <2>3, <1>3, <1>4, <1>5 DEF Inv, Types, TypeOK
  <2>6. InKernel'
    BY <2>3, <1>1, <1>2, <1>3, <1>4, <1>a DEF InKernel, KernelCode, KernelPcs
  <2>7. Others'
    BY <2>3, <1>3, <1>4, <1>5, <1>6, <1>8 DEF Others, Base, Running, Alive
  <2>8. hart.sie => NoneDeep'
    BY <2>2, <2>3, <1>1, <1>2, <1>8, LevelFields DEF NoneDeep, Resumable, Deep
  <2>9. Masked'
    BY <2>8, <1>1, <1>4, <1>6 DEF Masked, KernelPcs
  <2> QED BY <2>4, <2>5, <2>6, <2>7, <2>9, <1>7 DEF Inv
<1>9. CASE ~Alive(hart.tp)
  <2>1. context' = context
    BY <1>9 DEF SwitchSave
  <2>2. SavedContexts' /\ NoneDeep' = NoneDeep
    BY <2>1, <1>3 DEF Inv, SavedContexts, Resumable, UserFrame, NoneDeep
  <2>3. Types'
    BY <2>1, <1>3, <1>4 DEF Inv, Types, TypeOK
  <2>4. InKernel'
    BY <2>1, <1>1, <1>2, <1>3, <1>4, <1>a DEF InKernel, KernelCode, KernelPcs
  <2>5. Others'
    BY <2>1, <1>3, <1>4, <1>5, <1>6, <1>9 DEF Others, Base, Running, Alive
  <2>6. Masked'
    BY <2>2, <1>1, <1>4, <1>6 DEF Masked, KernelPcs
  <2> QED BY <2>2, <2>3, <2>4, <2>5, <2>6, <1>7 DEF Inv
<1> QED BY <1>8, <1>9

\* switch_to loads sp and ra of the next task.
LEMMA SwitchLoadInv ==
  ASSUME Inv, SwitchLoad
  PROVE  Inv'
<1> PICK t : t = hart.pc.next
  OBVIOUS
<1>1. /\ InKernel /\ KernelCode(hart) /\ hart.mode = "S" /\ hart.pc.at = "switch_load"
      /\ ~Nested /\ (hart.sie => hart.sp.n = 0 /\ NoneDeep)
  BY KernelAt DEF SwitchLoad, KernelPcs
<1>2. /\ t \in DOMAIN context /\ DOMAIN context = {s \in Tasks : Alive(s)}
  <2>1. t \in DOMAIN context
    BY <1>1 DEF KernelCode
  <2>2. Running(Base) = {}
    BY <1>1 DEF Base, Running
  <2> QED BY <2>1, <2>2 DEF Inv, Others
<1>3. /\ context[t].sp.of = t /\ context[t].x = context[t].sp
      /\ Resumable(context[t].ra, context[t].sp)
  BY <1>2 DEF Inv, SavedContexts
<1>4. UNCHANGED <<stack, trapframe, kind>>
  BY DEF SwitchLoad
<1>5. /\ DOMAIN hart' = Fields /\ hart'.mode = "S" /\ hart'.sp = context[t].sp
      /\ hart'.tp = hart.tp /\ hart'.x = context[t].x /\ hart'.sie = hart.sie
      /\ hart'.spp = hart.spp /\ hart'.spie = hart.spie /\ hart'.sscratch = hart.sscratch
      /\ hart'.pc.at = "switch_tp" /\ hart'.pc.next = t /\ hart'.pc.ret = context[t].ra
  BY <1>1 DEF SwitchLoad, Inv, Types, Fields
<1>6. /\ DOMAIN context' = DOMAIN context \ {t}
      /\ \A s \in DOMAIN context \ {t} : context'[s] = context[s]
  <2>1. context' = Forget(context, {t})
    BY DEF SwitchLoad
  <2>2. context' = [s \in DOMAIN context \ {t} |-> context[s]]
    BY <2>1 DEF Forget
  <2> QED BY <2>2
<1>7. /\ t \in Tasks
      /\ \/ context[t].sp = Level(t, 0) /\ context[t].ra.at \notin Deep
         \/ context[t].sp = Level(t, 1) /\ context[t].ra.at \in Deep
  BY <1>2, <1>3, LevelFields DEF Resumable, Deep
<1>8. Types'
  BY <1>3, <1>4, <1>5, <1>6, <1>7, LevelTyped, Depths DEF Inv, Types, TypeOK
<1>9. SavedContexts' /\ (NoneDeep => NoneDeep')
  BY <1>4, <1>6 DEF Inv, SavedContexts, Resumable, UserFrame, NoneDeep
<1>10. NewFrames'
  BY <1>4, NewFramesKept DEF Inv
<1>11. Resumable(hart.pc.ret, hart.sp)'
  BY <1>3, <1>4, <1>5 DEF Resumable, UserFrame
<1>12. InKernel'
  BY <1>2, <1>3, <1>4, <1>5, <1>7, <1>11, LevelFields DEF InKernel, KernelCode, KernelPcs, Alive
<1>13. ~Nested'
  BY <1>5 DEF Nested, TrapPcs, ExitPcs
<1>14. Others'
  BY <1>2, <1>4, <1>5, <1>6, <1>13 DEF Others, Base, Running, Alive
<1>15. Masked'
  BY <1>1, <1>2, <1>5, <1>7, <1>9, <1>13, LevelFields DEF Masked, KernelPcs, NoneDeep
<1> QED BY <1>8, <1>9, <1>10, <1>12, <1>14, <1>15 DEF Inv

\* switch_to loads tp and returns.
LEMMA SwitchTpInv ==
  ASSUME Inv, SwitchTp
  PROVE  Inv'
<1> PICK t, ret : t = hart.pc.next /\ ret = hart.pc.ret
  OBVIOUS
<1>1. /\ InKernel /\ KernelCode(hart) /\ hart.mode = "S" /\ hart.pc.at = "switch_tp"
      /\ ~Nested /\ (hart.sie => hart.sp.n = 0 /\ NoneDeep)
  BY KernelAt DEF SwitchTp, KernelPcs
<1>2. t = hart.sp.of /\ Alive(t) /\ Resumable(ret, hart.sp) /\ hart.sp.area = "k" /\ hart.x = hart.sp
  BY <1>1 DEF KernelCode
<1>3. UNCHANGED <<stack, context, trapframe, kind>> /\ OnlyHart
  BY DEF SwitchTp, OnlyHart
<1>4. /\ DOMAIN hart' = Fields /\ hart'.mode = "S" /\ hart'.sp = hart.sp
      /\ hart'.tp = t /\ hart'.x = hart.x /\ hart'.sie = hart.sie
      /\ hart'.spp = hart.spp /\ hart'.spie = hart.spie /\ hart'.sscratch = hart.sscratch
      /\ hart'.pc = ret
  BY <1>1 DEF SwitchTp, Inv, Types, Fields
<1>5. t \in Tasks /\ DOMAIN context = {s \in Tasks : Alive(s)} \ {t}
  <2>1. t \in Tasks
    BY <1>2, KernelSps DEF Inv, Types, TypeOK
  <2>2. Running(Base) = {t}
    BY <1>1 DEF Base, Running
  <2> QED BY <2>1, <2>2 DEF Inv, Others
<1>6. Types'
  BY <1>3, <1>4, <1>5 DEF Inv, Types, TypeOK
<1>7. NewFrames' /\ SavedContexts' /\ NoneDeep' = NoneDeep
  BY <1>3, OnlyHartKeeps DEF Inv
<1>8. CASE ret.at \in Deep
  <2>1. /\ hart.sp = Level(t, 1) /\ hart.sp \in DOMAIN stack /\ kind[t] = "user"
        /\ UserFrame(stack[hart.sp], t) /\ hart.sp.n = 1
    BY <1>2, <1>8, LevelFields DEF Resumable, Deep
  <2>2. Bottom' = stack[hart.sp] /\ ~hart.sie /\ hart'.sp.of = t
    <3>1. hart'.sp.of = t /\ ~hart.sie
      BY <2>1, <1>1, <1>2, <1>4
    <3> QED BY <3>1, <2>1, <1>3 DEF Bottom
  <2>3. Frames'
    <3>1. UserFrame(Bottom, t)' /\ kind'[t] = "user"
      BY <2>1, <2>2, <1>3 DEF UserFrame
    <3> QED BY <3>1, <2>1, <2>2, <1>3, <1>4 DEF Frames
  <2>4. InTrap'
    <3>1. Leaving'
      BY <1>2, <1>4, <1>8 DEF Leaving, Deep, ExitPcs
    <3>2. hart'.pc.at \in {"pending", "poll"} /\ hart'.pc.at \in TrapPcs
      BY <1>4, <1>8 DEF Deep, TrapPcs
    <3>3. Bottom'.tp = t /\ Bottom'.spp = "U"
      BY <2>1, <2>2 DEF UserFrame
    <3>4. hart'.sp.area = "k" /\ hart'.sp.n = 1 /\ hart'.sp.n # 0 /\ hart'.mode = "S" /\ hart'.tp = t
      <4>1. hart.sp.area = "k" /\ hart.sp.n = 1
        BY <2>1, <1>2
      <4>2. hart'.sp = hart.sp /\ hart'.mode = "S" /\ hart'.tp = t
        BY <1>4
      <4>3. hart'.sp.area = "k" /\ hart'.sp.n = 1
        BY <4>1, <4>2
      <4> QED BY <4>2, <4>3
    <3> QED BY <3>1, <3>2, <3>3, <3>4, <2>3 DEF InTrap
  <2>5. ~Nested'
    BY <2>1, <2>2 DEF Nested, UserFrame
  <2>6. Others' /\ Masked'
    BY <2>2, <2>5, <1>3, <1>4, <1>5, <1>8 DEF Others, Base, Running, Alive, Masked, Deep
  <2> QED BY <2>4, <2>6, <1>6, <1>7 DEF Inv
<1>9. CASE ret.at \notin Deep
  <2>1. /\ ret.at \in {"shwait", "trampoline", "thread"} /\ hart.sp = Level(t, 0)
        /\ ret.at = "shwait" => t = Idle
        /\ ret.at # "shwait" => kind[t] \in {"new", "thread"}
    BY <1>2, <1>9, LevelFields DEF Resumable
  <2>2. InKernel'
    BY <2>1, <1>2, <1>3, <1>4, LevelFields DEF InKernel, KernelCode, KernelPcs
  <2>3. ~Nested'
    BY <2>1, <1>4 DEF Nested, TrapPcs, ExitPcs
  <2>4. Others' /\ Masked'
    BY <2>1, <2>3, <1>1, <1>3, <1>4, <1>5, <1>7, LevelFields
    DEF Others, Base, Running, Alive, Masked, KernelPcs
  <2> QED BY <2>2, <2>4, <1>6, <1>7 DEF Inv
<1> QED BY <1>8, <1>9

(***************************************************************************)
(* The first steps of a task, and what only moves the shell or a thread.   *)
(***************************************************************************)
LEMMA KernelMoves ==
  ASSUME Inv, OnlyHart, hart.mode = "S",
         hart.pc.at \in KernelPcs \ {"switch_load", "switch_tp"},
         hart'.pc.at \in KernelPcs \ {"switch_load", "switch_tp"},
         hart'.sp = hart.sp, hart'.tp = hart.tp, hart'.sie = hart.sie,
         Types', InKernel'
  PROVE  Inv'
<1>1. UNCHANGED <<stack, context, trapframe, kind>>
  BY DEF OnlyHart
<1>2. NewFrames' /\ SavedContexts' /\ NoneDeep' = NoneDeep
  BY OnlyHartKeeps DEF Inv
<1>3. ~Nested /\ ~Nested'
  BY DEF Nested, TrapPcs, ExitPcs, KernelPcs
<1>4. Running(Base) = {hart.tp} /\ Running(Base') = {hart.tp}
  BY <1>3 DEF Base, Running
<1>5. Others'
  BY <1>1, <1>4 DEF Inv, Others, Alive
<1>6. Masked'
  BY <1>2, <1>3 DEF Inv, Masked, KernelPcs, WindowPcs
<1> QED BY <1>2, <1>5, <1>6 DEF Inv

\* A kernel thread starts.
LEMMA TrampolineThreadInv ==
  ASSUME Inv, TrampolineThread
  PROVE  Inv'
<1>1. InKernel /\ KernelCode(hart) /\ hart.mode = "S" /\ hart.pc.at = "trampoline"
  BY KernelAt DEF TrampolineThread, KernelPcs
<1>2. UNCHANGED <<stack, context, trapframe, kind>> /\ OnlyHart
  BY DEF TrampolineThread, OnlyHart
<1>3. /\ DOMAIN hart' = Fields /\ hart'.mode = "S" /\ hart'.sp = hart.sp /\ hart'.tp = hart.tp
      /\ hart'.x = hart.x /\ hart'.sie = hart.sie /\ hart'.spp = hart.spp
      /\ hart'.spie = hart.spie /\ hart'.sscratch = hart.sscratch /\ hart'.pc.at = "thread"
  BY <1>1 DEF TrampolineThread, GoTo, At, Inv, Types, Fields
<1>4. Types'
  BY <1>2, <1>3 DEF Inv, Types, TypeOK
<1>5. InKernel'
  BY <1>1, <1>2, <1>3 DEF InKernel, KernelCode, KernelPcs
<1> QED BY <1>1, <1>2, <1>3, <1>4, <1>5, KernelMoves DEF KernelPcs

\* A process starts, on its way to return_to_user.
LEMMA UserProcessEntryInv ==
  ASSUME Inv, UserProcessEntry
  PROVE  Inv'
<1>1. InKernel /\ KernelCode(hart) /\ hart.mode = "S" /\ hart.pc.at = "trampoline"
  BY KernelAt DEF UserProcessEntry, KernelPcs
<1>2. UNCHANGED <<stack, context, trapframe, kind>> /\ OnlyHart /\ kind[hart.tp] = "new"
  BY DEF UserProcessEntry, OnlyHart
<1>3. KernelSp = Level(hart.tp, 0) /\ KernelSp \in SP /\ hart.tp \in Tasks
  BY LevelFields, LevelTyped, Depths DEF KernelSp, Inv, Types, TypeOK
<1>4. /\ DOMAIN hart' = Fields /\ hart'.mode = "S" /\ hart'.sp = hart.sp /\ hart'.tp = hart.tp
      /\ hart'.x = hart.x /\ hart'.sie = hart.sie /\ hart'.spp = hart.spp
      /\ hart'.spie = hart.spie /\ hart'.sscratch = KernelSp /\ hart'.pc.at = "rtu_sstatus"
  BY <1>1 DEF UserProcessEntry, At, Inv, Types, Fields
<1>5. Types'
  BY <1>2, <1>3, <1>4 DEF Inv, Types, TypeOK
<1>6. InKernel'
  BY <1>1, <1>2, <1>3, <1>4 DEF InKernel, KernelCode, KernelPcs
<1> QED BY <1>1, <1>2, <1>4, <1>5, <1>6, KernelMoves DEF KernelPcs

\* The frame that return_to_user reads.
LEMMA ReturnFrame ==
  ASSUME Inv, hart.mode = "S", hart.pc.at \in WindowPcs \cup {"rtu_sstatus"}
  PROVE  /\ hart.tp \in Tasks /\ kind[hart.tp] = "new" /\ hart.sscratch = Level(hart.tp, 0)
         /\ hart.tp \in DOMAIN trapframe /\ NewFrame(Frame, hart.tp)
         /\ ~Nested /\ Running(Base) = {hart.tp} /\ hart.tp \notin DOMAIN context
<1>1. /\ hart.tp \in Tasks /\ kind[hart.tp] = "new" /\ hart.sscratch = Level(hart.tp, 0)
  BY DEF Inv, Types, TypeOK, InKernel, KernelCode, InReturn, InUser, InTrap, KernelPcs,
         WindowPcs, TrapPcs, ExitPcs
<1>2. hart.tp \in DOMAIN trapframe /\ NewFrame(Frame, hart.tp)
  BY <1>1 DEF Inv, NewFrames, Frame
<1>3. ~Nested /\ Running(Base) = {hart.tp}
  BY DEF Nested, Base, Running, TrapPcs, ExitPcs, WindowPcs
<1> QED BY <1>1, <1>2, <1>3 DEF Inv, Others

\* Steps of return_to_user before its sret.
LEMMA ReturnMoves ==
  ASSUME Inv, OnlyHart, hart.mode = "S", hart.pc.at \in WindowPcs \cup {"rtu_sstatus"},
         hart'.tp = hart.tp, Types', InReturn'
  PROVE  Inv'
<1>1. UNCHANGED <<stack, context, trapframe, kind>>
  BY DEF OnlyHart
<1>2. NewFrames' /\ SavedContexts'
  BY OnlyHartKeeps DEF Inv
<1>3. ~Nested' /\ Running(Base') = {hart.tp}
  BY DEF InReturn, Nested, Base, Running, TrapPcs, ExitPcs, WindowPcs
<1>4. Running(Base) = {hart.tp}
  BY ReturnFrame
<1>5. Others'
  BY <1>1, <1>3, <1>4 DEF Inv, Others, Alive
<1>6. Masked'
  BY <1>3 DEF Masked, InReturn
<1> QED BY <1>2, <1>5, <1>6 DEF Inv

\* The steps of return_to_user that load CSRs and registers.
LEMMA ReturnToUserInv ==
  ASSUME Inv,
         ReturnToUserSstatus \/ ReturnToUserSepc \/ ReturnToUserRegs \/ ReturnToUserSp
  PROVE  Inv'
<1>1. hart.mode = "S" /\ hart.pc.at \in WindowPcs \cup {"rtu_sstatus"} /\ OnlyHart
  BY DEF ReturnToUserSstatus, ReturnToUserSepc, ReturnToUserRegs, ReturnToUserSp, PcIs, WindowPcs
<1>2. /\ hart.tp \in Tasks /\ kind[hart.tp] = "new" /\ hart.sscratch = Level(hart.tp, 0)
      /\ NewFrame(Frame, hart.tp)
  BY <1>1, ReturnFrame
<1>3. /\ Frame.spp = "U" /\ Frame.sie \in BOOLEAN /\ Frame.spie \in BOOLEAN
      /\ Frame.tp = hart.tp /\ Frame.sp \in SP /\ Frame.x \in UserX
  BY <1>2, UserSp DEF NewFrame
<1>4. DOMAIN hart = Fields
  BY DEF Inv, Types
<1>5. UNCHANGED <<stack, context, trapframe, kind>>
  BY <1>1 DEF OnlyHart
<1>6. CASE ReturnToUserSstatus
  <2>1. /\ DOMAIN hart' = Fields /\ hart'.mode = "S" /\ hart'.pc.at = "rtu_sepc"
        /\ hart'.sp = hart.sp /\ hart'.tp = hart.tp /\ hart'.x = hart.x
        /\ hart'.sie = Frame.sie /\ hart'.spp = Frame.spp /\ hart'.spie = Frame.spie
        /\ hart'.sscratch = hart.sscratch
    BY <1>1, <1>4, <1>6 DEF ReturnToUserSstatus, Fields, At
  <2>2. Types'
    BY <2>1, <1>3, <1>5 DEF Inv, Types, TypeOK
  <2>3. InReturn'
    BY <2>1, <1>2, <1>3, <1>5 DEF InReturn, WindowPcs
  <2> QED BY <2>1, <2>2, <2>3, <1>1, ReturnMoves
<1>7. CASE ~ReturnToUserSstatus
  <2>1. InReturn
    BY <1>1, <1>7
    DEF Inv, InKernel, KernelCode, InUser, InTrap, TrapPcs, ExitPcs, KernelPcs, WindowPcs,
        ReturnToUserSepc, ReturnToUserRegs, ReturnToUserSp, PcIs
  <2>2. CASE ReturnToUserSepc
    <3>1. /\ DOMAIN hart' = Fields /\ hart'.mode = "S" /\ hart'.pc.at = "rtu_regs"
          /\ hart'.sp = hart.sp /\ hart'.tp = hart.tp /\ hart'.x = hart.x
          /\ hart'.sie = hart.sie /\ hart'.spp = hart.spp /\ hart'.spie = hart.spie
          /\ hart'.sscratch = hart.sscratch /\ hart'.sepc = Frame.pc
      BY <2>2, <1>1, <1>4 DEF ReturnToUserSepc, Fields, At
    <3>2. Types'
      BY <3>1, <1>5 DEF Inv, Types, TypeOK
    <3>3. InReturn'
      BY <3>1, <2>1, <1>2, <1>5 DEF InReturn, WindowPcs, Frame
    <3> QED BY <3>1, <3>2, <3>3, <1>1, ReturnMoves
  <2>3. CASE ReturnToUserRegs
    <3>1. /\ DOMAIN hart' = Fields /\ hart'.mode = "S" /\ hart'.pc.at = "rtu_sp"
          /\ hart'.sp = hart.sp /\ hart'.tp = hart.tp /\ hart'.x = Frame.x
          /\ hart'.sie = hart.sie /\ hart'.spp = hart.spp /\ hart'.spie = hart.spie
          /\ hart'.sscratch = hart.sscratch /\ hart'.sepc = hart.sepc
      BY <2>3, <1>1, <1>3, <1>4 DEF ReturnToUserRegs, Fields, At
    <3>2. Types'
      BY <3>1, <1>3, <1>5 DEF Inv, Types, TypeOK, UserX
    <3>3. InReturn'
      BY <3>1, <2>1, <2>3, <1>2, <1>5 DEF InReturn, WindowPcs, Frame, ReturnToUserRegs, PcIs
    <3> QED BY <3>1, <3>2, <3>3, <1>1, ReturnMoves
  <2>4. CASE ReturnToUserSp
    <3>1. /\ DOMAIN hart' = Fields /\ hart'.mode = "S" /\ hart'.pc.at = "rtu_sret"
          /\ hart'.sp = Frame.sp /\ hart'.tp = hart.tp /\ hart'.x = hart.x
          /\ hart'.sie = hart.sie /\ hart'.spp = hart.spp /\ hart'.spie = hart.spie
          /\ hart'.sscratch = hart.sscratch /\ hart'.sepc = hart.sepc
      BY <2>4, <1>1, <1>4 DEF ReturnToUserSp, Fields, At
    <3>2. Types'
      BY <3>1, <1>3, <1>5 DEF Inv, Types, TypeOK
    <3>3. InReturn'
      BY <3>1, <2>1, <2>4, <1>2, <1>5 DEF InReturn, WindowPcs, Frame, ReturnToUserSp, PcIs
    <3> QED BY <3>1, <3>2, <3>3, <1>1, ReturnMoves
  <2> QED BY <2>2, <2>3, <2>4, <1>7
<1> QED BY <1>6, <1>7

\* The first sret of a process.
LEMMA ReturnToUserSretInv ==
  ASSUME Inv, ReturnToUserSret
  PROVE  Inv'
<1> PICK t : t = hart.tp
  OBVIOUS
<1>1. hart.mode = "S" /\ hart.pc.at = "rtu_sret" /\ DOMAIN hart = Fields
  BY DEF ReturnToUserSret, PcIs, Inv, Types
<1>2. /\ t \in Tasks /\ kind[t] = "new" /\ hart.sscratch = Level(t, 0)
      /\ NewFrame(Frame, t) /\ Running(Base) = {t} /\ t \notin DOMAIN context
  BY <1>1, ReturnFrame DEF WindowPcs
<1>3. InReturn
  BY <1>1
  DEF Inv, InKernel, KernelCode, InUser, InTrap, TrapPcs, ExitPcs, KernelPcs, WindowPcs
<1>4. /\ hart.sepc \in UserCode /\ hart.x \in UserX /\ hart.sp = Sp("u", t) /\ hart.spp = "U"
      /\ hart.sp \in SP
  BY <1>1, <1>2, <1>3, UserSp DEF InReturn, NewFrame
<1>5. /\ kind' = [kind EXCEPT ![t] = "user"] /\ trapframe' = Forget(trapframe, {t})
      /\ UNCHANGED <<stack, context>>
  BY DEF ReturnToUserSret
<1>6. /\ DOMAIN hart' = Fields /\ hart'.mode = "U" /\ hart'.pc = hart.sepc
      /\ hart'.sp = hart.sp /\ hart'.tp = t /\ hart'.x = hart.x
      /\ hart'.sie = hart.spie /\ hart'.spp = "U" /\ hart'.spie = TRUE
      /\ hart'.sscratch = hart.sscratch
  BY <1>1, <1>4 DEF ReturnToUserSret, Sret, Fields
<1>7. /\ DOMAIN trapframe' = DOMAIN trapframe \ {t}
      /\ \A i \in DOMAIN trapframe \ {t} : trapframe'[i] = trapframe[i]
  BY <1>5 DEF Forget
<1>8. kind'[t] = "user" /\ \A s \in Tasks : s # t => kind'[s] = kind[s]
  BY <1>2, <1>5 DEF Inv, Types, TypeOK
<1>9. Types'
  <2>1. /\ kind' \in [Tasks -> {"shell", "unused", "new", "user", "thread"}]
        /\ t # Idle /\ kind'[Idle] = "shell" /\ \A s \in Tasks : kind'[s] = "shell" => s = Idle
    BY <1>2, <1>5, <1>8 DEF Inv, Types, TypeOK, Tasks
  <2>2. hart.x \in {UserRegs(v) : v \in Values} \cup SP /\ hart.spie \in BOOLEAN /\ hart.sscratch \in SP
    BY <1>4 DEF Inv, Types, TypeOK, UserX
  <2>3. DOMAIN trapframe' \subseteq Tasks /\ DOMAIN context' \subseteq Tasks /\ DOMAIN stack' \subseteq SP
    BY <1>5, <1>7 DEF Inv, Types, TypeOK
  <2> QED BY <2>1, <2>2, <2>3, <1>2, <1>4, <1>6 DEF Types, TypeOK
<1>10. NewFrames'
  BY <1>7, <1>8, NewFramesKept DEF Inv
<1>11. DOMAIN context \subseteq Tasks \ {t}
  BY <1>2 DEF Inv, Types, TypeOK
<1>12. SavedContexts'
  BY <1>5, <1>8, <1>11, ContextsKept DEF Inv
<1>13. InUser'
  BY <1>2, <1>4, <1>6, <1>8 DEF InUser
<1>14. ~Nested' /\ Running(Base') = {t}
  BY <1>4, <1>6 DEF Nested, Base, Running, UserCode, At
<1>15. Others' /\ Masked'
  BY <1>2, <1>5, <1>6, <1>8, <1>14 DEF Inv, Others, Alive, Masked
<1> QED BY <1>9, <1>10, <1>12, <1>13, <1>15 DEF Inv

(***************************************************************************)
(* do_trap.                                                                *)
(***************************************************************************)
BodyPcs == {"timer", "external", "ecall", "poll", "pending"}

\* In the body of do_trap, interrupts are off and the registers are its own.
LEMMA BodyAt ==
  ASSUME Inv, NEW p \in BodyPcs, PcIs(p)
  PROVE  /\ InTrap /\ hart.mode = "S" /\ hart.pc.at = p /\ ~hart.sie /\ hart.x = hart.sp
         /\ hart.sp.area = "k" /\ hart.sp \in DOMAIN stack /\ DOMAIN hart = Fields
         /\ p \in {"ecall", "poll"} => FromUser
<1>1. InTrap /\ hart.mode = "S" /\ hart.pc.at = p /\ Types
  BY TrapAt DEF BodyPcs, TrapPcs, Inv
<1>2. ~hart.sie
  BY <1>1 DEF Inv, Masked, BodyPcs, KernelPcs, WindowPcs
<1>3. hart.x = hart.sp /\ hart.sp.area = "k"
  BY <1>1 DEF InTrap, Leaving, BodyPcs
<1>4. hart.sp \in DOMAIN stack /\ hart.sp = Level(hart.sp.of, hart.sp.n)
  BY <1>1, TrapLevels
<1>5. p \in {"ecall", "poll"} => FromUser
  BY <1>1, <1>4 DEF InTrap, Bottom, FromUser, Tf
<1> QED BY <1>1, <1>2, <1>3, <1>4, <1>5 DEF Types

\* A step of do_trap that stays in the trap.
LEMMA BodyMoves ==
  ASSUME Inv, NEW p \in BodyPcs, PcIs(p), OnlyHart,
         NEW q \in Deep, GoTo(At(q)), q = "poll" => FromUser
  PROVE  Inv'
<1>1. /\ InTrap /\ hart.mode = "S" /\ ~hart.sie /\ hart.x = hart.sp /\ DOMAIN hart = Fields
  BY BodyAt
<1>2. UNCHANGED <<stack, context, trapframe, kind>>
  BY DEF OnlyHart
<1>3. /\ DOMAIN hart' = Fields /\ hart'.mode = "S" /\ hart'.sp = hart.sp /\ hart'.tp = hart.tp
      /\ hart'.x = hart.x /\ hart'.sie = hart.sie /\ hart'.spp = hart.spp
      /\ hart'.spie = hart.spie /\ hart'.sscratch = hart.sscratch /\ hart'.pc.at = q
  BY <1>1 DEF GoTo, At, Fields
<1>4. Types'
  BY <1>2, <1>3 DEF Inv, Types, TypeOK
<1>5. Leaving'
  BY <1>1, <1>3 DEF Leaving, Deep, ExitPcs
<1>6. q = "poll" => hart.sp.n = 1 /\ Bottom.spp = "U"
  BY <1>1, UserTrap DEF FromUser
<1>7. q \in TrapPcs /\ q \in {"pending", "poll"}
  BY DEF Deep, TrapPcs
<1> QED BY <1>1, <1>3, <1>4, <1>5, <1>6, <1>7, TrapMoves

\* A step of do_trap that calls schedule().
LEMMA BodySchedules ==
  ASSUME Inv, NEW p \in BodyPcs, PcIs(p), OnlyHart, FromUser,
         NEW q \in Deep, Schedule(At(q))
  PROVE  Inv'
<1>1. /\ InTrap /\ hart.mode = "S" /\ ~hart.sie /\ hart.x = hart.sp /\ hart.sp.area = "k"
  BY BodyAt
<1>2. /\ ~Nested /\ hart.sp = Level(hart.tp, 1) /\ hart.sp.of = hart.tp
      /\ hart.sp \in DOMAIN stack /\ UserFrame(Tf, hart.tp) /\ kind[hart.tp] = "user"
      /\ Running(Base) = {hart.tp}
  BY <1>1, UserTrap
<1>3. Resumable(At(q), hart.sp)
  BY <1>2 DEF Resumable, Tf, At
<1>4. CASE GoTo(At(q))
  BY <1>4, BodyMoves
<1>5. CASE \E t \in Tasks \ {hart.tp} : Alive(t) /\ GoTo(Switch(t, At(q)))
  BY <1>1, <1>2, <1>3, <1>5, SwitchTo
<1> QED BY <1>4, <1>5 DEF Schedule

\* Interrupts and system calls that create and end nothing.
LEMMA TimerInv ==
  ASSUME Inv, Timer \/ External \/ SysOther \/ Poll
  PROVE  Inv'
<1>1. CASE Timer
  BY <1>1, BodyMoves, BodySchedules DEF Timer, Pending, BodyPcs, Deep
<1>2. CASE External
  BY <1>2, BodyMoves DEF External, Pending, BodyPcs, Deep
<1>3. CASE SysOther
  <2>1. FromUser
    BY <1>3, BodyAt DEF SysOther, BodyPcs
  <2> QED BY <1>3, <2>1, BodyMoves DEF SysOther, Pending, BodyPcs, Deep
<1>4. CASE Poll
  <2>1. FromUser
    BY <1>4, BodyAt DEF Poll, BodyPcs
  <2> QED BY <1>4, <2>1, BodyMoves, BodySchedules DEF Poll, Pending, BodyPcs, Deep
<1> QED BY <1>1, <1>2, <1>3, <1>4

\* exit.
LEMMA SysExitInv ==
  ASSUME Inv, SysExit
  PROVE  Inv'
<1>1. /\ InTrap /\ hart.mode = "S" /\ ~hart.sie /\ hart.x = hart.sp /\ hart.sp.area = "k"
      /\ FromUser
  BY BodyAt DEF SysExit, BodyPcs
<1>2. /\ ~Nested /\ hart.sp.of = hart.tp /\ kind[hart.tp] = "user" /\ Running(Base) = {hart.tp}
  BY <1>1, UserTrap
<1>3. hart.tp # Idle
  BY <1>2 DEF Inv, Types
<1> QED BY <1>1, <1>2, <1>3, ExitSwitch DEF SysExit

\* A new process waits in memory; nobody else is touched.
LEMMA NewProcessKeeps ==
  ASSUME Inv, NEW c \in Tasks, NEW tf, NewFrame(tf, c), NewProcess(c, tf)
  PROVE  /\ NewFrames' /\ SavedContexts' /\ (NoneDeep => NoneDeep')
         /\ stack' = stack /\ DOMAIN context' = DOMAIN context \cup {c}
         /\ kind'[c] = "new" /\ \A s \in Tasks : s # c => kind'[s] = kind[s]
         /\ kind' \in [Tasks -> {"shell", "unused", "new", "user", "thread"}]
         /\ kind'[Idle] = "shell" /\ \A s \in Tasks : kind'[s] = "shell" => s = Idle
         /\ DOMAIN trapframe' \subseteq Tasks /\ DOMAIN context' \subseteq Tasks
<1>1. /\ kind[c] = "unused" /\ c # Idle
      /\ kind' = [kind EXCEPT ![c] = "new"] /\ stack' = stack
      /\ context' = Put(context, c, NewContext(c)) /\ trapframe' = Put(trapframe, c, tf)
  BY DEF NewProcess, Alive, Inv, Types
<1>2. kind'[c] = "new" /\ \A s \in Tasks : s # c => kind'[s] = kind[s]
  BY <1>1 DEF Inv, Types, TypeOK
<1>3. /\ kind' \in [Tasks -> {"shell", "unused", "new", "user", "thread"}]
      /\ kind'[Idle] = "shell" /\ \A s \in Tasks : kind'[s] = "shell" => s = Idle
  BY <1>1, <1>2, Depths DEF Inv, Types, TypeOK, Idle
<1>4. /\ DOMAIN trapframe' = DOMAIN trapframe \cup {c} /\ trapframe'[c] = tf
      /\ \A i \in DOMAIN trapframe : i # c => trapframe'[i] = trapframe[i]
  BY <1>1 DEF Put
<1> PICK new : new = NewContext(c)
  OBVIOUS
<1>5. /\ new.ra.at = "trampoline" /\ new.sp = Level(c, 0) /\ new.x = new.sp /\ new.sp.of = c
  BY LevelFields DEF NewContext, At, KernelRegs
<1>6. context' = Put(context, c, new)
  BY <1>1
<1>7. /\ DOMAIN context' = DOMAIN context \cup {c} /\ context'[c] = new
      /\ \A i \in DOMAIN context : i # c => context'[i] = context[i]
  BY <1>6 DEF Put
<1>8. NewFrames'
  BY <1>2, <1>4 DEF Inv, NewFrames, NewFrame
<1>9. c \notin DOMAIN context /\ \A t \in DOMAIN context : t \in Tasks /\ t # c
  BY <1>1 DEF Inv, Others, Alive
<1>10. SavedContexts'
  <2>1. ASSUME NEW t \in DOMAIN context
        PROVE  /\ context'[t].sp.of = t /\ context'[t].x = context'[t].sp
               /\ Resumable(context[t].ra, context[t].sp)'
    <3>1. context'[t] = context[t] /\ kind'[t] = kind[t]
      BY <1>2, <1>7, <1>9
    <3>2. /\ context[t].sp.of = t /\ context[t].x = context[t].sp
          /\ Resumable(context[t].ra, context[t].sp)
      BY DEF Inv, SavedContexts
    <3> QED BY <3>1, <3>2, <1>1 DEF Resumable, UserFrame
  <2>2. Resumable(context[c].ra, context[c].sp)'
    BY <1>2, <1>5, <1>7 DEF Resumable
  <2> QED BY <2>1, <2>2, <1>5, <1>7 DEF SavedContexts
<1>11. NoneDeep => NoneDeep'
  BY <1>5, <1>7 DEF NoneDeep, Deep
<1> QED
  BY <1>1, <1>2, <1>3, <1>4, <1>7, <1>8, <1>10, <1>11 DEF Inv, Types, TypeOK

\* fork.
LEMMA SysForkInv ==
  ASSUME Inv, SysFork
  PROVE  Inv'
<1> PICK t : t = hart.tp
  OBVIOUS
<1>1. /\ InTrap /\ hart.mode = "S" /\ ~hart.sie /\ hart.x = hart.sp /\ hart.sp.area = "k"
      /\ FromUser /\ DOMAIN hart = Fields /\ hart.pc.at = "ecall"
  BY BodyAt DEF SysFork, BodyPcs
<1>2. /\ ~Nested /\ hart.sp.n = 1 /\ hart.sp = Level(t, 1) /\ hart.sp.of = t
      /\ hart.sp \in DOMAIN stack /\ UserFrame(Tf, t) /\ Bottom = Tf
      /\ t \in Tasks /\ kind[t] = "user" /\ Running(Base) = {t}
  BY <1>1, UserTrap
<1>3. PICK c \in Tasks : NewProcess(c, ForkFrame(Tf, c))
  BY DEF SysFork
<1>4. NewFrame(ForkFrame(Tf, c), c)
  <2> PICK f, g : f = Tf /\ g = ForkFrame(f, c)
    OBVIOUS
  <2>1. /\ DOMAIN f = FrameFields /\ f.spp = "U" /\ f.sie = FALSE /\ f.spie \in BOOLEAN
        /\ f.sp = Sp("u", t) /\ f.x \in UserX /\ f.pc \in UserCode
    BY <1>2 DEF UserFrame
  <2>2. /\ g.spp = f.spp /\ g.sie = f.sie /\ g.spie = f.spie /\ g.tp = c
        /\ g.x = f.x /\ g.pc = f.pc
    BY <2>1 DEF ForkFrame, FrameFields
  <2>3. g.sp = [f.sp EXCEPT !.of = c]
    BY <2>1 DEF ForkFrame, FrameFields
  <2>4. g.sp = Sp("u", c)
    BY <2>1, <2>3 DEF Sp
  <2> QED BY <2>1, <2>2, <2>4 DEF NewFrame
<1>5. /\ NewFrames' /\ SavedContexts' /\ (NoneDeep => NoneDeep')
      /\ stack' = stack /\ DOMAIN context' = DOMAIN context \cup {c}
      /\ kind'[c] = "new" /\ \A s \in Tasks : s # c => kind'[s] = kind[s]
      /\ kind' \in [Tasks -> {"shell", "unused", "new", "user", "thread"}]
      /\ kind'[Idle] = "shell" /\ \A s \in Tasks : kind'[s] = "shell" => s = Idle
      /\ DOMAIN trapframe' \subseteq Tasks /\ DOMAIN context' \subseteq Tasks
  BY <1>3, <1>4, NewProcessKeeps
<1>6. c # t /\ kind[c] = "unused"
  BY <1>2, <1>3 DEF NewProcess, Alive
<1>7. /\ DOMAIN hart' = Fields /\ hart'.mode = "S" /\ hart'.sp = hart.sp /\ hart'.tp = t
      /\ hart'.x = hart.x /\ hart'.sie = hart.sie /\ hart'.spp = hart.spp
      /\ hart'.spie = hart.spie /\ hart'.sscratch = hart.sscratch /\ hart'.pc.at = "pending"
  BY <1>1 DEF SysFork, GoTo, Pending, At, Fields
<1>8. Types'
  BY <1>5, <1>7 DEF Inv, Types, TypeOK
<1>9. Bottom' = Bottom /\ Bottom.spp = "U" /\ Bottom.tp = t
  BY <1>2, <1>5, <1>7 DEF Bottom, UserFrame
<1>10. Frames'
  <2>1. UserFrame(Bottom, t)' /\ kind'[t] = "user"
    BY <1>2, <1>5, <1>6, <1>9 DEF UserFrame
  <2> QED BY <2>1, <1>2, <1>5, <1>7 DEF Frames
<1>11. InTrap'
  <2>1. Leaving'
    BY <1>1, <1>7 DEF Leaving, ExitPcs
  <2> QED BY <2>1, <1>1, <1>2, <1>7, <1>9, <1>10 DEF InTrap, TrapPcs
<1>12. ~Nested'
  BY <1>9 DEF Nested
<1>13. Others'
  BY <1>2, <1>5, <1>6, <1>7, <1>12 DEF Inv, Others, Base, Running, Alive
<1>14. Masked'
  BY <1>1, <1>7, <1>12 DEF Masked
<1> QED BY <1>5, <1>8, <1>11, <1>13, <1>14 DEF Inv

\* exec.
LEMMA SysExecInv ==
  ASSUME Inv, SysExec
  PROVE  Inv'
<1> PICK t : t = hart.tp
  OBVIOUS
<1>1. /\ InTrap /\ hart.mode = "S" /\ ~hart.sie /\ hart.x = hart.sp /\ hart.sp.area = "k"
      /\ FromUser /\ DOMAIN hart = Fields /\ hart.pc.at = "ecall"
  BY BodyAt DEF SysExec, BodyPcs
<1>2. /\ ~Nested /\ hart.sp.n = 1 /\ hart.sp = Level(t, 1) /\ hart.sp.of = t
      /\ hart.sp \in DOMAIN stack /\ t \in Tasks /\ kind[t] = "user"
      /\ Running(Base) = {t} /\ t \notin DOMAIN context
  BY <1>1, UserTrap
<1> PICK f : f = FreshFrame(t)
  OBVIOUS
<1>3. UserFrame(f, t)
  BY <1>1, <1>2, TrapAssumption
  DEF FreshFrame, FrameFields, UserFrame, UserX, UserCode, Inv, Types, TypeOK
<1>4. stack' = Put(stack, hart.sp, f) /\ UNCHANGED <<context, trapframe, kind>>
  BY DEF SysExec
<1> PICK top : top = hart.sp
  OBVIOUS
<1>5. /\ DOMAIN stack' = DOMAIN stack /\ stack'[top] = f
      /\ \A p \in DOMAIN stack : p # top => stack'[p] = stack[p]
  <2>1. stack' = Put(stack, top, f)
    BY <1>4
  <2> QED BY <2>1, <1>2 DEF Put
<1>6. /\ DOMAIN hart' = Fields /\ hart'.mode = "S" /\ hart'.sp = hart.sp /\ hart'.tp = t
      /\ hart'.x = hart.x /\ hart'.sie = hart.sie /\ hart'.spp = hart.spp
      /\ hart'.spie = hart.spie /\ hart'.sscratch = hart.sscratch /\ hart'.pc.at = "pending"
  BY <1>1 DEF SysExec, GoTo, Pending, At, Fields
<1>7. Types'
  BY <1>4, <1>5, <1>6 DEF Inv, Types, TypeOK
<1>8. NewFrames'
  BY <1>4, NewFramesKept DEF Inv
<1>9. SavedContexts'
  <2>1. \A s \in DOMAIN context : Level(s, 1) # top
    BY <1>2, LevelFields
  <2> QED BY <2>1, <1>4, <1>5, ContextsKept DEF Inv
<1>10. Bottom' = f /\ f.spp = "U" /\ f.tp = t
  BY <1>2, <1>3, <1>5, <1>6 DEF Bottom, UserFrame
<1>11. Frames'
  <2>1. UserFrame(Bottom, t)' /\ kind'[t] = "user"
    BY <1>2, <1>3, <1>4, <1>10 DEF UserFrame
  <2> QED BY <2>1, <1>2, <1>5, <1>6 DEF Frames
<1>12. InTrap'
  <2>1. Leaving'
    BY <1>1, <1>6 DEF Leaving, ExitPcs
  <2> QED BY <2>1, <1>1, <1>2, <1>6, <1>10, <1>11 DEF InTrap, TrapPcs
<1>13. ~Nested'
  BY <1>10 DEF Nested
<1>14. Others'
  BY <1>2, <1>4, <1>6, <1>13 DEF Inv, Others, Base, Running, Alive
<1>15. Masked'
  BY <1>1, <1>6, <1>13 DEF Masked
<1> QED BY <1>7, <1>8, <1>9, <1>12, <1>14, <1>15 DEF Inv

\* The end of another process.
LEMMA SysStopInv ==
  ASSUME Inv, SysStop
  PROVE  Inv'
<1> PICK t : t = hart.tp
  OBVIOUS
<1>1. /\ InTrap /\ hart.mode = "S" /\ ~hart.sie /\ hart.x = hart.sp /\ hart.sp.area = "k"
      /\ FromUser /\ DOMAIN hart = Fields /\ hart.pc.at = "ecall"
  BY BodyAt DEF SysStop, BodyPcs
<1>2. /\ ~Nested /\ hart.sp.n = 1 /\ hart.sp = Level(t, 1) /\ hart.sp.of = t
      /\ hart.sp \in DOMAIN stack /\ UserFrame(Tf, t) /\ Bottom = Tf
      /\ t \in Tasks /\ kind[t] = "user" /\ Running(Base) = {t}
  BY <1>1, UserTrap
<1>3. PICK s \in Tasks \ {Idle, t} :
        /\ kind' = [kind EXCEPT ![s] = "unused"] /\ stack' = Forget(stack, FramesOf(s))
        /\ context' = Forget(context, {s}) /\ trapframe' = Forget(trapframe, {s})
  BY DEF SysStop
<1>4. /\ DOMAIN stack' = DOMAIN stack \ FramesOf(s)
      /\ \A p \in DOMAIN stack \ FramesOf(s) : stack'[p] = stack[p]
  BY <1>3 DEF Forget
<1>5. /\ DOMAIN context' = DOMAIN context \ {s}
      /\ \A u \in DOMAIN context \ {s} : context'[u] = context[u]
  BY <1>3 DEF Forget
<1>6. /\ DOMAIN trapframe' = DOMAIN trapframe \ {s}
      /\ \A u \in DOMAIN trapframe \ {s} : trapframe'[u] = trapframe[u]
  BY <1>3 DEF Forget
<1>7. kind'[s] = "unused" /\ \A u \in Tasks : u # s => kind'[u] = kind[u]
  BY <1>3 DEF Inv, Types, TypeOK
<1>8. /\ DOMAIN hart' = Fields /\ hart'.mode = "S" /\ hart'.sp = hart.sp /\ hart'.tp = t
      /\ hart'.x = hart.x /\ hart'.sie = hart.sie /\ hart'.spp = hart.spp
      /\ hart'.spie = hart.spie /\ hart'.sscratch = hart.sscratch /\ hart'.pc.at = "pending"
  BY <1>1 DEF SysStop, GoTo, Pending, At, Fields
<1>9. Types'
  <2>1. /\ kind' \in [Tasks -> {"shell", "unused", "new", "user", "thread"}]
        /\ kind'[Idle] = "shell" /\ \A u \in Tasks : kind'[u] = "shell" => u = Idle
    BY <1>3, <1>7, Depths DEF Inv, Types, TypeOK, Idle
  <2> QED BY <2>1, <1>4, <1>5, <1>6, <1>8 DEF Inv, Types, TypeOK
<1>10. NewFrames'
  BY <1>6, <1>7, NewFramesKept DEF Inv
<1>11. SavedContexts'
  <2>1. SUFFICES ASSUME NEW u \in DOMAIN context'
                 PROVE  (/\ context[u].sp.of = u /\ context[u].x = context[u].sp
                         /\ Resumable(context[u].ra, context[u].sp))'
    BY DEF SavedContexts
  <2>2. /\ u \in Tasks /\ u # s /\ context'[u] = context[u] /\ kind'[u] = kind[u]
        /\ context[u].sp.of = u /\ context[u].x = context[u].sp
        /\ Resumable(context[u].ra, context[u].sp)
    BY <1>5, <1>7 DEF Inv, SavedContexts, Types, TypeOK
  <2>3. \A p \in DOMAIN stack : p.of = u => p \in DOMAIN stack' /\ stack'[p] = stack[p]
    BY <2>2, <1>4 DEF FramesOf
  <2> QED BY <2>2, <2>3 DEF Resumable, UserFrame
<1>12. NoneDeep => NoneDeep'
  BY <1>5 DEF NoneDeep
<1>13. hart.sp \in DOMAIN stack' /\ stack'[hart.sp] = stack[hart.sp]
  BY <1>2, <1>3, <1>4 DEF FramesOf
<1>14. Bottom' = Bottom /\ Bottom.spp = "U" /\ Bottom.tp = t
  BY <1>2, <1>8, <1>13 DEF Bottom, UserFrame
<1>15. Frames'
  <2>1. UserFrame(Bottom, t)' /\ kind'[t] = "user"
    BY <1>2, <1>3, <1>7, <1>14 DEF UserFrame
  <2> QED BY <2>1, <1>2, <1>8, <1>13 DEF Frames
<1>16. InTrap'
  <2>1. Leaving'
    BY <1>1, <1>8 DEF Leaving, ExitPcs
  <2> QED BY <2>1, <1>1, <1>2, <1>8, <1>14, <1>15 DEF InTrap, TrapPcs
<1>17. ~Nested'
  BY <1>14 DEF Nested
<1>18. Others'
  BY <1>2, <1>3, <1>5, <1>7, <1>8, <1>17 DEF Inv, Others, Base, Running, Alive
<1>19. Masked'
  BY <1>1, <1>8, <1>17 DEF Masked
<1> QED BY <1>9, <1>10, <1>11, <1>16, <1>18, <1>19 DEF Inv

\* A callback starts and ends.
LEMMA CallbackInv ==
  ASSUME Inv, RunCallback \/ CallbackEnds
  PROVE  Inv'
<1>1. /\ InTrap /\ hart.mode = "S" /\ hart.pc.at \in {"pending", "callback"}
      /\ OnlyHart /\ DOMAIN hart = Fields
  BY TrapAt DEF RunCallback, CallbackEnds, TrapPcs, Inv, Types
<1>2. hart.x = hart.sp
  BY <1>1 DEF InTrap, Leaving
<1>3. UNCHANGED <<stack, context, trapframe, kind>>
  BY <1>1 DEF OnlyHart
<1>4. /\ DOMAIN hart' = Fields /\ hart'.mode = "S" /\ hart'.sp = hart.sp /\ hart'.tp = hart.tp
      /\ hart'.x = hart.x /\ hart'.sie \in BOOLEAN /\ hart'.spp = hart.spp
      /\ hart'.spie = hart.spie /\ hart'.sscratch = hart.sscratch
      /\ \/ hart'.pc.at = "callback" /\ hart'.pc.of = hart.sp
         \/ hart'.pc.at = "pending" /\ ~hart'.sie
  <2>1. CASE RunCallback
    BY <2>1, <1>1 DEF RunCallback, Fields
  <2>2. CASE CallbackEnds
    BY <2>2, <1>1 DEF CallbackEnds, Fields, Pending, At
  <2> QED BY <2>1, <2>2
<1>5. Types'
  BY <1>3, <1>4 DEF Inv, Types, TypeOK
<1>6. Leaving' /\ hart'.pc.at \in TrapPcs
  BY <1>2, <1>4 DEF Leaving, TrapPcs, ExitPcs
<1> QED BY <1>1, <1>4, <1>5, <1>6, TrapMoves

\* What leaves everything as it is.
LEMMA Stutter ==
  ASSUME Inv, UNCHANGED vars
  PROVE  Inv'
<1>1. hart' = hart /\ UNCHANGED <<stack, context, trapframe, kind>> /\ OnlyHart
  BY DEF vars, OnlyHart
<1>2. Types'
  BY <1>1 DEF Inv, Types, TypeOK
<1>3. NewFrames' /\ SavedContexts' /\ NoneDeep' = NoneDeep
  BY <1>1, OnlyHartKeeps DEF Inv
<1>4. InKernel => InKernel'
  BY <1>1 DEF InKernel, KernelCode, Resumable, UserFrame, Alive
<1>5. InReturn => InReturn'
  BY <1>1 DEF InReturn, Frame
<1>6. InUser => InUser'
  BY <1>1 DEF InUser
<1>7. Bottom' = Bottom /\ Tf' = Tf
  BY <1>1 DEF Bottom, Tf
<1>8. InTrap => InTrap'
  <2>1. Leaving => Leaving'
    BY <1>1, <1>7 DEF Leaving
  <2>2. Frames => Frames'
    BY <1>1, <1>7, FramesKept
  <2> QED BY <2>1, <2>2, <1>1, <1>7 DEF InTrap
<1>9. Nested' = Nested /\ Running(Base') = Running(Base)
  BY <1>1, <1>7 DEF Nested, Base, Running
<1>10. Others' /\ Masked'
  BY <1>1, <1>3, <1>9 DEF Inv, Others, Alive, Masked
<1> QED BY <1>2, <1>3, <1>4, <1>5, <1>6, <1>8, <1>10 DEF Inv

(***************************************************************************)
(* Kernel threads, the shell, and user programs.                           *)
(***************************************************************************)
LEMMA ThreadInv ==
  ASSUME Inv, Thread
  PROVE  Inv'
<1>1. /\ InKernel /\ KernelCode(hart) /\ hart.mode = "S" /\ hart.pc.at = "thread"
      /\ ~Nested /\ hart.sp.area = "k" /\ hart.x = hart.sp
      /\ hart.sie => hart.sp.n = 0 /\ NoneDeep
  BY KernelAt DEF Thread, KernelPcs
<1>2. /\ hart.sp.of = hart.tp /\ hart.sp.n = 0 /\ kind[hart.tp] \in {"new", "thread"}
      /\ hart.tp # Idle /\ Running(Base) = {hart.tp}
  BY <1>1 DEF KernelCode, Base, Running, Inv, Types
<1>3. hart.sp = Level(hart.tp, 0)
  BY <1>1, <1>2, KernelSps DEF Inv, Types, TypeOK
<1>4. CASE ThreadExit
  BY <1>1, <1>2, <1>4, ExitSwitch
<1>5. CASE Schedule(At("thread")) /\ OnlyHart
  <2>1. CASE GoTo(At("thread"))
    <3>1. UNCHANGED <<stack, context, trapframe, kind>>
      BY <1>5 DEF OnlyHart
    <3>2. /\ DOMAIN hart' = Fields /\ hart'.mode = "S" /\ hart'.sp = hart.sp
          /\ hart'.tp = hart.tp /\ hart'.x = hart.x /\ hart'.sie = hart.sie
          /\ hart'.spp = hart.spp /\ hart'.spie = hart.spie
          /\ hart'.sscratch = hart.sscratch /\ hart'.pc.at = "thread"
      BY <2>1, <1>1 DEF GoTo, At, Inv, Types, Fields
    <3>3. Types'
      BY <3>1, <3>2 DEF Inv, Types, TypeOK
    <3>4. InKernel'
      BY <3>1, <3>2, <1>1, <1>2 DEF InKernel, KernelCode, KernelPcs
    <3> QED BY <3>2, <3>3, <3>4, <1>1, <1>5, KernelMoves DEF KernelPcs
  <2>2. CASE \E t \in Tasks \ {hart.tp} : Alive(t) /\ GoTo(Switch(t, At("thread")))
    <3>1. Resumable(At("thread"), hart.sp)
      BY <1>2, <1>3 DEF Resumable, At
    <3> QED BY <3>1, <2>2, <1>1, <1>2, <1>5, SwitchTo
  <2> QED BY <2>1, <2>2, <1>5 DEF Schedule
<1> QED BY <1>4, <1>5 DEF Thread

\* The shell runs outside of traps, as itself, on its own empty stack.
LEMMA ShellAt ==
  ASSUME Inv, NEW p \in {"prompt", "shwait"}, PcIs(p)
  PROVE  /\ InKernel /\ hart.mode = "S" /\ hart.pc.at = p /\ DOMAIN hart = Fields
         /\ ~Nested /\ hart.sp = Level(Idle, 0) /\ hart.tp = Idle /\ hart.x = hart.sp
         /\ hart.sp.area = "k" /\ hart.sp.of = hart.tp /\ hart.sp.n = 0
         /\ Running(Base) = {Idle} /\ (hart.sie => NoneDeep)
<1>1. /\ InKernel /\ KernelCode(hart) /\ hart.mode = "S" /\ hart.pc.at = p
      /\ ~Nested /\ hart.sp.area = "k" /\ hart.x = hart.sp
      /\ hart.sie => hart.sp.n = 0 /\ NoneDeep
  BY KernelAt DEF KernelPcs
<1>2. hart.sp = Level(Idle, 0) /\ hart.sp.of = hart.tp
  BY <1>1 DEF KernelCode
<1>3. hart.sp.of = Idle /\ hart.sp.n = 0
  BY <1>2, LevelFields
<1>4. Running(Base) = {hart.tp}
  BY <1>1 DEF Base, Running
<1> QED BY <1>1, <1>2, <1>3, <1>4 DEF Inv, Types

\* The shell has only moved, or changed what waits in memory.
LEMMA ShellMoves ==
  ASSUME Inv, PcIs("prompt") \/ PcIs("shwait"), NEW pc, GoTo(pc), pc.at \in {"prompt", "shwait"}
  PROVE  /\ DOMAIN hart' = Fields /\ hart'.mode = "S" /\ hart'.sp = hart.sp
         /\ hart'.tp = Idle /\ hart'.x = hart.x /\ hart'.sie = hart.sie
         /\ hart'.spp = hart.spp /\ hart'.spie = hart.spie
         /\ hart'.sscratch = hart.sscratch /\ hart'.pc.at = pc.at
         /\ InKernel' /\ ~Nested' /\ Running(Base') = {Idle}
<1>1. /\ hart.mode = "S" /\ DOMAIN hart = Fields
      /\ hart.sp = Level(Idle, 0) /\ hart.tp = Idle /\ hart.x = hart.sp
      /\ hart.sp.area = "k" /\ hart.sp.of = hart.tp
  BY ShellAt
<1>2. /\ DOMAIN hart' = Fields /\ hart'.mode = "S" /\ hart'.sp = hart.sp
      /\ hart'.tp = Idle /\ hart'.x = hart.x /\ hart'.sie = hart.sie
      /\ hart'.spp = hart.spp /\ hart'.spie = hart.spie
      /\ hart'.sscratch = hart.sscratch /\ hart'.pc.at = pc.at
  BY <1>1 DEF GoTo, Fields
<1>3. InKernel'
  BY <1>1, <1>2 DEF InKernel, KernelCode, KernelPcs
<1>4. ~Nested'
  BY <1>2 DEF Nested, TrapPcs, ExitPcs
<1>5. Running(Base') = {Idle}
  BY <1>2, <1>4 DEF Base, Running
<1> QED BY <1>2, <1>3, <1>4, <1>5

\* The shell creates a process.
LEMMA ShellRunInv ==
  ASSUME Inv, ShellRun
  PROVE  Inv'
<1>1. PICK t \in Tasks : NewProcess(t, FreshFrame(t)) /\ GoTo(ShellWaits({t}))
  BY DEF ShellRun
<1>2. /\ ~Nested /\ Running(Base) = {Idle} /\ (hart.sie => NoneDeep) /\ hart.sp.n = 0
      /\ hart.tp = Idle
  BY ShellAt DEF ShellRun
<1>3. NewFrame(FreshFrame(t), t)
  BY TrapAssumption DEF FreshFrame, NewFrame, UserX, UserCode, Inv, Types, TypeOK
<1>4. /\ NewFrames' /\ SavedContexts' /\ (NoneDeep => NoneDeep')
      /\ stack' = stack /\ DOMAIN context' = DOMAIN context \cup {t}
      /\ kind'[t] = "new" /\ \A s \in Tasks : s # t => kind'[s] = kind[s]
      /\ kind' \in [Tasks -> {"shell", "unused", "new", "user", "thread"}]
      /\ kind'[Idle] = "shell" /\ \A s \in Tasks : kind'[s] = "shell" => s = Idle
      /\ DOMAIN trapframe' \subseteq Tasks /\ DOMAIN context' \subseteq Tasks
  BY <1>1, <1>3, NewProcessKeeps
<1>5. /\ DOMAIN hart' = Fields /\ hart'.mode = "S" /\ hart'.sp = hart.sp
      /\ hart'.tp = Idle /\ hart'.x = hart.x /\ hart'.sie = hart.sie
      /\ hart'.spp = hart.spp /\ hart'.spie = hart.spie
      /\ hart'.sscratch = hart.sscratch /\ hart'.pc.at = "shwait"
      /\ InKernel' /\ ~Nested' /\ Running(Base') = {Idle}
  <2>1. ShellWaits({t}).at = "shwait"
    BY DEF ShellWaits
  <2> QED BY <2>1, <1>1, ShellMoves DEF ShellRun
<1>6. Types'
  BY <1>2, <1>4, <1>5 DEF Inv, Types, TypeOK
<1>7. t # Idle
  BY <1>4 DEF Inv, Types
<1>8. Others'
  BY <1>2, <1>4, <1>5, <1>7 DEF Inv, Others, Alive
<1>9. Masked'
  BY <1>2, <1>4, <1>5 DEF Masked, KernelPcs
<1> QED BY <1>4, <1>5, <1>6, <1>8, <1>9 DEF Inv

\* The shell creates the threads of its test.
LEMMA ShellThreadsInv ==
  ASSUME Inv, ShellThreads
  PROVE  Inv'
<1> PICK new : new = {t \in Tasks : ~Alive(t)}
  OBVIOUS
<1>1. /\ kind' = [t \in Tasks |-> IF t \in new THEN "thread" ELSE kind[t]]
      /\ context' = [t \in DOMAIN context \cup new |->
                       IF t \in new THEN NewContext(t) ELSE context[t]]
      /\ GoTo(ShellWaits(new)) /\ UNCHANGED <<stack, trapframe>>
  BY DEF ShellThreads
<1>2. /\ ~Nested /\ Running(Base) = {Idle} /\ (hart.sie => NoneDeep) /\ hart.sp.n = 0
      /\ hart.tp = Idle
  BY ShellAt DEF ShellThreads
<1>3. /\ DOMAIN hart' = Fields /\ hart'.mode = "S" /\ hart'.sp = hart.sp
      /\ hart'.tp = Idle /\ hart'.x = hart.x /\ hart'.sie = hart.sie
      /\ hart'.spp = hart.spp /\ hart'.spie = hart.spie
      /\ hart'.sscratch = hart.sscratch /\ hart'.pc.at = "shwait"
      /\ InKernel' /\ ~Nested' /\ Running(Base') = {Idle}
  <2>1. ShellWaits(new).at = "shwait"
    BY DEF ShellWaits
  <2> QED BY <2>1, <1>1, ShellMoves DEF ShellThreads
<1>4. new \subseteq Tasks /\ Idle \notin new /\ \A t \in new : kind[t] = "unused"
  BY DEF Alive, Inv, Types
<1>5. /\ \A t \in new : kind'[t] = "thread"
      /\ \A t \in Tasks \ new : kind'[t] = kind[t]
  BY <1>1, <1>4
<1>6. \A t \in DOMAIN context : t \in Tasks \ new
  BY <1>4 DEF Inv, Others, Alive
<1>7. /\ DOMAIN context' = DOMAIN context \cup new
      /\ \A t \in new : context'[t] = NewContext(t)
      /\ \A t \in DOMAIN context : context'[t] = context[t]
  BY <1>1, <1>6
<1>8. Types'
  <2>1. /\ kind' \in [Tasks -> {"shell", "unused", "new", "user", "thread"}]
        /\ kind'[Idle] = "shell" /\ \A t \in Tasks : kind'[t] = "shell" => t = Idle
    BY <1>1, <1>4, <1>5, Depths DEF Inv, Types, TypeOK, Idle
  <2>2. DOMAIN context' \subseteq Tasks /\ DOMAIN trapframe' \subseteq Tasks /\ stack' = stack
    BY <1>1, <1>4, <1>7 DEF Inv, Types, TypeOK
  <2>3. /\ hart'.mode \in {"S", "U"} /\ hart'.spp \in {"S", "U"} /\ hart'.sp \in SP
        /\ hart'.sscratch \in SP /\ hart'.tp \in Tasks /\ hart'.sie \in BOOLEAN
        /\ hart'.spie \in BOOLEAN /\ hart'.x \in {UserRegs(v) : v \in Values} \cup SP
    BY <1>2, <1>3 DEF Inv, Types, TypeOK
  <2>4. DOMAIN stack' \subseteq SP
    BY <2>2 DEF Inv, Types, TypeOK
  <2> QED BY <2>1, <2>2, <2>3, <2>4, <1>3 DEF Types, TypeOK
<1>9. NewFrames'
  BY <1>1, <1>5, NewFramesKept DEF Inv
<1>10. \A t \in new : /\ NewContext(t).ra.at = "trampoline" /\ NewContext(t).sp = Level(t, 0)
                      /\ NewContext(t).sp.of = t /\ NewContext(t).x = NewContext(t).sp
  BY LevelFields DEF NewContext, At, KernelRegs
<1>11. SavedContexts'
  <2>1. ASSUME NEW t \in DOMAIN context
        PROVE  /\ context'[t].sp.of = t /\ context'[t].x = context'[t].sp
               /\ Resumable(context[t].ra, context[t].sp)'
    <3>1. context'[t] = context[t] /\ kind'[t] = kind[t]
      BY <1>5, <1>6, <1>7
    <3>2. /\ context[t].sp.of = t /\ context[t].x = context[t].sp
          /\ Resumable(context[t].ra, context[t].sp)
      BY DEF Inv, SavedContexts
    <3> QED BY <3>1, <3>2, <1>1 DEF Resumable, UserFrame
  <2>2. ASSUME NEW t \in new
        PROVE  /\ context'[t].sp.of = t /\ context'[t].x = context'[t].sp
               /\ Resumable(context[t].ra, context[t].sp)'
    <3>1. /\ context'[t].ra.at = "trampoline" /\ context'[t].sp = Level(t, 0)
          /\ context'[t].sp.of = t /\ context'[t].x = context'[t].sp
      BY <1>7, <1>10
    <3> QED BY <3>1, <1>5 DEF Resumable
  <2> QED BY <2>1, <2>2, <1>7 DEF SavedContexts
<1>12. NoneDeep => NoneDeep'
  <2>1. \A t \in new : context'[t].ra.at = "trampoline"
    BY <1>7, <1>10
  <2> QED BY <2>1, <1>7 DEF NoneDeep, Deep
<1>13. Others'
  BY <1>2, <1>3, <1>4, <1>5, <1>7 DEF Inv, Others, Alive
<1>14. Masked'
  BY <1>2, <1>3, <1>12 DEF Masked, KernelPcs
<1> QED BY <1>3, <1>8, <1>9, <1>11, <1>13, <1>14 DEF Inv

\* The shell waits for what it started: it lets others run, or is done.
LEMMA ShellWaitInv ==
  ASSUME Inv, ShellWait
  PROVE  Inv'
<1>1. /\ InKernel /\ hart.mode = "S" /\ hart.pc.at = "shwait" /\ DOMAIN hart = Fields
      /\ ~Nested /\ hart.sp = Level(Idle, 0) /\ hart.tp = Idle /\ hart.x = hart.sp
      /\ hart.sp.area = "k" /\ hart.sp.of = hart.tp /\ hart.sp.n = 0
      /\ Running(Base) = {Idle} /\ (hart.sie => NoneDeep)
  BY ShellAt DEF ShellWait
<1>2. OnlyHart /\ UNCHANGED <<stack, context, trapframe, kind>>
  BY DEF ShellWait, OnlyHart
<1>3. CASE \E pc : GoTo(pc) /\ pc.at \in {"prompt", "shwait"}
  <2>1. PICK pc : GoTo(pc) /\ pc.at \in {"prompt", "shwait"}
    BY <1>3
  <2>2. /\ DOMAIN hart' = Fields /\ hart'.mode = "S" /\ hart'.sp = hart.sp
        /\ hart'.tp = Idle /\ hart'.x = hart.x /\ hart'.sie = hart.sie
        /\ hart'.spp = hart.spp /\ hart'.spie = hart.spie
        /\ hart'.sscratch = hart.sscratch /\ hart'.pc.at = pc.at /\ InKernel'
    BY <2>1, ShellMoves DEF ShellWait
  <2>3. Types'
    BY <2>2, <1>1, <1>2 DEF Inv, Types, TypeOK
  <2> QED BY <2>1, <2>2, <2>3, <1>1, <1>2, KernelMoves DEF KernelPcs
<1>4. CASE \E t \in Tasks \ {hart.tp} : Alive(t) /\ GoTo(Switch(t, hart.pc))
  <2>1. Resumable(hart.pc, hart.sp)
    BY <1>1 DEF Resumable
  <2> QED BY <2>1, <1>1, <1>2, <1>4, SwitchTo
<1>5. At("prompt").at = "prompt"
  BY DEF At
<1> QED BY <1>1, <1>3, <1>4, <1>5 DEF ShellWait, Schedule

\* A process computes in U-mode.
LEMMA ComputeInv ==
  ASSUME Inv, Compute
  PROVE  Inv'
<1>1. InUser /\ hart.mode = "U" /\ hart.pc \in UserCode /\ DOMAIN hart = Fields
  BY DEF Compute, Inv, InKernel, InReturn, InTrap, Types
<1>2. UNCHANGED <<stack, context, trapframe, kind>> /\ OnlyHart
  BY DEF Compute, OnlyHart
<1>3. /\ DOMAIN hart' = Fields /\ hart'.mode = "U" /\ hart'.sp = hart.sp /\ hart'.tp = hart.tp
      /\ hart'.x \in UserX /\ hart'.sie = hart.sie /\ hart'.spp = hart.spp
      /\ hart'.spie = hart.spie /\ hart'.sscratch = hart.sscratch /\ hart'.pc = At("body")
  BY <1>1 DEF Compute, Fields, UserX
<1>4. Types'
  BY <1>2, <1>3 DEF Inv, Types, TypeOK, UserX
<1>5. InUser'
  BY <1>1, <1>2, <1>3 DEF InUser, UserCode
<1>6. NewFrames' /\ SavedContexts'
  BY <1>2, OnlyHartKeeps DEF Inv
<1>7. Running(Base) = {hart.tp} /\ Running(Base') = {hart.tp} /\ ~Nested'
  BY <1>1, <1>3 DEF Nested, Base, Running, UserCode, At
<1>8. Others' /\ Masked'
  BY <1>2, <1>3, <1>7 DEF Inv, Others, Alive, Masked
<1> QED BY <1>4, <1>5, <1>6, <1>8 DEF Inv

(***************************************************************************)
(* The invariant holds.                                                    *)
(***************************************************************************)
LEMMA InitInv == Init => Inv
<1> SUFFICES ASSUME Init PROVE Inv
  OBVIOUS
<1>1. /\ hart = [mode |-> "S", pc |-> At("prompt"), sp |-> Sp("k", Idle), tp |-> Idle,
                 x |-> KernelRegs(Sp("k", Idle)), sie |-> TRUE, spp |-> "S", spie |-> TRUE,
                 sepc |-> At("prompt"), sscratch |-> Sp("k", Idle)]
      /\ Sp("k", Idle) = Level(Idle, 0) /\ Idle \in Tasks /\ Level(Idle, 0) \in SP
  BY LevelFields, LevelTyped, Depths DEF Init, Idle
<1>2. /\ DOMAIN hart = Fields /\ hart.mode = "S" /\ hart.pc.at = "prompt"
      /\ hart.sp = Level(Idle, 0) /\ hart.tp = Idle /\ hart.x = hart.sp /\ hart.sie = TRUE
      /\ hart.spp = "S" /\ hart.spie = TRUE /\ hart.sscratch = Level(Idle, 0)
  BY <1>1 DEF Fields, At, KernelRegs
<1>3. hart.sp.area = "k" /\ hart.sp.of = Idle /\ hart.sp.n = 0
  BY <1>2, LevelFields
<1>4. /\ kind = [t \in Tasks |-> IF t = Idle THEN "shell" ELSE "unused"]
      /\ DOMAIN stack = {} /\ DOMAIN context = {} /\ DOMAIN trapframe = {}
  BY DEF Init
<1>5. Types
  BY <1>1, <1>2, <1>4 DEF Types, TypeOK
<1>6. NewFrames /\ SavedContexts /\ NoneDeep
  BY <1>4 DEF NewFrames, SavedContexts, NoneDeep
<1>7. InKernel /\ ~Nested
  BY <1>2, <1>3 DEF InKernel, KernelCode, KernelPcs, Nested, TrapPcs, ExitPcs
<1>8. Others
  BY <1>1, <1>2, <1>4, <1>7 DEF Others, Base, Running, Alive
<1>9. Masked
  BY <1>2, <1>3, <1>6, <1>7 DEF Masked, KernelPcs
<1> QED BY <1>5, <1>6, <1>7, <1>8, <1>9 DEF Inv

\* Every step keeps the invariant, while the window of return_to_user is quiet.
LEMMA NextInv ==
  ASSUME QuietWindow, Inv, [Next]_vars
  PROVE  Inv'
<1>1. CASE Interrupt \/ Fault \/ Ecall
  BY <1>1, EntryInv
<1>2. CASE SwitchStep
  BY <1>2, SwitchSaveInv, SwitchLoadInv, SwitchTpInv DEF SwitchStep
<1>3. CASE FirstSteps
  BY <1>3, TrampolineThreadInv, UserProcessEntryInv, ReturnToUserInv, ReturnToUserSretInv
  DEF FirstSteps
<1>4. CASE UNCHANGED vars
  BY <1>4, Stutter
<1>5. CASE DoTrap
  BY <1>5, <1>4, TimerInv, SysForkInv, SysExecInv, SysExitInv, SysStopInv, CallbackInv
  DEF DoTrap, Stopped
<1>6. CASE ExitStep
  BY <1>6, ExitMoves, ExitSretInv DEF ExitStep
<1>7. CASE TaskStep
  BY <1>7, ThreadInv, ShellRunInv, ShellThreadsInv, ShellWaitInv, ComputeInv DEF TaskStep
<1> QED BY <1>1, <1>2, <1>3, <1>4, <1>5, <1>6, <1>7 DEF Next

\* Inv holds in every reachable state, if return_to_user is not interrupted.
THEOREM Invariance == ASSUME QuietWindow PROVE Spec => []Inv
<1>1. Inv /\ [Next]_vars => Inv'
  BY NextInv
<1> QED BY <1>1, InitInv, PTL DEF Spec

\* Type correctness: the registers and the frames in memory keep their types.
THEOREM TypeCorrect == ASSUME QuietWindow PROVE Spec => []TypeOK
<1>1. Inv => TypeOK
  BY DEF Inv, Types
<1> QED BY <1>1, Invariance, PTL

\* Kernel code, wherever it is interrupted or switched away, continues on the stack of
\* its own task, at the depth it had, with the registers it had.
THEOREM KernelResumesAlways == ASSUME QuietWindow PROVE Spec => []KernelResumes
<1>1. ASSUME Inv, hart.mode = "S", ~Switching, ~Exiting, ~Entering
      PROVE  /\ hart.sp.area = "k" /\ (hart.sp.of = hart.tp \/ InSwitch)
             /\ hart.x = KernelRegs(hart.sp)
             /\ PcIs("callback") => hart.pc.of = hart.sp
             /\ hart.pc.at \in {"prompt", "shwait"} => hart.sp = Sp("k", Idle)
  <2>1. InKernel \/ InTrap
    BY <1>1 DEF Inv, InReturn, InUser, Entering, InWindow, WindowPcs
  <2>2. CASE InKernel
    BY <2>2, <1>1, LevelFields DEF InKernel, KernelCode, KernelPcs, Switching, PcIs, KernelRegs
  <2>3. CASE InTrap
    <3>1. hart.sp.area = "k" /\ hart.x = hart.sp /\ (hart.pc.at = "callback" => hart.pc.of = hart.sp)
      BY <2>3, <1>1 DEF InTrap, Leaving, Exiting
    <3>2. hart.pc.at \notin {"prompt", "shwait"}
      BY <2>3 DEF InTrap, TrapPcs, ExitPcs
    <3>3. /\ hart.sp = Level(hart.sp.of, hart.sp.n) /\ hart.sp.n \in 1 .. Depth
          /\ hart.tp = Bottom.tp
      BY <2>3, <1>1, TrapLevels DEF Inv, InTrap
    <3>4. hart.sp.of = hart.tp \/ InSwitch
      <4>1. CASE UserFrame(Bottom, hart.sp.of)
        BY <4>1, <3>3 DEF UserFrame
      <4>2. CASE KernelFrame(Bottom, hart.sp.of) /\ Bottom.pc.at # "switch_tp"
        <5>1. Bottom.sp.of = Bottom.tp /\ Bottom.sp = Level(hart.sp.of, 0)
          BY <4>2 DEF KernelFrame, KernelCode
        <5> QED BY <5>1, <3>3, LevelFields
      <4>3. CASE KernelFrame(Bottom, hart.sp.of) /\ Bottom.pc.at = "switch_tp"
        <5>1. /\ Bottom.spp = "S" /\ Bottom.pc.next = Bottom.sp.of
              /\ Bottom.sp = Level(hart.sp.of, 0)
          BY <4>3 DEF KernelFrame, KernelCode
        <5>2. Bottom.pc.next = hart.sp.of
          BY <5>1, LevelFields
        <5>3. [hart.sp EXCEPT !.n = 1] = Level(hart.sp.of, 1)
          BY <3>3 DEF Level
        <5>4. 1 \in 1 .. hart.sp.n
          BY <3>3, Depths
        <5> QED BY <5>1, <5>2, <5>3, <5>4, <4>3 DEF InSwitch, Bottom
      <4> QED BY <4>1, <4>2, <4>3, <2>3 DEF InTrap, Frames
    <3> QED BY <3>1, <3>2, <3>4 DEF PcIs, KernelRegs
  <2> QED BY <2>1, <2>2, <2>3
<1>2. Inv => KernelResumes
  BY <1>1 DEF KernelResumes
<1> QED BY <1>2, Invariance, PTL

\* While a process runs, sscratch holds the empty kernel stack of that process.
THEOREM KernelStackAlwaysReady == ASSUME QuietWindow PROVE Spec => []KernelStackReady
<1>1. Inv => KernelStackReady
  BY LevelFields DEF Inv, InKernel, InReturn, InUser, InTrap, KernelStackReady
<1> QED BY <1>1, Invariance, PTL

\* The way out of a trap is never interruptible.
THEOREM ExitAlwaysMasked == ASSUME QuietWindow PROVE Spec => []ExitMasked
<1>1. Inv => ExitMasked
  BY DEF Inv, Masked, InKernel, InReturn, InUser, InTrap, ExitMasked, Exiting, KernelPcs,
         WindowPcs, UserCode, At
<1> QED BY <1>1, Invariance, PTL

\* sret enters U-mode in the program: what trap_first_sret refutes when an interrupt
\* arrives in return_to_user holds when none does.
THEOREM UserAlwaysInUserCode == ASSUME QuietWindow PROVE Spec => []UserRunsUserCode
<1>1. Inv => UserRunsUserCode
  BY DEF Inv, InKernel, InReturn, InUser, InTrap, UserRunsUserCode
<1> QED BY <1>1, Invariance, PTL

(***************************************************************************)
(* The refinement: the register-level path implements Contexts.  Every     *)
(* step of TrapPath is a step of Contexts, or one that no process can see. *)
(***************************************************************************)

(***************************************************************************)
(* Where the registers of the processes are.                               *)
(***************************************************************************)
LEMMA FirstFrame ==
  ASSUME NEW t
  PROVE  Push(Sp("k", t)) = Level(t, 1) /\ Level(t, 1).n = 1 /\ Level(t, 1).of = t
<1>1. Push(Level(t, 0)) = Level(t, 0 + 1)
  BY LevelMoves
<1> QED BY <1>1, LevelFields

\* A process that has run and does not run has a whole frame on its kernel stack.
LEMMA WaitingFrame ==
  ASSUME Inv, NEW t \in Tasks, kind[t] = "user", ~(hart.mode = "U" /\ hart.tp = t)
  PROVE  Level(t, 1) \in DOMAIN stack /\ UserFrame(stack[Level(t, 1)], t)
<1>1. ASSUME NEW pc, NEW sp, Resumable(pc, sp), sp.of = t
      PROVE  sp = Level(t, 1) /\ sp \in DOMAIN stack /\ UserFrame(stack[sp], t)
  BY <1>1, LevelFields DEF Resumable, Inv, Types
<1>2. CASE t \in DOMAIN context
  BY <1>1, <1>2 DEF Inv, SavedContexts
<1>3. CASE t \in Running(Base)
  <2>1. ASSUME NEW c, KernelCode(c), t \in Running(c)
        PROVE  /\ c.pc.at \in {"switch", "switch_tp"} /\ c.sp.of = t
               /\ Resumable(c.pc.ret, c.sp)
    <3>1. c.pc.at \notin {"prompt", "shwait", "trampoline", "thread", "rtu_sstatus", "switch_load"}
      BY <2>1, LevelFields DEF KernelCode, Running, Inv, Types
    <3>2. c.pc.at \in {"switch", "switch_tp"}
      BY <3>1, <2>1 DEF KernelCode, KernelPcs
    <3>3. CASE c.pc.at = "switch"
      BY <3>3, <2>1 DEF KernelCode, Running, Alive
    <3>4. CASE c.pc.at = "switch_tp"
      BY <3>4, <2>1 DEF KernelCode, Running
    <3> QED BY <3>2, <3>3, <3>4
  <2>2. CASE InKernel
    <3>1. ~Nested
      BY <2>2 DEF InKernel, KernelCode, Nested, KernelPcs, TrapPcs, ExitPcs
    <3> QED BY <3>1, <2>1, <2>2, <1>1, <1>3 DEF InKernel, Base
  <2>3. CASE InReturn
    BY <2>3, <1>3, ReturnFrame DEF InReturn
  <2>4. CASE InUser
    BY <2>4, <1>3 DEF InUser, Base, Nested, Running, UserCode, At
  <2>5. CASE InTrap
    <3>1. hart.sp.n \in 1 .. Depth /\ Level(hart.sp.of, 1) \in DOMAIN stack
      <4>1. hart.sp.n \in 1 .. Depth
        BY <2>5, TrapLevels DEF Inv
      <4>2. 1 \in 1 .. hart.sp.n
        BY <4>1, Depths
      <4> QED BY <4>1, <4>2, <2>5 DEF InTrap, Frames
    <3>2. CASE UserFrame(Bottom, hart.sp.of)
      <4>1. ~Nested /\ hart.tp = hart.sp.of
        BY <3>2, <2>5 DEF Nested, UserFrame, InTrap
      <4>2. t = hart.sp.of
        BY <4>1, <2>5, <1>3 DEF Base, Running, InTrap, TrapPcs, ExitPcs
      <4> QED BY <3>1, <3>2, <4>2 DEF Bottom
    <3>3. CASE KernelFrame(Bottom, hart.sp.of)
      <4>1. Nested
        BY <3>3, <2>5 DEF Nested, KernelFrame, InTrap
      <4>2. Bottom.sp = Level(t, 1) /\ Bottom.sp = Level(hart.sp.of, 0)
        BY <4>1, <3>3, <2>1, <1>1, <1>3 DEF Base, KernelFrame
      <4>3. FALSE
        BY <4>2, LevelFields
      <4> QED BY <4>3
    <3> QED BY <3>2, <3>3, <2>5 DEF InTrap, Frames
  <2> QED BY <2>2, <2>3, <2>4, <2>5 DEF Inv
<1> QED BY <1>2, <1>3 DEF Inv, Others, Alive

\* The registers of a process that does not run, and whose frame nobody touches.
LEMMA ContextKept ==
  ASSUME Inv, NEW t \in Tasks, kind[t] \in {"new", "user"}, kind'[t] = kind[t],
         ~(hart.mode = "U" /\ hart.tp = t), ~(hart'.mode = "U" /\ hart'.tp = t),
         kind[t] = "new" => trapframe'[t] = trapframe[t],
         kind[t] = "user" => stack'[Level(t, 1)] = stack[Level(t, 1)]
  PROVE  UserContext(t)' = UserContext(t)
BY FirstFrame DEF UserContext, View

\* The contexts are the same if those of all processes are.
LEMMA CtxSame ==
  ASSUME Procs' = Procs, \A t \in Procs : UserContext(t)' = UserContext(t)
  PROVE  Ctx' = Ctx
BY DEF Ctx

\* The contexts with one more, or one changed.
LEMMA CtxWith ==
  ASSUME NEW p, Procs' = Procs \cup {p},
         \A t \in Procs \ {p} : UserContext(t)' = UserContext(t)
  PROVE  Ctx' = C!With(p, UserContext(p)')
BY DEF Ctx, C!With

\* The processes are those that have a context.
LEMMA CtxDomain == DOMAIN Ctx = Procs /\ \A t \in Procs : Ctx[t] = UserContext(t)
BY DEF Ctx

(***************************************************************************)
(* Steps inside the kernel that no process can see.                        *)
(***************************************************************************)
LEMMA KernelStutter ==
  ASSUME Inv, UNCHANGED <<stack, trapframe, kind>>, hart.mode = "S", hart'.mode = "S"
  PROVE  UNCHANGED <<Ctx, Run>>
<1>1. Procs' = Procs
  BY DEF Procs
<1>2. \A t \in Procs : UserContext(t)' = UserContext(t)
  BY ContextKept DEF Procs
<1> QED BY <1>1, <1>2, CtxSame DEF Run

\* A step that keeps the processes and the frames of those that have run.
LEMMA FramesStutter ==
  ASSUME Inv, trapframe' = trapframe, Procs' = Procs, hart.mode = "S", hart'.mode = "S",
         \A t \in Procs : kind'[t] = kind[t],
         \A t \in Procs : kind[t] = "user" => stack'[Level(t, 1)] = stack[Level(t, 1)]
  PROVE  UNCHANGED <<Ctx, Run>>
<1>1. \A t \in Procs : UserContext(t)' = UserContext(t)
  BY ContextKept DEF Procs
<1> QED BY <1>1, CtxSame DEF Run

\* Kernel code that waits in no frame of its own is not that of a process that has run.
LEMMA NotOfUser ==
  ASSUME Inv, NEW c, KernelCode(c), c.sp = Level(c.sp.of, 0)
  PROVE  kind[c.sp.of] # "user"
<1>1. c.sp.n = 0 /\ (\A t : c.sp # Level(t, 1))
  BY LevelFields
<1>2. ASSUME Resumable(c.pc.ret, c.sp)
      PROVE  kind[c.sp.of] # "user"
  BY <1>2, <1>1, LevelFields DEF Resumable, Inv, Types
<1>3. CASE c.pc.at \in {"switch", "switch_tp"}
  <2>1. c.pc.at = "switch" => c.sp.of = c.tp
    BY DEF KernelCode
  <2> QED BY <1>2, <1>3, <2>1 DEF KernelCode, Alive
<1>4. CASE c.pc.at \in {"prompt", "shwait"}
  BY <1>4, LevelFields DEF KernelCode, Inv, Types
<1>5. CASE c.pc.at \in {"trampoline", "thread", "rtu_sstatus", "switch_load"}
  BY <1>5, <1>1 DEF KernelCode
<1> QED BY <1>3, <1>4, <1>5 DEF KernelCode, KernelPcs

(***************************************************************************)
(* Traps.                                                                  *)
(***************************************************************************)
LEMMA UserTrapLeaves ==
  ASSUME Inv, hart.mode = "U", NEW cause \in Causes, Trap(cause)
  PROVE  C!Leave
<1> PICK t : t = hart.tp
  OBVIOUS
<1>1. InUser
  BY DEF Inv, InKernel, InReturn, InTrap
<1>2. /\ t \in Tasks /\ 0 \in 0 .. Depth /\ 0 < Depth /\ EntrySp = Level(t, 0)
      /\ Level(t, 0 + 1) = Level(t, 1) /\ kind[t] = "user" /\ t # Idle
  BY <1>1, TrapAssumption, Depths DEF InUser, EntrySp, Inv, Types, TypeOK
<1>3. /\ hart'.mode = "S" /\ stack'[Level(t, 1)] = Saved
      /\ \A p \in DOMAIN stack : p # Level(t, 1) => stack'[p] = stack[p]
      /\ UNCHANGED <<context, trapframe, kind>>
  <2>1. /\ hart'.mode = "S" /\ stack'[Level(t, 0 + 1)] = Saved
        /\ \A p \in DOMAIN stack : p # Level(t, 0 + 1) => stack'[p] = stack[p]
        /\ UNCHANGED <<context, trapframe, kind>>
    BY <1>2, TrapEntry, Zenon
  <2> QED BY <2>1, <1>2
<1>4. Procs' = Procs
  BY <1>3 DEF Procs
<1>5. UserContext(t)' = UserContext(t)
  <2>1. UserContext(t) = [x |-> hart.x, sp |-> hart.sp, pc |-> hart.pc]
    BY DEF UserContext, View
  <2>2. UserContext(t)' = View(Saved)
    BY <1>2, <1>3, FirstFrame DEF UserContext, View
  <2> QED BY <2>1, <2>2 DEF View, Saved
<1>6. \A s \in Procs : s # t => UserContext(s)' = UserContext(s)
  <2>1. SUFFICES ASSUME NEW s \in Procs, s # t
                 PROVE  UserContext(s)' = UserContext(s)
    OBVIOUS
  <2>2. s \in Tasks /\ kind[s] \in {"new", "user"}
    BY DEF Procs
  <2>3. kind[s] = "user" => stack'[Level(s, 1)] = stack[Level(s, 1)]
    BY <2>1, <2>2, <1>3, WaitingFrame, LevelFields
  <2> QED BY <2>1, <2>2, <2>3, <1>3, ContextKept
<1>7. Ctx' = Ctx
  BY <1>4, <1>5, <1>6, CtxSame
<1> QED BY <1>2, <1>3, <1>7 DEF C!Leave, Run

\* No process sees a trap of kernel code.
LEMMA KernelTrapHidden ==
  ASSUME Inv, QuietWindow, hart.mode # "U", Interrupt \/ Fault \/ Ecall
  PROVE  UNCHANGED <<Ctx, Run>>
<1>1. /\ hart.mode = "S" /\ hart.sie /\ hart.pc.at \notin WindowPcs
      /\ \E cause \in {"timer", "external"} : Trap(cause)
  BY DEF Interrupt, Fault, Ecall, InWindow, WindowPcs, Inv, Types, TypeOK
<1>2. PICK cause \in Causes : Trap(cause)
  BY <1>1 DEF Causes
<1> PICK t, n : t = hart.sp.of /\ n = hart.sp.n
  OBVIOUS
<1>3. /\ t \in Tasks /\ n \in 0 .. Depth /\ hart.sp = Level(t, n)
      /\ n = 0 => kind[t] # "user"
  <2>1. CASE hart.pc.at = "callback"
    <3>1. InTrap
      BY <1>1, <2>1, TrapAt DEF PcIs, TrapPcs
    <3>2. n # 0 /\ hart.sp.area = "k"
      BY <3>1 DEF InTrap
    <3> QED BY <3>2, KernelSps DEF Inv, Types, TypeOK
  <2>2. CASE hart.pc.at # "callback"
    <3>1. hart.pc.at \in KernelPcs /\ n = 0
      BY <1>1, <2>2 DEF Inv, Masked
    <3>2. InKernel
      BY <1>1, <3>1
      DEF Inv, InReturn, InUser, InTrap, KernelPcs, WindowPcs, TrapPcs, ExitPcs
    <3>3. KernelCode(hart) /\ hart.sp.area = "k"
      BY <3>2 DEF InKernel, KernelCode
    <3>4. hart.sp = Level(t, n) /\ t \in Tasks /\ n \in 0 .. Depth
      BY <3>3, KernelSps DEF Inv, Types, TypeOK
    <3> QED BY <3>1, <3>3, <3>4, NotOfUser
  <2> QED BY <2>1, <2>2
<1>4. n < Depth /\ EntrySp = Level(t, n) /\ n \in Nat
  BY <1>1, <1>2, <1>3, Depths DEF Trap, EntrySp
<1>5. /\ hart'.mode = "S"
      /\ \A p \in DOMAIN stack : p # Level(t, n + 1) => stack'[p] = stack[p]
      /\ UNCHANGED <<context, trapframe, kind>>
  <2>1. Push(EntrySp) = Level(t, n + 1)
    BY <1>4, LevelMoves
  <2>2. /\ hart'.mode = "S" /\ stack' = Put(stack, Level(t, n + 1), Saved)
        /\ UNCHANGED <<context, trapframe, kind>>
    BY <1>1, <1>2, <2>1 DEF Trap, Inv, Types, Fields
  <2> QED BY <2>2 DEF Put
<1>6. ASSUME NEW s \in Procs, kind[s] = "user"
      PROVE  stack'[Level(s, 1)] = stack[Level(s, 1)]
  <2>1. s \in Tasks /\ Level(s, 1) \in DOMAIN stack
    BY <1>1, <1>6, WaitingFrame DEF Procs
  <2>2. Level(s, 1) # Level(t, n + 1)
    <3>1. s # t \/ n # 0
      BY <1>3, <1>6
    <3>2. n # 0 => n + 1 # 1
      BY <1>4
    <3> QED BY <3>1, <3>2, LevelFields
  <2> QED BY <2>1, <2>2, <1>5
<1>7. Procs' = Procs
  BY <1>5 DEF Procs
<1> QED BY <1>1, <1>5, <1>6, <1>7, FramesStutter

(***************************************************************************)
(* The ways into U-mode.                                                   *)
(***************************************************************************)
LEMMA ExitSretSimulated ==
  ASSUME Inv, ExitSret
  PROVE  (\E p \in DOMAIN Ctx : C!Enter(p)) \/ UNCHANGED <<Ctx, Run>>
<1>1. /\ InTrap /\ hart.mode = "S" /\ hart'.mode = Tf.spp /\ hart'.pc = Tf.pc
      /\ hart'.sp = Tf.sp /\ hart'.x = Tf.x /\ hart'.tp = hart.tp
  BY SretHart
<1>2. /\ hart.sp.of \in Tasks /\ hart.sp.n \in 1 .. Depth
      /\ hart.sp = Level(hart.sp.of, hart.sp.n) /\ Tf.spp \in {"S", "U"}
  BY <1>1, TrapLevels DEF Inv
<1>3. stack' = Forget(stack, {hart.sp}) /\ UNCHANGED <<context, trapframe, kind>>
  BY DEF ExitSret
<1>4. \A p \in DOMAIN stack \ {hart.sp} : stack'[p] = stack[p]
  BY <1>3, ForgetFacts
<1>5. Procs' = Procs
  BY <1>3 DEF Procs
<1>6. ASSUME NEW s \in Procs, kind[s] = "user", Level(s, 1) # hart.sp
      PROVE  stack'[Level(s, 1)] = stack[Level(s, 1)]
  BY <1>1, <1>4, <1>6, WaitingFrame DEF Procs
<1>7. CASE FromUser
  <2> PICK t : t = hart.tp
    OBVIOUS
  <2>1. /\ hart.sp = Level(t, 1) /\ t \in Tasks /\ kind[t] = "user" /\ t # Idle
    BY <1>1, <1>7, UserTrap DEF Inv, Types
  <2>2. UserContext(t)' = UserContext(t)
    <3>1. UserContext(t)' = [x |-> Tf.x, sp |-> Tf.sp, pc |-> Tf.pc]
      BY <1>1, <1>7 DEF UserContext, View, FromUser
    <3>2. UserContext(t) = View(Tf)
      BY <1>1, <2>1, FirstFrame DEF UserContext, Tf
    <3> QED BY <3>1, <3>2 DEF View
  <2>3. ASSUME NEW s \in Procs, s # t
        PROVE  UserContext(s)' = UserContext(s)
    <3>1. s \in Tasks /\ kind[s] \in {"new", "user"} /\ Level(s, 1) # hart.sp
      BY <2>1, <2>3, LevelFields DEF Procs
    <3> QED BY <3>1, <2>3, <1>1, <1>3, <1>6, ContextKept
  <2>4. Ctx' = Ctx
    BY <2>2, <2>3, <1>5, CtxSame
  <2>5. t \in DOMAIN Ctx
    BY <2>1, CtxDomain DEF Procs
  <2>6. Run = Idle /\ Run' = t
    BY <1>1, <1>7 DEF Run, FromUser
  <2> QED BY <2>4, <2>5, <2>6 DEF C!Enter
<1>8. CASE ~FromUser
  <2>1. hart'.mode = "S"
    BY <1>1, <1>2, <1>8 DEF FromUser
  <2>2. ASSUME NEW s \in Procs, kind[s] = "user"
        PROVE  Level(s, 1) # hart.sp
    <3>1. SUFFICES ASSUME Level(s, 1) = hart.sp PROVE FALSE
      OBVIOUS
    <3>2. hart.sp.of = s /\ hart.sp.n = 1 /\ Tf = Bottom
      BY <3>1, <1>2, LevelFields DEF Tf, Bottom
    <3>3. KernelFrame(Bottom, s)
      BY <3>2, <1>1, <1>8 DEF InTrap, Frames, FromUser, UserFrame
    <3>4. KernelCode(Bottom) /\ Bottom.sp = Level(s, 0)
      BY <3>3 DEF KernelFrame
    <3> QED BY <3>4, <2>2, LevelFields, NotOfUser
  <2> QED BY <2>1, <2>2, <1>1, <1>3, <1>5, <1>6, FramesStutter
<1> QED BY <1>7, <1>8

\* The first sret of a process enters its initial context.
LEMMA FirstSretEnters ==
  ASSUME Inv, ReturnToUserSret
  PROVE  \E p \in DOMAIN Ctx : C!Enter(p)
<1> PICK t : t = hart.tp
  OBVIOUS
<1>1. hart.mode = "S" /\ hart.pc.at = "rtu_sret" /\ DOMAIN hart = Fields
  BY DEF ReturnToUserSret, PcIs, Inv, Types
<1>2. /\ t \in Tasks /\ kind[t] = "new" /\ NewFrame(Frame, t)
  BY <1>1, ReturnFrame DEF WindowPcs
<1>3. InReturn
  BY <1>1
  DEF Inv, InKernel, KernelCode, InUser, InTrap, TrapPcs, ExitPcs, KernelPcs, WindowPcs
<1>4. hart.sepc = Frame.pc /\ hart.x = Frame.x /\ hart.sp = Frame.sp /\ hart.spp = "U"
  BY <1>1, <1>3 DEF InReturn
<1>5. /\ kind' = [kind EXCEPT ![t] = "user"] /\ trapframe' = Forget(trapframe, {t})
      /\ UNCHANGED <<stack, context>>
  BY DEF ReturnToUserSret
<1>6. /\ hart'.mode = "U" /\ hart'.pc = Frame.pc
      /\ hart'.sp = Frame.sp /\ hart'.tp = t /\ hart'.x = Frame.x
  BY <1>1, <1>4 DEF ReturnToUserSret, Sret, Fields
<1>7. \A i \in DOMAIN trapframe \ {t} : trapframe'[i] = trapframe[i]
  BY <1>5 DEF Forget
<1>8. kind'[t] = "user" /\ \A s \in Tasks : s # t => kind'[s] = kind[s]
  BY <1>2, <1>5 DEF Inv, Types, TypeOK
<1>9. Procs' = Procs
  BY <1>2, <1>8 DEF Procs
<1>10. UserContext(t)' = UserContext(t)
  <2>1. UserContext(t)' = [x |-> Frame.x, sp |-> Frame.sp, pc |-> Frame.pc]
    BY <1>6 DEF UserContext, View
  <2>2. UserContext(t) = View(Frame)
    BY <1>1, <1>2 DEF UserContext, Frame
  <2> QED BY <2>1, <2>2 DEF View
<1>11. ASSUME NEW s \in Procs, s # t
       PROVE  UserContext(s)' = UserContext(s)
  <2>1. s \in Tasks /\ kind[s] \in {"new", "user"} /\ kind'[s] = kind[s]
    BY <1>8, <1>11 DEF Procs
  <2>2. kind[s] = "new" => trapframe'[s] = trapframe[s]
    BY <2>1, <1>7, <1>11 DEF Inv, NewFrames
  <2> QED BY <2>1, <2>2, <1>1, <1>5, <1>6, <1>11, ContextKept
<1>12. Ctx' = Ctx
  BY <1>9, <1>10, <1>11, CtxSame
<1>13. t \in DOMAIN Ctx
  BY <1>2, CtxDomain DEF Procs
<1>14. Run = Idle /\ Run' = t
  BY <1>1, <1>6 DEF Run
<1> QED BY <1>12, <1>13, <1>14 DEF C!Enter

(***************************************************************************)
(* The kernel creates, replaces and ends processes.                        *)
(***************************************************************************)
LEMMA SlotEnds ==
  ASSUME Inv, NEW s \in Tasks, hart.mode = "S", hart'.mode = "S",
         kind' = [kind EXCEPT ![s] = "unused"],
         \A t \in DOMAIN trapframe : t # s => trapframe'[t] = trapframe[t],
         stack' = Forget(stack, FramesOf(s))
  PROVE  C!Manage \/ UNCHANGED <<Ctx, Run>>
<1>1. kind'[s] = "unused" /\ \A t \in Tasks : t # s => kind'[t] = kind[t]
  BY DEF Inv, Types, TypeOK
<1>2. Procs' = Procs \ {s}
  BY <1>1 DEF Procs
<1>3. \A p \in DOMAIN stack \ FramesOf(s) : stack'[p] = stack[p]
  BY DEF Forget
<1>4. ASSUME NEW t \in Procs, t # s
      PROVE  UserContext(t)' = UserContext(t)
  <2>1. t \in Tasks /\ kind[t] \in {"new", "user"} /\ kind'[t] = kind[t]
    BY <1>1, <1>4 DEF Procs
  <2>2. kind[t] = "new" => trapframe'[t] = trapframe[t]
    BY <2>1, <1>4 DEF Inv, NewFrames
  <2>3. kind[t] = "user" => stack'[Level(t, 1)] = stack[Level(t, 1)]
    BY <2>1, <1>3, <1>4, WaitingFrame, LevelFields DEF FramesOf
  <2> QED BY <2>1, <2>2, <2>3, ContextKept
<1>5. Run = Idle /\ Run' = Idle
  BY DEF Run
<1>6. CASE s \in Procs
  <2>1. Ctx' = C!Without({s})
    BY <1>2, <1>4 DEF Ctx, C!Without
  <2>2. s \in DOMAIN Ctx
    BY <1>6, CtxDomain
  <2> QED BY <2>1, <2>2, <1>5 DEF C!Manage, C!End
<1>7. CASE s \notin Procs
  <2>1. Ctx' = Ctx
    BY <1>2, <1>4, <1>7, CtxSame
  <2> QED BY <2>1, <1>5
<1> QED BY <1>6, <1>7

\* The end of a process removes its context.
LEMMA EndSimulated ==
  ASSUME Inv, SysExit \/ SysStop \/ (Thread /\ ThreadExit)
  PROVE  C!Manage \/ UNCHANGED <<Ctx, Run>>
<1>1. hart.mode = "S" /\ hart.tp \in Tasks /\ DOMAIN hart = Fields
  BY DEF SysExit, SysStop, Thread, PcIs, Inv, Types, TypeOK
<1>2. CASE ThreadExit
  <2>1. /\ hart'.mode = "S" /\ kind' = [kind EXCEPT ![hart.tp] = "unused"]
        /\ stack' = Forget(stack, FramesOf(hart.tp)) /\ trapframe' = trapframe
    BY <1>1, <1>2 DEF ThreadExit, GoTo, Fields
  <2> QED BY <2>1, <1>1, SlotEnds
<1>3. CASE SysStop
  <2>1. PICK s \in Tasks \ {Idle, hart.tp} :
          /\ kind' = [kind EXCEPT ![s] = "unused"] /\ stack' = Forget(stack, FramesOf(s))
          /\ context' = Forget(context, {s}) /\ trapframe' = Forget(trapframe, {s})
    BY <1>3 DEF SysStop
  <2>2. \A t \in DOMAIN trapframe : t # s => trapframe'[t] = trapframe[t]
    BY <2>1 DEF Forget
  <2>3. hart'.mode = "S"
    BY <1>1, <1>3 DEF SysStop, GoTo, Fields
  <2> QED BY <2>1, <2>2, <2>3, <1>1, SlotEnds
<1> QED BY <1>2, <1>3 DEF SysExit

\* A process appears, with the registers that its frame holds.
LEMMA NewProcessAppears ==
  ASSUME Inv, NEW c \in Tasks, NEW tf, NewProcess(c, tf), hart.mode = "S", hart'.mode = "S"
  PROVE  /\ c \notin DOMAIN Ctx /\ c \in Tasks \ {Idle} /\ Ctx' = C!With(c, View(tf))
         /\ Run = Idle /\ Run' = Idle
<1>1. /\ kind[c] = "unused" /\ c # Idle
      /\ kind' = [kind EXCEPT ![c] = "new"] /\ stack' = stack
      /\ trapframe' = Put(trapframe, c, tf)
  BY DEF NewProcess, Alive, Inv, Types
<1>2. kind'[c] = "new" /\ \A s \in Tasks : s # c => kind'[s] = kind[s]
  BY <1>1 DEF Inv, Types, TypeOK
<1>3. /\ c \in DOMAIN trapframe' /\ trapframe'[c] = tf
      /\ \A i \in DOMAIN trapframe : i # c => trapframe'[i] = trapframe[i]
  BY <1>1 DEF Put
<1>4. Procs' = Procs \cup {c} /\ c \notin Procs
  BY <1>1, <1>2 DEF Procs
<1>5. ASSUME NEW t \in Procs \ {c}
      PROVE  UserContext(t)' = UserContext(t)
  <2>1. t \in Tasks /\ kind[t] \in {"new", "user"} /\ kind'[t] = kind[t]
    BY <1>2 DEF Procs
  <2>2. kind[t] = "new" => trapframe'[t] = trapframe[t]
    BY <2>1, <1>3 DEF Inv, NewFrames
  <2> QED BY <2>1, <2>2, <1>1, ContextKept
<1>6. UserContext(c)' = View(tf)
  BY <1>2, <1>3 DEF UserContext, View
<1>7. Ctx' = C!With(c, View(tf))
  BY <1>4, <1>5, <1>6, CtxWith
<1>8. c \notin DOMAIN Ctx
  BY <1>4, CtxDomain
<1>9. Run = Idle /\ Run' = Idle
  BY DEF Run
<1> QED BY <1>1, <1>7, <1>8, <1>9

\* The shell adds the context of a new process.
LEMMA CreateSimulated ==
  ASSUME Inv, ShellRun
  PROVE  C!Manage
<1>1. PICK t \in Tasks : NewProcess(t, FreshFrame(t))
  BY DEF ShellRun
<1>2. hart.mode = "S" /\ hart'.mode = "S"
  BY DEF ShellRun, PcIs, GoTo, Inv, Types, Fields
<1>3. /\ t \notin DOMAIN Ctx /\ t \in Tasks \ {Idle}
      /\ Ctx' = C!With(t, View(FreshFrame(t))) /\ Run = Idle /\ Run' = Idle
  BY <1>1, <1>2, NewProcessAppears
<1>4. View(FreshFrame(t)) = C!Fresh(t)
  BY DEF View, FreshFrame, C!Fresh, C!Stack, Sp, At
<1> QED BY <1>3, <1>4 DEF C!Manage, C!Create

\* fork adds a context and sets the return values.
LEMMA ForkSimulated ==
  ASSUME Inv, SysFork
  PROVE  C!Manage
<1> PICK t : t = hart.tp
  OBVIOUS
<1>1. InTrap /\ hart.mode = "S" /\ FromUser /\ DOMAIN hart = Fields
  BY BodyAt DEF SysFork, BodyPcs
<1>2. hart.sp = Level(t, 1) /\ t \in Tasks /\ kind[t] = "user" /\ UserFrame(Tf, t)
  BY <1>1, UserTrap
<1>3. PICK c \in Tasks : NewProcess(c, ForkFrame(Tf, c))
  BY DEF SysFork
<1>4. hart'.mode = "S"
  BY <1>1 DEF SysFork, GoTo, Fields
<1>5. /\ c \notin DOMAIN Ctx /\ c \in Tasks \ {Idle}
      /\ Ctx' = C!With(c, View(ForkFrame(Tf, c))) /\ Run = Idle /\ Run' = Idle
  BY <1>1, <1>3, <1>4, NewProcessAppears
<1>6. t \in DOMAIN Ctx /\ Ctx[t] = View(Tf)
  BY <1>1, <1>2, CtxDomain, FirstFrame DEF Procs, UserContext, Tf
<1>7. View(ForkFrame(Tf, c)) = [Ctx[t] EXCEPT !.sp = C!Stack(c)]
  <2> PICK f, g : f = Tf /\ g = ForkFrame(f, c)
    OBVIOUS
  <2>1. DOMAIN f = FrameFields /\ f.sp = Sp("u", t)
    BY <1>2 DEF UserFrame
  <2>2. g.x = f.x /\ g.pc = f.pc /\ g.sp = [f.sp EXCEPT !.of = c]
    BY <2>1 DEF ForkFrame, FrameFields
  <2>3. g.sp = C!Stack(c)
    BY <2>1, <2>2 DEF Sp, C!Stack
  <2>4. View(g) = [x |-> f.x, sp |-> C!Stack(c), pc |-> f.pc]
    BY <2>2, <2>3 DEF View
  <2> HIDE DEF C!Stack
  <2>5. [View(f) EXCEPT !.sp = C!Stack(c)] = [x |-> f.x, sp |-> C!Stack(c), pc |-> f.pc]
    BY DEF View
  <2> QED BY <2>4, <2>5, <1>6
<1> QED BY <1>5, <1>6, <1>7 DEF C!Manage, C!Fork

\* exec replaces the context of the caller.
LEMMA ExecSimulated ==
  ASSUME Inv, SysExec
  PROVE  C!Manage
<1> PICK t : t = hart.tp
  OBVIOUS
<1>1. InTrap /\ hart.mode = "S" /\ FromUser /\ DOMAIN hart = Fields
  BY BodyAt DEF SysExec, BodyPcs
<1>2. hart.sp = Level(t, 1) /\ hart.sp \in DOMAIN stack /\ t \in Tasks /\ kind[t] = "user"
  BY <1>1, UserTrap
<1> PICK f, top : f = FreshFrame(t) /\ top = hart.sp
  OBVIOUS
<1>3. stack' = Put(stack, top, f) /\ UNCHANGED <<context, trapframe, kind>>
  BY DEF SysExec
<1>4. stack'[top] = f /\ \A p \in DOMAIN stack : p # top => stack'[p] = stack[p]
  BY <1>2, <1>3 DEF Put
<1>5. hart'.mode = "S"
  BY <1>1 DEF SysExec, GoTo, Fields
<1>6. Procs' = Procs \cup {t} /\ t \in Procs
  BY <1>2, <1>3 DEF Procs
<1>7. ASSUME NEW s \in Procs \ {t}
      PROVE  UserContext(s)' = UserContext(s)
  <2>1. s \in Tasks /\ kind[s] \in {"new", "user"} /\ Level(s, 1) # top
    BY <1>2, LevelFields DEF Procs
  <2>2. kind[s] = "user" => stack'[Level(s, 1)] = stack[Level(s, 1)]
    BY <2>1, <1>1, <1>4, WaitingFrame
  <2> QED BY <2>1, <2>2, <1>1, <1>3, <1>5, ContextKept
<1>8. UserContext(t)' = View(f)
  BY <1>2, <1>3, <1>4, <1>5, FirstFrame DEF UserContext, View
<1>9. Ctx' = C!With(t, View(f))
  BY <1>6, <1>7, <1>8, CtxWith
<1>10. View(f) = C!Fresh(t)
  BY DEF View, FreshFrame, C!Fresh, C!Stack, Sp, At
<1>11. t \in DOMAIN Ctx /\ Run = Idle /\ Run' = Idle
  BY <1>1, <1>5, <1>6, CtxDomain DEF Run
<1> QED BY <1>9, <1>10, <1>11 DEF C!Manage, C!Exec

(***************************************************************************)
(* User programs.                                                          *)
(***************************************************************************)
LEMMA ComputeSimulated ==
  ASSUME Inv, Compute
  PROVE  \E p \in DOMAIN Ctx : C!Compute(p)
<1> PICK t : t = hart.tp
  OBVIOUS
<1>1. InUser /\ hart.mode = "U" /\ DOMAIN hart = Fields
  BY DEF Compute, Inv, InKernel, InReturn, InTrap, Types
<1>2. t \in Tasks /\ kind[t] = "user" /\ UNCHANGED <<stack, context, trapframe, kind>>
  BY <1>1 DEF InUser, Compute, OnlyHart, Inv, Types, TypeOK
<1>3. PICK v \in Values : hart' = [hart EXCEPT !.x = UserRegs(v), !.pc = At("body")]
  BY DEF Compute
<1>4. /\ hart'.mode = "U" /\ hart'.tp = t /\ hart'.sp = hart.sp
      /\ hart'.x = UserRegs(v) /\ hart'.pc = At("body")
  BY <1>1, <1>3 DEF Fields
<1>5. Procs' = Procs \cup {t} /\ t \in Procs
  BY <1>2 DEF Procs
<1>6. ASSUME NEW s \in Procs \ {t}
      PROVE  UserContext(s)' = UserContext(s)
  BY <1>2, <1>4, ContextKept DEF Procs
<1>7. Ctx' = C!With(t, UserContext(t)')
  BY <1>5, <1>6, CtxWith
<1>8. UserContext(t) = [x |-> hart.x, sp |-> hart.sp, pc |-> hart.pc]
  BY <1>1 DEF UserContext, View
<1>9. UserContext(t)' = [x |-> UserRegs(v), sp |-> hart.sp, pc |-> At("body")]
  BY <1>4 DEF UserContext, View
<1>10. t \in DOMAIN Ctx /\ Ctx[t] = UserContext(t)
  BY <1>5, CtxDomain
<1> PICK r, body : r = UserRegs(v) /\ body = [at |-> "body"]
  OBVIOUS
<1>11. Ctx' = C!With(t, [Ctx[t] EXCEPT !.x = r, !.pc = body])
  <2>1. Ctx[t] = [x |-> hart.x, sp |-> hart.sp, pc |-> hart.pc]
    BY <1>8, <1>10
  <2>2. UserContext(t)' = [x |-> r, sp |-> hart.sp, pc |-> body]
    BY <1>9 DEF At
  <2>3. UserContext(t)' = [Ctx[t] EXCEPT !.x = r, !.pc = body]
    <3> PICK f, g : f = Ctx[t] /\ g = [f EXCEPT !.x = r, !.pc = body]
      OBVIOUS
    <3>1. DOMAIN f = {"x", "sp", "pc"} /\ f.sp = hart.sp
      BY <2>1
    <3>2. DOMAIN g = {"x", "sp", "pc"} /\ g = [i \in {"x", "sp", "pc"} |-> g[i]]
      BY <3>1
    <3>3. g.x = r /\ g.pc = body /\ g.sp = hart.sp
      BY <3>1
    <3>4. g = [x |-> r, sp |-> hart.sp, pc |-> body]
      BY <3>2, <3>3
    <3> QED BY <3>4, <2>2
  <2> QED BY <2>3, <1>7
<1>12. Run = t /\ Run' = t
  BY <1>1, <1>4 DEF Run
<1>13. r \in {UserRegs(u) : u \in Values}
  OBVIOUS
<1> QED BY <1>10, <1>11, <1>12, <1>13 DEF C!Compute

(***************************************************************************)
(* The refinement.                                                         *)
(***************************************************************************)
LEMMA ShellThreadsHidden ==
  ASSUME Inv, ShellThreads
  PROVE  UNCHANGED <<Ctx, Run>>
<1>1. \A t \in Tasks : kind'[t] = IF kind[t] = "unused" THEN "thread" ELSE kind[t]
  BY DEF ShellThreads, Alive
<1>2. Procs' = Procs /\ \A t \in Procs : kind'[t] = kind[t]
  BY <1>1 DEF Procs
<1>3. hart.mode = "S" /\ hart'.mode = "S" /\ UNCHANGED <<stack, trapframe>>
  BY DEF ShellThreads, PcIs, GoTo, Inv, Types, Fields
<1> QED BY <1>2, <1>3, FramesStutter

\* The steps of the kernel that touch neither frames nor kinds.
LEMMA Hidden ==
  ASSUME Inv,
         \/ SwitchStep \/ TrampolineThread \/ UserProcessEntry
         \/ ReturnToUserSstatus \/ ReturnToUserSepc \/ ReturnToUserRegs \/ ReturnToUserSp
         \/ Timer \/ External \/ SysOther \/ Poll \/ RunCallback \/ CallbackEnds
         \/ ExitSepc \/ ExitSstatus \/ ExitSscratch \/ ExitRegs
         \/ (PcIs("thread") /\ Schedule(At("thread")) /\ OnlyHart) \/ ShellWait
  PROVE  UNCHANGED <<Ctx, Run>>
<1>1. DOMAIN hart = Fields
  BY DEF Inv, Types
<1>2. hart.mode = "S" /\ UNCHANGED <<stack, trapframe, kind>>
  BY DEF SwitchStep, SwitchSave, SwitchLoad, SwitchTp, TrampolineThread, UserProcessEntry,
         ReturnToUserSstatus, ReturnToUserSepc, ReturnToUserRegs, ReturnToUserSp,
         Timer, External, SysOther, Poll, RunCallback, CallbackEnds,
         ExitSepc, ExitSstatus, ExitSscratch, ExitRegs, ShellWait, PcIs, OnlyHart
<1>3. ASSUME NEW pc, GoTo(pc) PROVE hart'.mode = hart.mode
  BY <1>1, <1>3 DEF GoTo, Fields
<1>4. ASSUME NEW pc, Schedule(pc) PROVE hart'.mode = hart.mode
  BY <1>3, <1>4 DEF Schedule
<1>5. CASE SwitchStep \/ TrampolineThread \/ UserProcessEntry
  BY <1>1, <1>2, <1>3, <1>5, KernelStutter
  DEF SwitchStep, SwitchSave, SwitchLoad, SwitchTp, TrampolineThread, UserProcessEntry, Fields
<1>6. CASE ReturnToUserSstatus \/ ReturnToUserSepc \/ ReturnToUserRegs \/ ReturnToUserSp
  BY <1>1, <1>2, <1>6, KernelStutter
  DEF ReturnToUserSstatus, ReturnToUserSepc, ReturnToUserRegs, ReturnToUserSp, Fields
<1>7. CASE Timer \/ External \/ SysOther \/ Poll
  BY <1>2, <1>3, <1>4, <1>7, KernelStutter DEF Timer, External, SysOther, Poll
<1>8. CASE RunCallback \/ CallbackEnds \/ ExitSepc \/ ExitSstatus \/ ExitSscratch \/ ExitRegs
  BY <1>1, <1>2, <1>8, KernelStutter
  DEF RunCallback, CallbackEnds, ExitSepc, ExitSstatus, ExitSscratch, ExitRegs, Fields
<1>9. CASE (PcIs("thread") /\ Schedule(At("thread")) /\ OnlyHart) \/ ShellWait
  BY <1>2, <1>3, <1>4, <1>9, KernelStutter DEF ShellWait
<1> QED BY <1>5, <1>6, <1>7, <1>8, <1>9

\* Every step of the trap path is a step of the contexts or hidden.
LEMMA StepSimulated ==
  ASSUME QuietWindow, Inv, [Next]_vars
  PROVE  [C!Next]_<<Ctx, Run>>
<1>1. CASE Interrupt \/ Fault \/ Ecall
  <2>1. CASE hart.mode = "U"
    <3>1. \E cause \in Causes : Trap(cause)
      BY <1>1 DEF Interrupt, Fault, Ecall, Causes
    <3> QED BY <2>1, <3>1, UserTrapLeaves DEF C!Next
  <2>2. CASE hart.mode # "U"
    BY <1>1, <2>2, KernelTrapHidden
  <2> QED BY <2>1, <2>2
<1>2. CASE SwitchStep
  BY <1>2, Hidden
<1>3. CASE FirstSteps
  BY <1>3, Hidden, FirstSretEnters DEF FirstSteps, C!Next
<1>4. CASE UNCHANGED vars
  BY <1>4 DEF vars, Ctx, Run, Procs, UserContext
<1>5. CASE DoTrap
  BY <1>4, <1>5, Hidden, ForkSimulated, ExecSimulated, EndSimulated
  DEF DoTrap, Stopped, C!Next
<1>6. CASE ExitStep
  BY <1>6, Hidden, ExitSretSimulated DEF ExitStep, C!Next
<1>7. CASE TaskStep
  BY <1>7, Hidden, EndSimulated, CreateSimulated, ShellThreadsHidden, ComputeSimulated
  DEF TaskStep, Thread, C!Next
<1> QED BY <1>1, <1>2, <1>3, <1>4, <1>5, <1>6, <1>7 DEF Next

\* Interrupts, traps and switches are invisible to processes: the registers of a
\* process change only by its own instructions and by its own exec.
THEOREM RegistersAlwaysKept == ASSUME QuietWindow PROVE Spec => RegistersKept
<1>1. Init => C!Init
  <2> SUFFICES ASSUME Init PROVE C!Init
    OBVIOUS
  <2>1. hart.mode = "S" /\ Procs = {}
    BY DEF Init, Procs
  <2> QED BY <2>1 DEF C!Init, Ctx, Run
<1>2. Inv /\ [Next]_vars => [C!Next]_<<Ctx, Run>>
  BY StepSimulated
<1> QED BY <1>1, <1>2, Invariance, PTL DEF Spec, RegistersKept, C!Spec
=============================================================================
