------------------------------ MODULE Contexts ------------------------------
(***************************************************************************)
(* What traps and context switches promise to user processes: each process *)
(* has registers of its own, which only its own instructions and its own   *)
(* exec change.  Interrupts and switches are invisible.                    *)
(***************************************************************************)
EXTENDS Naturals

CONSTANTS
  Processes,  \* the slots of processes
  Kernel,     \* stands for the kernel, where a process is expected
  Values,     \* the values of the registers
  Zero        \* their value in a fresh process

VARIABLES
  ctx,  \* the registers of the processes that exist
  run   \* who executes: a process or the kernel

Stack(p) == [area |-> "u", of |-> p, n |-> 0]
Fresh(p) == [x |-> Zero, sp |-> Stack(p), pc |-> [at |-> "entry"]]

With(p, c) == [q \in DOMAIN ctx \cup {p} |-> IF q = p THEN c ELSE ctx[q]]
Without(P) == [q \in DOMAIN ctx \ P |-> ctx[q]]

Init == ctx = [p \in {} |-> 0] /\ run = Kernel

Enter(p) == run = Kernel /\ run' = p /\ ctx' = ctx
Leave == run # Kernel /\ run' = Kernel /\ ctx' = ctx

Compute(p) ==
  /\ run = p /\ run' = p
  /\ \E v \in Values : ctx' = With(p, [ctx[p] EXCEPT !.x = v, !.pc = [at |-> "body"]])

Create(p) == p \notin DOMAIN ctx /\ ctx' = With(p, Fresh(p))
Fork(p, c) == c \notin DOMAIN ctx /\ ctx' = With(c, [ctx[p] EXCEPT !.sp = Stack(c)])
Exec(p) == ctx' = With(p, Fresh(p))
End(p) == ctx' = Without({p})

Manage ==
  /\ run = Kernel /\ run' = Kernel
  /\ \/ \E p \in Processes : Create(p)
     \/ \E p \in DOMAIN ctx : Exec(p) \/ End(p) \/ \E c \in Processes : Fork(p, c)

Next == Manage \/ Leave \/ \E p \in DOMAIN ctx : Enter(p) \/ Compute(p)

Spec == Init /\ [][Next]_<<ctx, run>>
=============================================================================
