-------------------------------- MODULE Heap --------------------------------
(***************************************************************************)
(* What a memory allocator promises its callers: what it gives out lies in *)
(* memory, is as large as was asked for, and overlaps neither a reserved   *)
(* region nor anything that was given out before and not freed since.      *)
(***************************************************************************)
EXTENDS Integers

CONSTANT Limit   \* the size of the memory

VARIABLES
  reserved,   \* regions not to be given out
  given       \* what has been given out, with the sizes asked for

vars == <<reserved, given>>

Apart(x, y) == x.end <= y.start \/ y.end <= x.start

Init == given = {}

\* Regions are reserved before anything is given out.
Reserve == given = {} /\ reserved \subseteq reserved' /\ UNCHANGED given

Alloc ==
  /\ \E x \in given' \ given :
       /\ given' = given \cup {x}
       /\ 0 <= x.start /\ x.end <= Limit /\ x.size <= x.end - x.start
       /\ \A y \in given \cup reserved : Apart(x, y)
  /\ UNCHANGED reserved

Free == (\E x \in given : given' = given \ {x}) /\ UNCHANGED reserved

Next == Reserve \/ Alloc \/ Free

Spec == Init /\ [][Next]_vars
=============================================================================
