------------------------------ MODULE PageMap -------------------------------
(***************************************************************************)
(* What page tables promise: every address space is a partial map from     *)
(* virtual to physical pages, to which pages are added one at a time, and  *)
(* never in the place of others.  The kernel half is the same everywhere.  *)
(***************************************************************************)
CONSTANTS
  KernelMap,  \* the kernel half
  BootMap,    \* the map paging is switched on with: the kernel half and a bridge
  Kernel      \* the address space of the kernel

VARIABLE maps

Init == maps = [s \in {} |-> KernelMap]

With(s, m) == [t \in DOMAIN maps \cup {s} |-> IF t = s THEN m ELSE maps[t]]

SwitchOn == maps = [s \in {} |-> KernelMap] /\ maps' = With(Kernel, BootMap)

DropBridge == maps' = [maps EXCEPT ![Kernel] = KernelMap]

New(s) == s \notin DOMAIN maps /\ maps' = With(s, KernelMap)

Add(s, v, p) ==
  /\ v \notin DOMAIN maps[s]
  /\ maps' = With(s, [u \in DOMAIN maps[s] \cup {v} |-> IF u = v THEN p ELSE maps[s][u]])

\* The spaces that nothing refers to any longer.
Lose(S) == maps' = [t \in DOMAIN maps \ S |-> maps[t]]

\* The spaces, pages and entries of the next state are those that may be added.
Next ==
  \/ SwitchOn
  \/ DropBridge
  \/ \E s \in DOMAIN maps' : New(s)
  \/ \E s \in (DOMAIN maps \ {Kernel}) \cap DOMAIN maps' :
       \E v \in DOMAIN maps'[s] : Add(s, v, maps'[s][v])
  \/ \E S \in SUBSET (DOMAIN maps \ {Kernel}) : Lose(S)

Spec == Init /\ [][Next]_maps
=============================================================================
