----------------------------- MODULE MCDeferred -----------------------------
(***************************************************************************)
(* Instances of Deferred for model checking: the message slots are alike.  *)
(***************************************************************************)
EXTENDS DeferredProps, TLC

CONSTANTS a, b, c

TwoSlots == {a, b}
ThreeSlots == {a, b, c}
Alike == Permutations(Msgs)

\* Nothing, one and two ticks, and a number that wrapped.
SomeDelays == {-1, 0, 1, 2}
OneDelay == {1}
=============================================================================
