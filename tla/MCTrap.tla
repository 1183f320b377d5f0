------------------------------- MODULE MCTrap -------------------------------
(* The instances of TrapPath that TLC checks. *)
EXTENDS TrapProps
=============================================================================
