------------------------------ MODULE Timeouts ------------------------------
(***************************************************************************)
(* What setTimeout promises: the callback that prints an accepted message  *)
(* starts once, not before the message is due; callbacks start in the      *)
(* order in which the messages fall due, and those that fall due together  *)
(* in the order of their commands.                                         *)
(***************************************************************************)
EXTENDS Integers, Sequences, SequencesExt

VARIABLES
  now,      \* the clock
  waiting   \* the messages whose callback has not started, each with the time it falls due

vars == <<now, waiting>>

Init == now = 0 /\ waiting = <<>>

\* A message goes behind those that are due no later, in front of the others.
Accept ==
  /\ \E i \in 1 .. Len(waiting') :
       LET new == waiting'[i]
       IN  /\ waiting = RemoveAt(waiting', i)
           /\ new.due >= now
           /\ \A j \in 1 .. Len(waiting) :
                /\ waiting[j].cb # new.cb
                /\ j < i <=> waiting[j].due <= new.due
  /\ UNCHANGED now

\* A callback starts.
Emit ==
  /\ waiting # <<>> /\ Head(waiting).due <= now
  /\ waiting' = Tail(waiting)
  /\ UNCHANGED now

Advance == now' = now + 1 /\ UNCHANGED waiting

Next == Accept \/ Emit \/ Advance

Spec == Init /\ [][Next]_vars
=============================================================================
