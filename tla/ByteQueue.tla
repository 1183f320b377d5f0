----------------------------- MODULE ByteQueue -----------------------------
(***************************************************************************)
(* What the receive side of the UART promises its readers: the bytes on    *)
(* the line are taken in their order, each once, except those that find    *)
(* the queue full, which are dropped and counted.                          *)
(***************************************************************************)
EXTENDS Integers, Sequences

CONSTANTS
  Bytes,    \* the bytes on the line
  Capacity  \* how many bytes can wait

VARIABLES
  line,     \* the bytes in the receiver of the hardware
  queue,    \* the bytes that wait for a reader
  dropped,  \* how many bytes have been dropped
  taken     \* what the readers have taken

vars == <<line, queue, dropped, taken>>

Init == line = <<>> /\ queue = <<>> /\ dropped = 0 /\ taken = <<>>

Arrive ==
  /\ \E b \in Bytes : line' = Append(line, b)
  /\ UNCHANGED <<queue, dropped, taken>>

Accept ==
  /\ line # <<>> /\ Len(queue) < Capacity
  /\ queue' = Append(queue, Head(line))
  /\ line' = Tail(line)
  /\ UNCHANGED <<dropped, taken>>

Drop ==
  /\ line # <<>> /\ Len(queue) = Capacity
  /\ dropped' = dropped + 1
  /\ line' = Tail(line)
  /\ UNCHANGED <<queue, taken>>

Take ==
  /\ queue # <<>>
  /\ taken' = Append(taken, Head(queue))
  /\ queue' = Tail(queue)
  /\ UNCHANGED <<line, dropped>>

Next == Arrive \/ Accept \/ Drop \/ Take

Spec == Init /\ [][Next]_vars
=============================================================================
