------------------------------- MODULE MCUart -------------------------------
(***************************************************************************)
(* An instance of UartRing: a sender that uses a plain byte and the        *)
(* carriage return, which the readers of lines and images convert.         *)
(***************************************************************************)
EXTENDS UartProps

SomeBytes == {"x", "cr"}
=============================================================================
