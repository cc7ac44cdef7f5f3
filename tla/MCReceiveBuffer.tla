--------------------------- MODULE MCReceiveBuffer ---------------------------
(* Instances of ReceiveBuffer for TLC. *)
EXTENDS ReceiveBuffer

CONSTANTS c1, c2, c3
=============================================================================
