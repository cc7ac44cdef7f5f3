--------------------------- MODULE MCModelExchange ---------------------------
(***************************************************************************)
(* ModelExchange with a network whose text fits into the largest buffer,   *)
(* and one whose text only does when some of it was left out.              *)
(***************************************************************************)
EXTENDS ModelExchange

MCNetworkSizes == {<<2, 1>>, <<1, 1, 1>>}
=============================================================================
