---------------------------- MODULE MCGlobalModel ----------------------------
(* Instances of GlobalModel for TLC: one input neuron, an output layer of   *)
(* two, so five parameters, one of them a bias that is never cleared.       *)
EXTENDS GlobalModel

SmallShape == <<1, 2>>

(* Three networks with different signs, a zero, and no two parameters whose *)
(* values always agree.                                                     *)
SmallModels ==
    {[p \in Params |-> (p[1] + 2 * p[2] + 3 * p[3]) * sign] : sign \in {-1, 0, 1}}
    \cup {[p \in Params |-> IF p[2] = 1 THEN 2 ELSE -3]}
=============================================================================
