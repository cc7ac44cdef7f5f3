---------------------------- MODULE MessageChannel ----------------------------
(***************************************************************************)
(* What the path from the clients to the aggregation promises: a message   *)
(* that was sent is delivered whole, once, as its sender's, or it is lost; *)
(* while the path is not lossy none is lost, and as long as it is not all  *)
(* are delivered.                                                          *)
(***************************************************************************)
EXTENDS Sequences

CONSTANT Messages

VARIABLES inflight,   \* sent, and neither delivered nor lost
          delivered,
          lossy       \* the path may lose messages: decided elsewhere

vars == <<inflight, delivered>>

Init == inflight = {} /\ delivered = <<>>

Delivered == {delivered[i] : i \in DOMAIN delivered}

Send(m) ==
    /\ m \notin inflight \cup Delivered
    /\ inflight' = inflight \cup {m}
    /\ UNCHANGED delivered

Deliver(m) ==
    /\ m \in inflight
    /\ inflight' = inflight \ {m}
    /\ delivered' = Append(delivered, m)

Lose(lost) ==
    /\ lossy'
    /\ inflight' = inflight \ lost
    /\ UNCHANGED delivered

Next == \/ \E m \in Messages : Send(m) \/ Deliver(m)
        \/ \E lost \in SUBSET inflight : Lose(lost)

(* On a path that stays reliable every message in flight arrives. *)
Spec == /\ Init /\ [][Next]_vars
        /\ \A m \in Messages : WF_vars(~lossy /\ Deliver(m))
=============================================================================
