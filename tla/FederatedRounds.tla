--------------------------- MODULE FederatedRounds ---------------------------
(***************************************************************************)
(* What the federated learning system promises, without threads, messages  *)
(* or polling.  Training goes through Cycle rounds.  In each round every   *)
(* client contributes at most once; the model of the next round is         *)
(* published only when all of them have, and it averages the contributions *)
(* of all of them.                                                         *)
(***************************************************************************)
EXTENDS Naturals

CONSTANTS Clients,  \* the clients taking part in the training
          Cycle     \* the number of rounds to run

VARIABLES round,    \* rounds completed so far
          gathered, \* clients whose contribution to this round has arrived
          global    \* clients averaged in the model in force

vars == <<round, gathered, global>>

Init == /\ round = 0
        /\ gathered = {}
        /\ global = {}

Gather(c) ==
    /\ c \notin gathered
    /\ gathered' = gathered \cup {c}
    /\ UNCHANGED <<round, global>>

Publish ==
    /\ round < Cycle
    /\ gathered = Clients
    /\ round' = round + 1
    /\ gathered' = {}
    /\ global' = gathered

Next == Publish \/ \E c \in Clients : Gather(c)

(* A contribution is owed only while rounds remain: the last model is      *)
(* published and nobody has to answer it.                                  *)
Fairness == /\ WF_vars(Publish)
            /\ \A c \in Clients : WF_vars(round < Cycle /\ Gather(c))

Spec == Init /\ [][Next]_vars /\ Fairness
=============================================================================
