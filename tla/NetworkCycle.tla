---------------------------- MODULE NetworkCycle ----------------------------
(***************************************************************************)
(* The way of a model round the system: the server builds it in memory, a  *)
(* client fetches, trains and sends it, and the server converts the update,*)
(* sums it, and publishes a copy of the sums.  Composes NetworkMemory (the *)
(* server) and Training (the client) for one client, which trains while    *)
(* the server is at rest.                                                  *)
(***************************************************************************)
EXTENDS Training

CONSTANT Memory  \* bound: nodes that the server's memory holds

ASSUME MemoryAssumption == Memory \in Nat \ {0, 1}

VARIABLES heap, global, sums, at, target, loop, current, new, received, forgotten

Server == INSTANCE NetworkMemory WITH Updates <- Rounds

serverVars == <<heap, global, sums, at, target, loop, current, new, received,
                forgotten>>
vars == <<trainVars, serverVars>>

Init == TrainInit /\ Server!MemoryInit

\* The global model is fetched, once more after an update was dropped.
Fetch ==
  /\ at = "ready" /\ received = round
  /\ ReplaceNeuralNetwork
  /\ UNCHANGED serverVars

\* The trained model reaches the server.
Send ==
  /\ pc = "idle" /\ trainingscounter = 1 /\ received < round
  /\ Server!ReceiveUpdate
  /\ UNCHANGED trainVars

Next ==
  \/ Fetch \/ Send
  \/ TrainStep /\ UNCHANGED serverVars
  \/ Server!MemoryStep /\ UNCHANGED trainVars

Spec == Init /\ [][Next]_vars

TypeOK == TrainTypeOK /\ Server!MemoryTypeOK

NetworksAreSound == Server!NetworksAreSound
=============================================================================
