----------------------- MODULE FederatedLearningProofs -----------------------
(***************************************************************************)
(* Theorems about FederatedLearning, for any finite set of clients, any    *)
(* number of rounds, any bound on failures.                                *)
(*                                                                         *)
(* What holds whenever updates arrive comes first (AnytimeInv).  The       *)
(* safety of the rounds (RoundInv) needs two hypotheses, which the         *)
(* theorems name: an update is handled or lost before its client polls     *)
(* again, and no device is left out of the CLIENTNODES the server waits    *)
(* for.                                                                    *)
(***************************************************************************)
EXTENDS FederatedLearning, FiniteSetTheorems, TLAPS

USE ConstantsAssumption
-----------------------------------------------------------------------------
(* Type correctness.  The WebSocket thread reads the head of the queue in  *)
(* every place but lws_service, so the type of what it sums depends on the *)
(* queue not being empty there.                                            *)
WorksOnMessage == ws # "service" => queue # <<>>

(* Outside lws_service the head of the queue is an update. *)
LEMMA HeadIsUpdate ==
    ASSUME TypeOK, WorksOnMessage, ws # "service"
    PROVE  /\ Message \in Updates
           /\ Message = queue[1]
           /\ Len(queue) \in Nat \ {0}
           /\ Tail(queue) \in Seq(Updates)
  BY DEF TypeOK, WorksOnMessage, Message

(* Every variable has the type its C declaration and use give it, in every *)
(* reachable state, for all values of the constants.                       *)
THEOREM TypeCorrect == Spec => [](TypeOK /\ WorksOnMessage)
<1>1. Init => TypeOK /\ WorksOnMessage
  <2> SUFFICES ASSUME Init
               PROVE  TypeOK /\ WorksOnMessage
    OBVIOUS
  <2>1. /\ model \in [intact : BOOLEAN, version : Nat, parts : SUBSET Updates]
        /\ up \in BOOLEAN /\ clogged \in BOOLEAN
    BY DEF Init
  <2>2. /\ queue \in Seq(Updates)
        /\ pc \in [Clients -> ClientPC]
        /\ interaction \in [Clients -> Nat]
        /\ base \in [Clients -> Nat] /\ sends \in [Clients -> Nat]
    BY DEF Init, ClientPC
  <2>3. QED
    BY <2>1, <2>2 DEF Init, TypeOK, WorksOnMessage, ThreadPC
<1>2. TypeOK /\ WorksOnMessage /\ [Next]_vars => (TypeOK /\ WorksOnMessage)'
  <2> SUFFICES ASSUME TypeOK, WorksOnMessage, [Next]_vars
               PROVE  (TypeOK /\ WorksOnMessage)'
    OBVIOUS
  <2> USE DEF TypeOK, WorksOnMessage, server, thread, clients, outside, Goto,
              Thread, ClientPC, ThreadPC
  <2>1. CASE UNCHANGED vars
    BY <2>1 DEF vars
  <2>2. ASSUME NEW c \in Clients, ClientStep(c)
        PROVE  (TypeOK /\ WorksOnMessage)'
    <3>1. CASE Register(c)
      BY <3>1 DEF Register, NodeRegistered
    <3>2. CASE StatusZero(c)
      BY <3>2 DEF StatusZero, vars
    <3>3. CASE CheckStatus(c)
      BY <3>3 DEF CheckStatus
    <3>4. CASE CompareInteraction(c)
      BY <3>4 DEF CompareInteraction
    <3>5. CASE CompareWithoutNode(c)
      BY <3>5 DEF CompareWithoutNode
    <3>6. CASE ReadStatus(c)
      BY <3>6 DEF ReadStatus
    <3>7. CASE BeginSerialise(c)
      BY <3>7 DEF BeginSerialise
    <3>8. CASE EndSerialise(c)
      BY <3>8 DEF EndSerialise
    <3>9. CASE SerialiseFreed(c)
      BY <3>9 DEF SerialiseFreed
    <3>10. CASE SendUpdate(c)
      <4>1. [client |-> c, model |-> base[c], number |-> sends[c] + 1] \in Updates
        BY DEF Updates
      <4>2. QED
        BY <3>10, <4>1 DEF SendUpdate
    <3>11. QED
      BY <2>2, <3>1, <3>2, <3>3, <3>4, <3>5, <3>6, <3>7, <3>8, <3>9,
         <3>10 DEF ClientStep
  <2>3. CASE ThreadStep
    <3>1. CASE StartHandling
      BY <3>1 DEF StartHandling
    <3>2. CASE CountInteraction
      <4>1. ws # "service"
        BY <3>2 DEF CountInteraction
      <4>2. Message.client \in Clients
        BY <4>1, HeadIsUpdate DEF Updates
      <4>3. QED
        BY <3>2, <4>1, <4>2 DEF CountInteraction
    <3>3. CASE LowerStatus
      BY <3>3 DEF LowerStatus
    <3>4. CASE Sum
      <4>1. Message \in Updates
        BY <3>4, HeadIsUpdate DEF Sum
      <4>2. QED
        BY <3>4, <4>1 DEF Sum
    <3>5. CASE Await
      BY <3>5 DEF Await
    <3>6. CASE CompleteRound
      BY <3>6 DEF CompleteRound
    <3>7. CASE Average
      BY <3>7 DEF Average
    <3>8. CASE FreeGlobal
      BY <3>8 DEF FreeGlobal
    <3>9. CASE CopyGlobal
      BY <3>9 DEF CopyGlobal
    <3>10. CASE SetZero
      BY <3>10 DEF SetZero
    <3>11. CASE Advance
      BY <3>11 DEF Advance
    <3>12. CASE RaiseStatus
      BY <3>12 DEF RaiseStatus
    <3>13. CASE RemoveMessage
      <4>1. Tail(queue) \in Seq(Updates)
        BY <3>13, HeadIsUpdate DEF RemoveMessage
      <4>2. QED
        BY <3>13, <4>1 DEF RemoveMessage
    <3>14. QED
      BY <2>3, <3>1, <3>2, <3>3, <3>4, <3>5, <3>6, <3>7, <3>8, <3>9,
         <3>10, <3>11, <3>12, <3>13 DEF ThreadStep
  <2>4. ASSUME NEW u \in network, Deliver(u)
        PROVE  (TypeOK /\ WorksOnMessage)'
    BY <2>4 DEF Deliver
  <2>5. ASSUME NEW u \in network, Swallow(u)
        PROVE  (TypeOK /\ WorksOnMessage)'
    BY <2>5 DEF Swallow
  <2>6. ASSUME NEW o \in orphans, OrphanStep(o)
        PROVE  (TypeOK /\ WorksOnMessage)'
    <3>1. /\ o \in Orphans
          /\ o.client \in Clients
          /\ [o EXCEPT !.place = "compare"] \in Orphans
          /\ [o EXCEPT !.place = "serialise", !.version = model.version] \in Orphans
      BY DEF Orphans, OrphanPC
    <3>2. CASE OrphanRegisters(o)
      <4>1. PICK c \in Clients : NodeRegistered(c)
        BY <3>1, <3>2 DEF OrphanRegisters
      <4>2. UNCHANGED <<clients, network, clogged, failures>> /\ orphans' \subseteq orphans
        BY <3>2 DEF OrphanRegisters, Ends
      <4>3. QED
        BY <4>1, <4>2 DEF NodeRegistered
    <3>3. CASE OrphanChecks(o) \/ OrphanBegins(o)
      BY <3>1, <3>3 DEF OrphanChecks, OrphanBegins, Becomes
    <3>4. CASE OrphanCompares(o) \/ OrphanEnds(o)
      BY <3>4 DEF OrphanCompares, OrphanEnds, Ends
    <3>5. CASE OrphanWithoutNode(o) \/ OrphanFreed(o)
      BY <3>5 DEF OrphanWithoutNode, OrphanFreed
    <3>6. QED
      BY <2>6, <3>2, <3>3, <3>4, <3>5 DEF OrphanStep
  <2>7. CASE Failure
    <3>1. ASSUME NEW c \in Clients, SendFails(c)
          PROVE  (TypeOK /\ WorksOnMessage)'
      BY <3>1 DEF SendFails
    <3>2. ASSUME NEW c \in Clients, TimesOut(c) \/ Reboot(c)
          PROVE  (TypeOK /\ WorksOnMessage)'
      <4>1. ASSUME pc[c] \in OrphanPC
            PROVE  [client |-> c, place |-> pc[c], version |-> base[c]] \in Orphans
        BY <4>1 DEF Orphans
      <4>2. orphans' \subseteq Orphans
        BY <3>2, <4>1 DEF TimesOut, Reboot, Leaves
      <4>3. /\ UNCHANGED <<server, thread, base, sends, network, clogged>>
            /\ failures' = failures + 1
        BY <3>2 DEF TimesOut, Reboot, Leaves
      <4>4. pc' = [pc EXCEPT ![c] = "poll"] \/ pc' = [pc EXCEPT ![c] = "boot"]
        BY <3>2 DEF TimesOut, Reboot, Leaves
      <4>5. pc' \in [Clients -> ClientPC]
        BY <4>4
      <4>6. QED
        BY <4>2, <4>3, <4>5
    <3>3. ASSUME NEW u \in network, LoseUpdate(u) \/ CutOff(u)
          PROVE  (TypeOK /\ WorksOnMessage)'
      <4>1. clogged' \in BOOLEAN
        BY <3>3 DEF LoseUpdate, CutOff
      <4>2. Lost(u)
        BY <3>3 DEF LoseUpdate, CutOff
      <4>3. QED
        BY <4>1, <4>2 DEF Lost
    <3>4. QED
      BY <2>7, <3>1, <3>2, <3>3 DEF Failure
  <2>8. QED
    BY <2>1, <2>2, <2>3, <2>4, <2>5, <2>6, <2>7 DEF Next
<1>3. QED
  BY <1>1, <1>2, PTL DEF Spec
-----------------------------------------------------------------------------
(* What holds whenever updates arrive and however many devices there are:  *)
(* the following invariants need neither of the hypotheses further down.   *)

Typed == TypeOK /\ WorksOnMessage

(* A round is being completed: everybody has interacted. *)
Completing == ws \in {"average", "free", "copy", "zero", "advance"}

(* Updates, invitations and rounds exist only once the list is full, and   *)
(* it is never changed again.                                              *)
TrainingIsOpen ==
    \/ network # {}
    \/ queue # <<>>
    \/ currentinteraction > 0
    \/ \E c \in Clients : pc[c] \notin {"boot", "poll"}
    => clientnodesregistered = ClientNodes

(* No node is behind, and none can be when the round is counted up. *)
Ahead ==
    /\ NobodyLeftBehind
    /\ Completing => \A c \in nodes : interaction[c] > currentinteraction

(* The places of the queue whose update has not been summed. *)
Unsummed ==
    {i \in 1..Len(queue) : i > 1 \/ ws \in {"service", "handle", "aggregate", "sum"}}

(* An update is in one place: on the network, queued, or in the sum.  A    *)
(* new one is told from all of them by its number.                         *)
OnlyOnce ==
    /\ \A u \in network : u.number <= sends[u.client]
    /\ \A i \in 1..Len(queue) : queue[i].number <= sends[queue[i].client]
    /\ \A u \in accumulator : u.number <= sends[u.client]
    /\ \A u \in network : u \notin accumulator
    /\ \A u \in network : \A i \in 1..Len(queue) : u # queue[i]
    /\ \A i, j \in 1..Len(queue) : queue[i] = queue[j] => i = j
    /\ \A i \in Unsummed : queue[i] \notin accumulator

(* The counter counts the sums, except between the average and SetZero. *)
Counter ==
    /\ IsFiniteSet(accumulator)
    /\ ws \notin {"free", "copy", "zero"} =>
         trainingscounter = Cardinality(accumulator)
    /\ ws \in {"free", "copy", "zero"} => trainingscounter = 0

(* ... and something has been summed before the average is taken. *)
Summed ==
    /\ Counter
    /\ ws \in {"check", "average"} => accumulator # {}

AnytimeInv == TrainingIsOpen /\ Ahead /\ OnlyOnce /\ Summed

(* Appending to the queue and removing its head, by index. *)
LEMMA AppendByIndex ==
    ASSUME queue \in Seq(Updates), NEW u \in Updates, queue' = Append(queue, u)
    PROVE  /\ Len(queue) \in Nat
           /\ Len(queue') = Len(queue) + 1
           /\ \A i \in 1..Len(queue) : queue'[i] = queue[i]
           /\ queue'[Len(queue) + 1] = u
           /\ queue' # <<>>
  OBVIOUS

LEMMA TailByIndex ==
    ASSUME queue \in Seq(Updates), queue # <<>>, queue' = Tail(queue)
    PROVE  /\ Len(queue) \in Nat \ {0}
           /\ Len(queue') = Len(queue) - 1
           /\ \A i \in 1..Len(queue') : /\ i + 1 \in 1..Len(queue)
                                        /\ queue'[i] = queue[i + 1]
  OBVIOUS

(* The updates on their way come from clients. *)
LEMMA ClientsOfUpdates ==
    ASSUME TypeOK
    PROVE  /\ \A u \in network : u \in Updates /\ u.client \in Clients
           /\ \A i \in 1..Len(queue) : queue[i] \in Updates /\ queue[i].client \in Clients
<1>1. \A u \in Updates : u.client \in Clients
  BY DEF Updates
<1>2. network \subseteq Updates /\ queue \in Seq(Updates)
  BY DEF TypeOK
<1>3. QED
  BY <1>1, <1>2

(* The steps of clients, failures among them, as far as AnytimeInv can see. *)
LEMMA AnytimeOutside ==
    ASSUME Typed, AnytimeInv,
           UNCHANGED <<currentinteraction, interaction, accumulator,
                       trainingscounter, ws, queue>>,
           \/ UNCHANGED nodes /\ UNCHANGED clientnodesregistered
           \/ clientnodesregistered # ClientNodes /\ nodes' \subseteq Clients,
           \/ network' \subseteq network /\ sends' = sends
           \/ \E c \in Clients, m \in Nat :
                /\ sends' = [sends EXCEPT ![c] = @ + 1]
                /\ network' = network \cup
                     {[client |-> c, model |-> m, number |-> sends[c] + 1]}
                /\ clientnodesregistered' = ClientNodes,
           \/ \A c \in Clients : pc'[c] \in {pc[c], "boot", "poll"}
           \/ clientnodesregistered' = ClientNodes
    PROVE  AnytimeInv'
<1> USE DEF Typed, AnytimeInv
<1>1. TrainingIsOpen'
  BY DEF TrainingIsOpen, TypeOK
<1>2. Ahead'
  <2>1. CASE UNCHANGED nodes
    BY <2>1 DEF Ahead, NobodyLeftBehind, Completing
  <2>2. CASE clientnodesregistered # ClientNodes /\ nodes' \subseteq Clients
    <3>1. queue = <<>> /\ currentinteraction = 0
      BY <2>2 DEF TrainingIsOpen, TypeOK
    <3>2. ws = "service"
      BY <3>1 DEF WorksOnMessage
    <3>3. \A c \in Clients : interaction[c] \in Nat
      BY DEF TypeOK
    <3>4. QED
      BY <2>2, <3>1, <3>2, <3>3 DEF Ahead, NobodyLeftBehind, Completing
  <2>3. QED
    BY <2>1, <2>2
<1>3. OnlyOnce'
  <2>1. CASE network' \subseteq network /\ sends' = sends
    BY <2>1 DEF OnlyOnce, Unsummed
  <2>2. ASSUME NEW c \in Clients, NEW m \in Nat,
               sends' = [sends EXCEPT ![c] = @ + 1],
               network' = network \cup
                 {[client |-> c, model |-> m, number |-> sends[c] + 1]}
        PROVE  OnlyOnce'
    <3> DEFINE new == [client |-> c, model |-> m, number |-> sends[c] + 1]
    <3>1. new.client = c /\ new.number = sends[c] + 1 /\ network' = network \cup {new}
      BY <2>2
    <3> HIDE DEF new
    <3>2. /\ sends \in [Clients -> Nat] /\ sends' \in [Clients -> Nat]
          /\ sends'[c] = sends[c] + 1
          /\ \A d \in Clients : d # c => sends'[d] = sends[d]
      BY <2>2 DEF TypeOK
    <3>3. \A u \in Updates : u.client \in Clients /\ u.number \in Nat
      BY DEF Updates
    <3>4. network \subseteq Updates /\ accumulator \subseteq Updates
          /\ \A i \in 1..Len(queue) : queue[i] \in Updates
      BY ClientsOfUpdates DEF TypeOK
    <3>5. \A u \in Updates : u.number <= sends[u.client] =>
                               u # new /\ u.number <= sends'[u.client]
      BY <3>1, <3>2, <3>3
    <3>6. new.number <= sends'[new.client]
      BY <3>1, <3>2
    <3>7. /\ \A u \in network' : u.number <= sends'[u.client]
          /\ \A i \in 1..Len(queue) : queue[i].number <= sends'[queue[i].client]
          /\ \A u \in accumulator : u.number <= sends'[u.client]
      BY <3>1, <3>4, <3>5, <3>6 DEF OnlyOnce
    <3>8. /\ \A u \in network' : u \notin accumulator
          /\ \A u \in network' : \A i \in 1..Len(queue) : u # queue[i]
      BY <3>1, <3>4, <3>5 DEF OnlyOnce
    <3>9. QED
      BY <3>7, <3>8 DEF OnlyOnce, Unsummed
  <2>3. QED
    BY <2>1, <2>2
<1>4. Summed'
  BY DEF Summed, Counter
<1>5. QED
  BY <1>1, <1>2, <1>3, <1>4

(* callback_echo queues an update that was on its way. *)
LEMMA AnytimeDeliver ==
    ASSUME Typed, AnytimeInv, NEW u \in network, Deliver(u)
    PROVE  AnytimeInv'
<1> USE DEF Typed, AnytimeInv
<1>1. /\ ws = "service" /\ ws' = "service"
      /\ network' = network \ {u}
      /\ queue' = Append(queue, u)
      /\ u \in Updates
      /\ UNCHANGED <<server, clients, up>>
  BY DEF Deliver, TypeOK
<1>2. /\ Len(queue) \in Nat
      /\ Len(queue') = Len(queue) + 1
      /\ \A i \in 1..Len(queue) : queue'[i] = queue[i]
      /\ queue'[Len(queue) + 1] = u
  BY <1>1, AppendByIndex DEF TypeOK
<1>3. TrainingIsOpen' /\ Ahead' /\ Summed'
  BY <1>1 DEF TrainingIsOpen, Ahead, NobodyLeftBehind, Completing, Summed,
     Counter, server, clients
<1>4. OnlyOnce'
  BY <1>1, <1>2 DEF OnlyOnce, Unsummed, server, clients
<1>5. QED
  BY <1>3, <1>4

(* The WebSocket thread sums an update that is in the sum nowhere yet. *)
LEMMA AnytimeSum ==
    ASSUME Typed, AnytimeInv, Sum
    PROVE  AnytimeInv'
<1> USE DEF Typed, AnytimeInv
<1>1. /\ ws = "sum" /\ ws' = "check"
      /\ accumulator' = accumulator \cup {queue[1]}
      /\ trainingscounter' = trainingscounter + 1
      /\ UNCHANGED <<currentinteraction, nodes, clientnodesregistered,
                     interaction, queue, pc, sends, network>>
  BY HeadIsUpdate DEF Sum, Thread, clients, outside
<1>2. 1 \in 1..Len(queue) /\ Len(queue) \in Nat
  BY <1>1, HeadIsUpdate
<1>3. queue[1] \notin accumulator
  BY <1>1, <1>2 DEF OnlyOnce, Unsummed
<1>4. TrainingIsOpen' /\ Ahead'
  BY <1>1 DEF TrainingIsOpen, Ahead, NobodyLeftBehind, Completing
<1>5. OnlyOnce'
  BY <1>1, <1>2 DEF OnlyOnce, Unsummed
<1>6. Summed'
  <2>1. Cardinality(accumulator') = Cardinality(accumulator) + 1
        /\ IsFiniteSet(accumulator')
    BY <1>1, <1>3, FS_AddElement DEF Summed, Counter
  <2>2. QED
    BY <1>1, <2>1 DEF Summed, Counter
<1>7. QED
  BY <1>4, <1>5, <1>6

(* The other steps of the WebSocket thread. *)
LEMMA AnytimeThread ==
    ASSUME Typed, AnytimeInv, ThreadStep
    PROVE  AnytimeInv'
<1> USE DEF Typed, AnytimeInv
<1>1. CASE CountInteraction
  <2>1. Message.client \in Clients
    BY <1>1, HeadIsUpdate DEF CountInteraction, Updates
  <2>2. \A c \in Clients : interaction[c] \in Nat /\ interaction'[c] >= interaction[c]
    BY <1>1, <2>1 DEF CountInteraction, TypeOK
  <2>3. nodes \subseteq Clients /\ currentinteraction \in Nat
    BY DEF TypeOK
  <2>4. Ahead'
    BY <1>1, <2>2, <2>3 DEF CountInteraction, Ahead, NobodyLeftBehind, Completing
  <2>5. TrainingIsOpen' /\ OnlyOnce' /\ Summed'
    BY <1>1 DEF CountInteraction, clients, outside,
     TrainingIsOpen, OnlyOnce, Unsummed,
       Summed, Counter
  <2>6. QED
    BY <2>4, <2>5
<1>2. CASE StartHandling \/ LowerStatus \/ Await \/ FreeGlobal
           \/ CopyGlobal \/ RaiseStatus
  BY <1>2 DEF StartHandling, LowerStatus, Await, FreeGlobal, CopyGlobal,
     RaiseStatus, Thread, server, clients, outside,
     TrainingIsOpen, Ahead,
     NobodyLeftBehind, Completing, OnlyOnce, Unsummed, Summed, Counter
<1>3. CASE CompleteRound
  <2>1. \A c \in nodes : interaction[c] \in Nat /\ currentinteraction \in Nat
    BY DEF TypeOK
  <2>2. Ahead'
    BY <1>3, <2>1 DEF CompleteRound, AllReceived, Thread, server, Ahead,
       NobodyLeftBehind
  <2>3. TrainingIsOpen' /\ OnlyOnce' /\ Summed'
    BY <1>3 DEF CompleteRound, Thread, server, clients, outside,
     TrainingIsOpen,
       OnlyOnce, Unsummed, Summed, Counter
  <2>4. QED
    BY <2>2, <2>3
<1>4. CASE Average
  BY <1>4 DEF Average, Thread, clients, outside,
     TrainingIsOpen, Ahead,
     NobodyLeftBehind, Completing, OnlyOnce, Unsummed, Summed, Counter
<1>5. CASE SetZero
  <2>1. IsFiniteSet({}) /\ Cardinality({}) = 0
    BY FS_EmptySet
  <2>2. QED
    BY <1>5, <2>1 DEF SetZero, Thread, clients, outside,
     TrainingIsOpen, Ahead,
       NobodyLeftBehind, Completing, OnlyOnce, Unsummed, Summed, Counter
<1>6. CASE Advance
  <2>1. /\ queue # <<>>
        /\ \A c \in nodes : interaction[c] \in Nat /\ currentinteraction \in Nat
    BY <1>6 DEF Advance, Thread, TypeOK, WorksOnMessage
  <2>2. QED
    BY <1>6, <2>1 DEF Advance, Thread, clients, outside,
     TrainingIsOpen, Ahead,
       NobodyLeftBehind, Completing, OnlyOnce, Unsummed, Summed, Counter
<1>7. CASE RemoveMessage
  <2>1. /\ ws = "remove" /\ ws' \in {"service", "handle"}
        /\ queue # <<>>
        /\ queue' = Tail(queue)
        /\ UNCHANGED <<server, clients, network>>
    BY <1>7 DEF RemoveMessage, Thread, outside, WorksOnMessage
  <2>2. /\ Len(queue) \in Nat \ {0}
        /\ Len(queue') = Len(queue) - 1
        /\ \A i \in 1..Len(queue') : i + 1 \in 1..Len(queue) /\ queue'[i] = queue[i + 1]
    BY <2>1, TailByIndex DEF TypeOK
  <2>3. TrainingIsOpen' /\ Ahead' /\ Summed'
    BY <2>1 DEF TrainingIsOpen, Ahead, NobodyLeftBehind, Completing, Summed,
       Counter, server, clients
  <2>4. OnlyOnce'
    BY <2>1, <2>2 DEF OnlyOnce, Unsummed, server, clients
  <2>5. QED
    BY <2>3, <2>4
<1>8. QED
  BY <1>1, <1>2, <1>3, <1>4, <1>5, <1>6, <1>7, AnytimeSum DEF ThreadStep

(* An abandoned request changes nothing that others can see, unless it     *)
(* registers its client or stops the server.                               *)
LEMMA OtherOrphans ==
    ASSUME NEW o \in orphans, OrphanStep(o), ~OrphanRegisters(o)
    PROVE  UNCHANGED <<server, ws, queue, clients, network>>
  BY DEF OrphanStep, OrphanChecks, OrphanCompares, OrphanWithoutNode,
     OrphanBegins, OrphanEnds, OrphanFreed, Ends, Becomes, thread, outside

(* The invariant of everything that holds without the hypotheses below.    *)
THEOREM AnytimeInvariant == Spec => [](Typed /\ AnytimeInv)
<1>1. Init => AnytimeInv
  <2>1. IsFiniteSet({}) /\ Cardinality({}) = 0
    BY FS_EmptySet
  <2>2. QED
    BY <2>1 DEF Init, AnytimeInv, TrainingIsOpen, Ahead, NobodyLeftBehind,
       Completing, OnlyOnce, Unsummed, Summed, Counter
<1>2. Typed /\ AnytimeInv /\ [Next]_vars => AnytimeInv'
  <2> SUFFICES ASSUME Typed, AnytimeInv, [Next]_vars
               PROVE  AnytimeInv'
    OBVIOUS
  <2> USE DEF server, thread, clients, outside, Goto
  <2>1. CASE UNCHANGED vars
    BY <2>1, AnytimeOutside DEF vars
  <2>2. ASSUME NEW c \in Clients, ClientStep(c)
        PROVE  AnytimeInv'
    <3>0. pc \in [Clients -> ClientPC] /\ base[c] \in Nat
      BY DEF Typed, TypeOK
    <3>1. CASE Register(c)
      BY <3>0, <3>1, AnytimeOutside DEF Register, NodeRegistered, Typed, TypeOK
    <3>2. CASE StatusZero(c)
      BY <3>2, AnytimeOutside DEF StatusZero, vars
    <3>3. CASE CheckStatus(c)
      BY <3>3, AnytimeOutside DEF CheckStatus
    <3>4. ASSUME pc[c] \notin {"boot", "poll"}
          PROVE  clientnodesregistered = ClientNodes
      BY <3>4 DEF AnytimeInv, TrainingIsOpen
    <3>5. CASE CompareInteraction(c) \/ ReadStatus(c) \/ BeginSerialise(c)
               \/ EndSerialise(c)
      BY <3>4, <3>5, AnytimeOutside DEF CompareInteraction, ReadStatus,
         BeginSerialise, EndSerialise
    <3>6. CASE CompareWithoutNode(c) \/ SerialiseFreed(c)
      BY <3>6, AnytimeOutside DEF CompareWithoutNode, SerialiseFreed
    <3>7. CASE SendUpdate(c)
      BY <3>0, <3>4, <3>7, AnytimeOutside DEF SendUpdate
    <3>8. QED
      BY <2>2, <3>1, <3>2, <3>3, <3>5, <3>6, <3>7 DEF ClientStep
  <2>3. CASE ThreadStep
    BY <2>3, AnytimeThread
  <2>4. ASSUME NEW u \in network, Deliver(u)
        PROVE  AnytimeInv'
    BY <2>4, AnytimeDeliver
  <2>5. ASSUME NEW u \in network, Swallow(u)
        PROVE  AnytimeInv'
    BY <2>5, AnytimeOutside DEF Swallow
  <2>6. ASSUME NEW o \in orphans, OrphanStep(o)
        PROVE  AnytimeInv'
    <3>1. CASE OrphanRegisters(o)
      <4>1. o.client \in Clients
        BY DEF Typed, TypeOK, Orphans
      <4>2. QED
        BY <3>1, <4>1, AnytimeOutside DEF OrphanRegisters, NodeRegistered, Ends,
           Typed, TypeOK
    <3>2. CASE ~OrphanRegisters(o)
      BY <2>6, <3>2, AnytimeOutside, OtherOrphans
    <3>3. QED
      BY <3>1, <3>2
  <2>7. CASE Failure
    <3>0. pc \in [Clients -> ClientPC]
      BY DEF Typed, TypeOK
    <3>1. ASSUME NEW c \in Clients, TimesOut(c) \/ SendFails(c) \/ Reboot(c)
          PROVE  AnytimeInv'
      BY <3>0, <3>1, AnytimeOutside DEF TimesOut, SendFails, Reboot, Leaves
    <3>2. ASSUME NEW u \in network, LoseUpdate(u) \/ CutOff(u)
          PROVE  AnytimeInv'
      BY <3>2, AnytimeOutside DEF LoseUpdate, CutOff, Lost
    <3>3. QED
      BY <2>7, <3>1, <3>2 DEF Failure
  <2>8. QED
    BY <2>1, <2>2, <2>3, <2>4, <2>5, <2>6, <2>7 DEF Next
<1>3. QED
  BY <1>1, <1>2, TypeCorrect, PTL DEF Spec, Typed

(* No registered client falls behind the round, whatever updates arrive    *)
(* late and however many devices there are: none is left to wait for ever. *)
THEOREM NobodyIsLeftBehind == Spec => []NobodyLeftBehind
  BY AnytimeInvariant, PTL DEF AnytimeInv, Ahead

(* The average divides by the number of updates in the sum, never by none, *)
(* whatever updates arrive late and however many devices there are.        *)
THEOREM AveragesExact == Spec => []AverageIsExact
<1>1. Typed /\ AnytimeInv => AverageIsExact
  <2> SUFFICES ASSUME AnytimeInv, ws = "average"
               PROVE  /\ trainingscounter = Cardinality(accumulator)
                      /\ trainingscounter > 0
    BY DEF AverageIsExact
  <2>1. /\ IsFiniteSet(accumulator) /\ accumulator # {}
        /\ trainingscounter = Cardinality(accumulator)
    BY DEF AnytimeInv, Summed, Counter
  <2>2. Cardinality(accumulator) \in Nat /\ Cardinality(accumulator) # 0
    BY <2>1, FS_EmptySet, FS_CardinalityType
  <2>3. QED
    BY <2>1, <2>2
<1>2. QED
  BY <1>1, AnytimeInvariant, PTL
-----------------------------------------------------------------------------
(* Who may be unknown to the server.  Also without the hypotheses below.   *)

(* Nodes are counted one by one; invitations and updates are of registered *)
(* clients, and an abandoned request searches only in a full list.         *)
Admitted ==
    /\ clientnodesregistered = Cardinality(nodes)
    /\ \A c \in Clients :
         pc[c] \in {"status", "fetch", "serialise", "train"} => c \in nodes
    /\ \A u \in network \cup Queued : u.client \in nodes
    /\ \A o \in orphans : o.place = "compare" => clientnodesregistered = ClientNodes

(* What a step that adds nobody has to respect. *)
LEMMA AdmittedKeeps ==
    ASSUME Admitted, UNCHANGED <<nodes, clientnodesregistered>>,
           \A c \in Clients :
             \/ pc'[c] \notin {"status", "fetch", "serialise", "train"}
             \/ pc'[c] = pc[c]
             \/ c \in nodes,
           \A u \in (network \cup Queued)' :
             u \in network \cup Queued \/ u.client \in nodes,
           \A o \in orphans' :
             o \in orphans \/ o.place # "compare" \/ clientnodesregistered = ClientNodes
    PROVE  Admitted'
  BY DEF Admitted

(* handle_get_noderegister only adds. *)
LEMMA AdmittedRegisters ==
    ASSUME Typed, Admitted, NEW c \in Clients, NodeRegistered(c),
           \A d \in Clients : pc'[d] \in {pc[d], "poll"},
           network' = network,
           orphans' \subseteq orphans
    PROVE  Admitted'
<1>1. IsFiniteSet(nodes)
  BY FS_Subset DEF Typed, TypeOK
<1>2. c \notin nodes => Cardinality(nodes \cup {c}) = Cardinality(nodes) + 1
  BY <1>1, FS_AddElement
<1>3. /\ clientnodesregistered' = Cardinality(nodes')
      /\ nodes \subseteq nodes'
      /\ clientnodesregistered = ClientNodes => clientnodesregistered' = ClientNodes
  BY <1>2 DEF Admitted, NodeRegistered
<1>4. Queued' = Queued
  BY DEF NodeRegistered, thread, Queued
<1>5. QED
  BY <1>3, <1>4 DEF Admitted

(* Every step keeps it. *)
LEMMA AdmittedStep ==
    ASSUME Typed, AnytimeInv, Admitted, Next
    PROVE  Admitted'
<1> USE DEF server, thread, clients, outside, Goto, Queued
<1>0. pc \in [Clients -> ClientPC] /\ queue \in Seq(Updates)
  BY DEF Typed, TypeOK
<1>1. ASSUME NEW c \in Clients, ClientStep(c)
      PROVE  Admitted'
  <2>1. CASE Register(c)
    BY <1>0, <2>1, AdmittedRegisters DEF Register
  <2>2. CASE StatusZero(c) \/ CheckStatus(c) \/ CompareWithoutNode(c)
             \/ SerialiseFreed(c)
    BY <1>0, <2>2, AdmittedKeeps DEF StatusZero, CheckStatus,
       CompareWithoutNode, SerialiseFreed, vars
  <2>3. CASE CompareInteraction(c) \/ ReadStatus(c) \/ BeginSerialise(c)
             \/ EndSerialise(c)
    <3>1. c \in nodes
      BY <2>3 DEF CompareInteraction, ReadStatus, BeginSerialise, EndSerialise,
                  Admitted
    <3>2. QED
      BY <1>0, <2>3, <3>1, AdmittedKeeps DEF CompareInteraction, ReadStatus,
         BeginSerialise, EndSerialise
  <2>4. CASE SendUpdate(c)
    <3>1. c \in nodes
      BY <2>4 DEF SendUpdate, Admitted
    <3>2. QED
      BY <1>0, <2>4, <3>1, AdmittedKeeps DEF SendUpdate
  <2>5. QED
    BY <1>1, <2>1, <2>2, <2>3, <2>4 DEF ClientStep
<1>2. CASE ThreadStep
  <2>1. CASE RemoveMessage
    <3>1. queue' = Tail(queue) /\ queue # <<>>
      BY <2>1 DEF RemoveMessage, Thread, Typed, WorksOnMessage
    <3>2. Queued' \subseteq Queued
      BY <1>0, <3>1, TailByIndex
    <3>3. QED
      BY <2>1, <3>2, AdmittedKeeps DEF RemoveMessage
  <2>2. CASE ~RemoveMessage
    <3>1. UNCHANGED <<nodes, clientnodesregistered, pc, network, queue, orphans>>
      BY <1>2, <2>2 DEF ThreadStep, StartHandling, CountInteraction,
         LowerStatus, Sum, Await, CompleteRound, Average, FreeGlobal,
         CopyGlobal, SetZero, Advance, RaiseStatus
    <3>2. QED
      BY <3>1, AdmittedKeeps
  <2>3. QED
    BY <2>1, <2>2
<1>3. ASSUME NEW u \in network, Deliver(u)
      PROVE  Admitted'
  <2>1. Queued' \subseteq Queued \cup {u}
    <3>1. u \in Updates
      BY DEF Typed, TypeOK
    <3>2. QED
      BY <1>0, <1>3, <3>1 DEF Deliver
  <2>2. QED
    BY <1>3, <2>1, AdmittedKeeps DEF Deliver
<1>4. ASSUME NEW u \in network, Swallow(u) \/ LoseUpdate(u) \/ CutOff(u)
      PROVE  Admitted'
  BY <1>4, AdmittedKeeps DEF Swallow, LoseUpdate, CutOff, Lost
<1>5. ASSUME NEW o \in orphans, OrphanStep(o)
      PROVE  Admitted'
  <2>0. o \in Orphans /\ o.client \in Clients
    BY DEF Typed, TypeOK, Orphans
  <2>1. CASE OrphanRegisters(o)
    BY <2>0, <2>1, AdmittedRegisters DEF OrphanRegisters, Ends
  <2>2. CASE OrphanChecks(o)
    BY <2>2, AdmittedKeeps DEF OrphanChecks, Becomes
  <2>3. CASE OrphanBegins(o)
    <3>1. [o EXCEPT !.place = "serialise", !.version = model.version].place # "compare"
      BY <2>0 DEF Orphans
    <3>2. QED
      BY <2>3, <3>1, AdmittedKeeps DEF OrphanBegins, Becomes
  <2>4. CASE OrphanCompares(o) \/ OrphanWithoutNode(o) \/ OrphanEnds(o)
             \/ OrphanFreed(o)
    BY <2>4, AdmittedKeeps DEF OrphanCompares, OrphanWithoutNode, OrphanEnds,
       OrphanFreed, Ends
  <2>5. QED
    BY <1>5, <2>1, <2>2, <2>3, <2>4 DEF OrphanStep
<1>6. ASSUME NEW c \in Clients, TimesOut(c) \/ Reboot(c) \/ SendFails(c)
      PROVE  Admitted'
  <2>1. CASE SendFails(c)
    BY <1>0, <2>1, AdmittedKeeps DEF SendFails
  <2>2. CASE TimesOut(c) \/ Reboot(c)
    <3>1. pc[c] = "compare" => clientnodesregistered = ClientNodes
      BY DEF AnytimeInv, TrainingIsOpen
    <3>2. \A o \in orphans' : o \in orphans \/ o.place = pc[c]
      BY <2>2 DEF TimesOut, Reboot, Leaves
    <3>3. \A d \in Clients : pc'[d] \in {pc[d], "poll", "boot"}
      BY <1>0, <2>2 DEF TimesOut, Reboot, Leaves
    <3>4. UNCHANGED <<nodes, clientnodesregistered, network, queue>>
      BY <2>2 DEF TimesOut, Reboot, Leaves
    <3>5. QED
      BY <3>1, <3>2, <3>3, <3>4, AdmittedKeeps
  <2>3. QED
    BY <1>6, <2>1, <2>2
<1>7. QED
  BY <1>1, <1>2, <1>3, <1>4, <1>5, <1>6 DEF Next, Failure

(* A search of the node list fails only for a device beyond those that the *)
(* server waits for, and never for the sender of an update, whatever       *)
(* arrives late, is abandoned or reboots, however many devices there are.  *)
THEOREM UnknownWereRefused == Spec => []OnlyRefusedAreUnknown
<1>1. Init => Admitted
  BY FS_EmptySet DEF Init, Admitted, Queued
<1>2. Typed /\ AnytimeInv /\ Admitted /\ [Next]_vars => Admitted'
  <2>1. ASSUME Admitted, UNCHANGED vars
        PROVE  Admitted'
    BY <2>1 DEF vars, server, thread, clients, outside, Admitted, Queued
  <2>2. QED
    BY <2>1, AdmittedStep
<1>3. AnytimeInv /\ Admitted => OnlyRefusedAreUnknown
  BY DEF AnytimeInv, TrainingIsOpen, Admitted, OnlyRefusedAreUnknown, Sought
<1>4. QED
  BY <1>1, <1>2, <1>3, AnytimeInvariant, PTL DEF Spec
-----------------------------------------------------------------------------
(* The inductive invariant of the rounds.                                  *)

(* Each client has at most one update on its way. *)
OneOutstanding ==
    /\ \A u, v \in network : u.client = v.client => u = v
    /\ \A i, j \in 1..Len(queue) : queue[i].client = queue[j].client => i = j
    /\ \A u \in network : \A i \in 1..Len(queue) : u.client # queue[i].client

(* A client with an update on its way is between two requests, and updates *)
(* and invitations exist only once every client has been registered.       *)
WaitsForUpdate ==
    /\ \A u \in network : pc[u.client] \in {"boot", "poll"}
    /\ \A i \in 1..Len(queue) : pc[queue[i].client] \in {"boot", "poll"}
    /\ network # {} \/ queue # <<>> => nodes = Clients
    /\ \A c \in Clients : pc[c] \notin {"boot", "poll"} => nodes = Clients
    /\ clientnodesregistered = Cardinality(nodes)

(* An invited client has not interacted in this round, and trains the      *)
(* model of this round.                                                    *)
Invited ==
    \A c \in Clients :
      /\ pc[c] \in {"status", "fetch", "serialise", "train"} =>
           interaction[c] = currentinteraction
      /\ pc[c] \in {"serialise", "train"} => base[c] = currentinteraction

(* Nor has a client whose update is still to be handled. *)
Uncounted ==
    /\ \A u \in network : /\ u.model = currentinteraction
                          /\ interaction[u.client] = currentinteraction
    /\ \A i \in 1..Len(queue) :
         i > 1 \/ ws \in {"service", "handle"} =>
           /\ queue[i].model = currentinteraction
           /\ interaction[queue[i].client] = currentinteraction

(* The update at the head has been counted and not yet summed. *)
HeadIsCounted ==
    ws \in {"aggregate", "sum"} =>
      /\ Message.model = currentinteraction
      /\ interaction[Message.client] = currentinteraction + 1
      /\ \A u \in accumulator : u.client # Message.client

(* The place of the WebSocket thread tells the state of the round. *)
ThreadState ==
    /\ ws # "service" => queue # <<>>
    /\ model.intact = (ws # "copy")
    /\ model.version = IF ws \in {"zero", "advance"} THEN currentinteraction + 1
                                                     ELSE currentinteraction
    /\ Completing => \A c \in Clients : interaction[c] = currentinteraction + 1
    /\ ws = "advance" => accumulator = {}

(* The sums hold one update of this round from each client that has        *)
(* interacted in it.                                                       *)
Sums ==
    /\ \A u \in accumulator : u.model = currentinteraction
    /\ \A u, v \in accumulator : u.client = v.client => u = v
    /\ \A u \in accumulator : interaction[u.client] = currentinteraction + 1
    /\ \A c \in Clients :
         \/ interaction[c] = currentinteraction
         \/ /\ interaction[c] = currentinteraction + 1
            /\ \/ \E u \in accumulator : u.client = c
               \/ ws \in {"aggregate", "sum"} /\ c = Message.client
               \/ ws = "advance"

RoundInv ==
    /\ OneOutstanding
    /\ WaitsForUpdate
    /\ Invited
    /\ Uncounted
    /\ HeadIsCounted
    /\ ThreadState
    /\ Sums
    /\ Counter
    /\ RoundIsComplete
-----------------------------------------------------------------------------
(* Preservation of RoundInv, action by action.                             *)

(* The hypotheses under which the rounds are safe. *)
Hypotheses == PromptUpdates /\ Cardinality(Clients) = ClientNodes

(* When as many clients are registered as the server waits for, these are  *)
(* all the clients there are.                                              *)
LEMMA AllRegistered ==
    ASSUME Hypotheses, TypeOK, WaitsForUpdate
    PROVE  /\ IsFiniteSet(nodes)
           /\ clientnodesregistered = ClientNodes <=> nodes = Clients
  BY FS_Subset DEF Hypotheses, TypeOK, WaitsForUpdate

(* What is on its way, by the index of the queue. *)
LEMMA OutstandingByIndex ==
    ASSUME TypeOK, NEW c \in Clients, ~Outstanding(c)
    PROVE  /\ \A u \in network : u.client # c
           /\ \A i \in 1..Len(queue) : queue[i].client # c
  BY DEF TypeOK, Outstanding, Queued

(* A step that changes only the place of a client with nothing on its way, *)
(* and takes it to a place whose conditions it meets.                      *)
LEMMA PlaceChange ==
    ASSUME Typed, RoundInv, UNCHANGED <<server, thread, network>>,
           NEW c \in Clients, NEW place \in ClientPC, Goto(c, place),
           \/ place \in {"boot", "poll"}
           \/ pc[c] \notin {"boot", "poll"}
           \/ /\ nodes = Clients
              /\ \A u \in network : u.client # c
              /\ \A i \in 1..Len(queue) : queue[i].client # c,
           place \in {"status", "fetch", "serialise", "train"} =>
             interaction[c] = currentinteraction,
           place \in {"serialise", "train"} => base'[c] = currentinteraction,
           \A d \in Clients : d # c => base'[d] = base[d]
    PROVE  RoundInv'
<1> USE DEF Typed, RoundInv, Goto, server, thread
<1>1. OneOutstanding' /\ Uncounted' /\ HeadIsCounted' /\ ThreadState' /\ Sums'
      /\ Counter' /\ RoundIsComplete'
  BY DEF OneOutstanding, Uncounted, HeadIsCounted, ThreadState, Sums, Counter,
         RoundIsComplete, EveryClientAveraged, Message, Completing
<1>2. WaitsForUpdate'
  <2>1. \A d \in Clients : pc'[d] = IF d = c THEN place ELSE pc[d]
    BY DEF TypeOK
  <2>2. \A i \in 1..Len(queue) : queue[i].client \in Clients
    BY ClientsOfUpdates
  <2>3. \A u \in network : u.client \in Clients
    BY ClientsOfUpdates
  <2>4. \/ place \in {"boot", "poll"}
        \/ /\ nodes = Clients
           /\ \A u \in network : u.client # c
           /\ \A i \in 1..Len(queue) : queue[i].client # c
    BY DEF WaitsForUpdate
  <2> HIDE DEF Goto
  <2>5. QED
    BY <2>1, <2>2, <2>3, <2>4 DEF WaitsForUpdate
<1>3. Invited'
  BY DEF Invited, TypeOK
<1>4. QED
  BY <1>1, <1>2, <1>3

(* A step that the rounds do not see: at most a message gets lost. *)
LEMMA UnseenPreserves ==
    ASSUME RoundInv, UNCHANGED <<server, ws, queue, pc, base>>,
           network' \subseteq network
    PROVE  RoundInv'
  BY DEF server, RoundInv, OneOutstanding, WaitsForUpdate, Invited, Uncounted,
     HeadIsCounted, ThreadState, Sums, Counter, RoundIsComplete,
     EveryClientAveraged, Message, Completing

(* A registration, for a client that waits or for one that has left. *)
LEMMA RegistrationPreserves ==
    ASSUME Hypotheses, Typed, RoundInv, NEW c \in Clients, NodeRegistered(c),
           \A d \in Clients : pc'[d] \in {pc[d], "poll"},
           UNCHANGED <<base, network>>
    PROVE  RoundInv'
<1> USE DEF Typed
<1>1. IsFiniteSet(nodes) /\ (clientnodesregistered = ClientNodes <=> nodes = Clients)
  BY AllRegistered DEF RoundInv
<1>2. WaitsForUpdate'
  <2>1. Cardinality(nodes') = clientnodesregistered'
    <3>1. clientnodesregistered = Cardinality(nodes)
      BY DEF RoundInv, WaitsForUpdate
    <3>2. c \notin nodes => Cardinality(nodes \cup {c}) = Cardinality(nodes) + 1
      BY <1>1, FS_AddElement
    <3>3. QED
      BY <3>1, <3>2 DEF NodeRegistered
  <2>2. nodes = Clients => nodes' = Clients
    BY <1>1 DEF NodeRegistered
  <2>3. UNCHANGED <<network, queue>>
    BY DEF NodeRegistered, thread
  <2>4. QED
    BY <2>1, <2>2, <2>3, ClientsOfUpdates DEF RoundInv, WaitsForUpdate
<1>3. Invited'
  BY DEF NodeRegistered, RoundInv, Invited
<1>4. OneOutstanding' /\ Uncounted' /\ HeadIsCounted' /\ ThreadState' /\ Sums'
      /\ Counter' /\ RoundIsComplete'
  BY DEF NodeRegistered, RoundInv, OneOutstanding, Uncounted, HeadIsCounted,
         ThreadState, Sums, Counter, RoundIsComplete, EveryClientAveraged,
         Message, Completing, thread
<1>5. QED
  BY <1>2, <1>3, <1>4 DEF RoundInv

(* A request of a client, or what it does between two requests. *)
LEMMA ClientStepPreserves ==
    ASSUME Hypotheses, Typed, RoundInv, NEW c \in Clients, ClientStep(c)
    PROVE  RoundInv'
<1> USE DEF Typed
<1>1. CASE Register(c)
  <2>1. \A d \in Clients : pc'[d] \in {pc[d], "poll"}
    BY <1>1 DEF Register, Goto, TypeOK
  <2>2. UNCHANGED <<base, network>>
    BY <1>1 DEF Register, outside
  <2>3. QED
    BY <1>1, <2>1, <2>2, RegistrationPreserves DEF Register
<1>2. CASE StatusZero(c)
  BY <1>2, UnseenPreserves DEF StatusZero, vars, thread, clients, outside
<1>3. CASE CheckStatus(c)
  <2>1. /\ \A u \in network : u.client # c
        /\ \A i \in 1..Len(queue) : queue[i].client # c
    BY <1>3, OutstandingByIndex DEF CheckStatus, Hypotheses
  <2>2. nodes = Clients
    BY <1>3, AllRegistered DEF CheckStatus, RoundInv
  <2>3. QED
    BY <1>3, <2>1, <2>2, PlaceChange DEF CheckStatus, outside, ClientPC
<1>4. CASE CompareInteraction(c)
  BY <1>4, PlaceChange DEF CompareInteraction, outside, ClientPC, RoundInv,
     WaitsForUpdate, TypeOK, Updates
<1>5. CASE CompareWithoutNode(c)
  BY <1>5 DEF CompareWithoutNode, RoundInv, WaitsForUpdate
<1>6. CASE ReadStatus(c)
  BY <1>6, PlaceChange DEF ReadStatus, outside, ClientPC, RoundInv,
     WaitsForUpdate, Invited, TypeOK, Updates
<1>7. CASE BeginSerialise(c)
  <2>1. interaction[c] = currentinteraction /\ model.version = currentinteraction
    BY <1>7 DEF BeginSerialise, RoundInv, Invited, ThreadState, TypeOK, Completing
  <2>2. QED
    BY <1>7, <2>1, PlaceChange DEF BeginSerialise, outside, ClientPC, RoundInv,
       WaitsForUpdate, TypeOK, Updates
<1>8. CASE EndSerialise(c)
  BY <1>8, PlaceChange DEF EndSerialise, outside, ClientPC, RoundInv,
     WaitsForUpdate, Invited, TypeOK, Updates
<1>9. CASE SerialiseFreed(c)
  BY <1>9 DEF SerialiseFreed, Intact, RoundInv, Invited, ThreadState, TypeOK, Completing
<1>10. CASE SendUpdate(c)
  <2> DEFINE new == [client |-> c, model |-> base[c], number |-> sends[c] + 1]
  <2>1. /\ network' = network \cup {new}
        /\ new.client = c
        /\ new.model = currentinteraction
        /\ interaction[c] = currentinteraction
        /\ nodes = Clients
    BY <1>10 DEF SendUpdate, RoundInv, Invited, WaitsForUpdate
  <2>2. /\ \A u \in network : u.client # c
        /\ \A i \in 1..Len(queue) : queue[i].client # c
    BY <1>10 DEF SendUpdate, RoundInv, WaitsForUpdate
  <2> HIDE DEF new
  <2>3. OneOutstanding'
    BY <1>10, <2>1, <2>2 DEF SendUpdate, thread, RoundInv, OneOutstanding
  <2>4. WaitsForUpdate'
    BY <1>10, <2>1, <2>2 DEF SendUpdate, server, thread, RoundInv,
       WaitsForUpdate, Goto, TypeOK, Updates
  <2>5. Invited'
    BY <1>10 DEF SendUpdate, server, RoundInv, Invited, Goto, TypeOK
  <2>6. Uncounted'
    BY <1>10, <2>1 DEF SendUpdate, server, thread, RoundInv, Uncounted
  <2>7. HeadIsCounted' /\ ThreadState' /\ Sums' /\ Counter' /\ RoundIsComplete'
       
    BY <1>10 DEF SendUpdate, server, thread, RoundInv, HeadIsCounted,
       ThreadState, Sums, Counter, RoundIsComplete,
       EveryClientAveraged, Message, Completing
  <2>8. QED
    BY <2>3, <2>4, <2>5, <2>6, <2>7 DEF RoundInv
<1>11. QED
  BY <1>1, <1>2, <1>3, <1>4, <1>5, <1>6, <1>7, <1>8, <1>9, <1>10
  DEF ClientStep

(* callback_echo queues an update that was on its way. *)
LEMMA DeliverPreserves ==
    ASSUME Typed, RoundInv, NEW u \in network, Deliver(u)
    PROVE  RoundInv'
<1> USE DEF Typed
<1>1. /\ ws = "service" /\ ws' = "service"
      /\ network' = network \ {u}
      /\ queue' = Append(queue, u)
      /\ UNCHANGED <<server, clients, up>>
  BY DEF Deliver
<1>2. /\ Len(queue) \in Nat
      /\ Len(queue') = Len(queue) + 1
      /\ \A i \in 1..Len(queue) : queue'[i] = queue[i]
      /\ queue'[Len(queue')] = u
      /\ queue' # <<>>
      /\ u \in Updates
  BY <1>1 DEF TypeOK
<1>3. OneOutstanding'
  BY <1>1, <1>2 DEF RoundInv, OneOutstanding
<1>4. WaitsForUpdate'
  BY <1>1, <1>2 DEF RoundInv, WaitsForUpdate, server, clients
<1>5. Uncounted'
  BY <1>1, <1>2 DEF RoundInv, Uncounted, server
<1>6. Invited' /\ HeadIsCounted' /\ ThreadState' /\ Sums' /\ Counter'
      /\ RoundIsComplete'
  BY <1>1 DEF RoundInv, Invited, HeadIsCounted, ThreadState, Sums, Counter,
     RoundIsComplete, EveryClientAveraged, Completing, server,
     clients
<1>7. QED
  BY <1>3, <1>4, <1>5, <1>6 DEF RoundInv

(* A request or a device that fails, an update that gets lost. *)
LEMMA FailurePreserves ==
    ASSUME Typed, RoundInv, Failure
    PROVE  RoundInv'
<1> USE DEF Typed
<1>1. ASSUME NEW c \in Clients, TimesOut(c)
      PROVE  RoundInv'
  BY <1>1, PlaceChange DEF TimesOut, Leaves, ClientPC
<1>2. ASSUME NEW c \in Clients, SendFails(c)
      PROVE  RoundInv'
  BY <1>2, PlaceChange DEF SendFails, ClientPC
<1>3. ASSUME NEW c \in Clients, Reboot(c)
      PROVE  RoundInv'
  BY <1>3, PlaceChange DEF Reboot, Leaves, ClientPC
<1>4. ASSUME NEW u \in network, LoseUpdate(u) \/ CutOff(u)
      PROVE  RoundInv'
  BY <1>4, UnseenPreserves DEF LoseUpdate, CutOff, Lost, thread, clients
<1>5. QED
  BY <1>1, <1>2, <1>3, <1>4 DEF Failure

(* An update that the clogged buffer swallows. *)
LEMMA SwallowPreserves ==
    ASSUME RoundInv, NEW u \in network, Swallow(u)
    PROVE  RoundInv'
  BY UnseenPreserves DEF Swallow, thread, clients

(* The thread of an abandoned request. *)
LEMMA OrphanStepPreserves ==
    ASSUME Hypotheses, Typed, RoundInv, NEW o \in orphans, OrphanStep(o)
    PROVE  RoundInv'
<1>1. CASE OrphanRegisters(o)
  <2>1. o.client \in Clients
    BY DEF Typed, TypeOK, Orphans
  <2>2. QED
    BY <1>1, <2>1, RegistrationPreserves DEF OrphanRegisters, Ends, clients
<1>2. CASE ~OrphanRegisters(o)
  BY <1>2, OtherOrphans, UnseenPreserves DEF clients
<1>3. QED
  BY <1>1, <1>2

(* What is known of the head of the queue while it is being handled. *)
LEMMA HeadOfQueue ==
    ASSUME Typed, RoundInv, ws # "service"
    PROVE  /\ Message \in Updates
           /\ Message.client \in Clients
           /\ Message = queue[1]
           /\ Len(queue) \in Nat \ {0}
           /\ 1 \in 1..Len(queue)
           /\ pc[Message.client] \in {"boot", "poll"}
           /\ nodes = Clients
<1>1. /\ Message \in Updates
      /\ Message = queue[1]
      /\ Len(queue) \in Nat \ {0}
  BY HeadIsUpdate DEF Typed
<1>2. Message.client \in Clients
  BY <1>1 DEF Updates
<1>3. 1 \in 1..Len(queue) /\ queue # <<>>
  BY <1>1 DEF Typed, WorksOnMessage
<1>4. pc[Message.client] \in {"boot", "poll"} /\ nodes = Clients
  BY <1>1, <1>3 DEF RoundInv, WaitsForUpdate
<1>5. QED
  BY <1>1, <1>2, <1>3, <1>4

(* handle_clint_model_message counts the update at the head. *)
LEMMA CountInteractionPreserves ==
    ASSUME Typed, RoundInv, CountInteraction
    PROVE  RoundInv'
<1> DEFINE m == Message
<1>0. m = queue[1] /\ m.client \in Clients /\ 1 \in 1..Len(queue) /\ Len(queue) \in Nat
      /\ pc[m.client] \in {"boot", "poll"}
  BY HeadOfQueue DEF CountInteraction
<1>1. /\ ws = "handle" /\ ws' = "aggregate"
      /\ m' = m
      /\ UNCHANGED <<globalmodelstatus, trainingscounter, currentinteraction,
                     nodes, clientnodesregistered, accumulator, model, queue,
                     pc, base, sends, network>>
      /\ \A c \in Clients : interaction'[c] = IF c = m.client THEN interaction[c] + 1
                                                           ELSE interaction[c]
  BY DEF CountInteraction, Typed, TypeOK, clients, outside, Message
<1>2. m.model = currentinteraction /\ interaction[m.client] = currentinteraction
  BY <1>0, <1>1 DEF RoundInv, Uncounted
<1>3. currentinteraction \in Nat /\ accumulator \subseteq Updates
      /\ \A u \in Updates : u.client \in Clients
  BY DEF Typed, TypeOK, Updates
<1>4. \A u \in accumulator : u.client # m.client
  BY <1>2, <1>3 DEF RoundInv, Sums
<1> HIDE DEF m
<1>5. OneOutstanding' /\ WaitsForUpdate' /\ Counter' /\ RoundIsComplete'
  BY <1>1 DEF RoundInv, OneOutstanding, WaitsForUpdate, Counter,
     RoundIsComplete, EveryClientAveraged
<1>6. Invited'
  BY <1>0, <1>1 DEF RoundInv, Invited
<1>7. Uncounted'
  <2>1. \A u \in network : u.client \in Clients /\ u.client # m.client
    BY <1>0, ClientsOfUpdates DEF RoundInv, OneOutstanding, Typed
  <2>2. \A i \in 1..Len(queue) : i > 1 => queue[i].client \in Clients /\ queue[i].client # m.client
    BY <1>0, ClientsOfUpdates DEF RoundInv, OneOutstanding, Typed
  <2>3. QED
    BY <1>1, <2>1, <2>2 DEF RoundInv, Uncounted
<1>8. HeadIsCounted'
  BY <1>0, <1>1, <1>2, <1>4 DEF HeadIsCounted, m
<1>9. ThreadState'
  BY <1>1 DEF RoundInv, ThreadState, Completing
<1>10. Sums'
  BY <1>0, <1>1, <1>2, <1>3, <1>4 DEF RoundInv, Sums, m
<1>11. QED
  BY <1>5, <1>6, <1>7, <1>8, <1>9, <1>10 DEF RoundInv

(* FederatedAveragingSum adds the update that was counted. *)
LEMMA SumPreserves ==
    ASSUME Typed, RoundInv, Sum
    PROVE  RoundInv'
<1> DEFINE m == Message
<1>1. /\ ws = "sum" /\ ws' = "check"
      /\ m' = m
      /\ accumulator' = accumulator \cup {m}
      /\ trainingscounter' = trainingscounter + 1
      /\ UNCHANGED <<globalmodelstatus, currentinteraction, nodes,
                     clientnodesregistered, interaction, model, queue, up,
                     pc, base, sends, network>>
  BY DEF Sum, Thread, clients, outside, Message
<1>2. /\ m.model = currentinteraction
      /\ interaction[m.client] = currentinteraction + 1
      /\ \A u \in accumulator : u.client # m.client
  BY <1>1 DEF RoundInv, HeadIsCounted
<1> HIDE DEF m
<1>3. OneOutstanding' /\ WaitsForUpdate' /\ Invited' /\ Uncounted' /\ HeadIsCounted'
      /\ ThreadState' /\ RoundIsComplete'
  BY <1>1 DEF RoundInv, OneOutstanding, WaitsForUpdate, Invited, Uncounted,
     HeadIsCounted, ThreadState, RoundIsComplete, EveryClientAveraged, Completing
<1>4. Sums'
  BY <1>1, <1>2 DEF RoundInv, Sums, m
<1>5. Counter'
  <2>1. m \notin accumulator
    BY <1>2
  <2>2. IsFiniteSet(accumulator) /\ trainingscounter = Cardinality(accumulator)
    BY <1>1 DEF RoundInv, Counter
  <2>3. /\ IsFiniteSet(accumulator \cup {m})
        /\ Cardinality(accumulator \cup {m}) = Cardinality(accumulator) + 1
    BY <2>1, <2>2, FS_AddElement
  <2>4. QED
    BY <1>1, <2>2, <2>3 DEF Counter
<1>6. QED
  BY <1>3, <1>4, <1>5 DEF RoundInv

(* currentinteraction++ when everybody has interacted. *)
LEMMA AdvancePreserves ==
    ASSUME Typed, RoundInv, Advance
    PROVE  RoundInv'
<1>1. /\ ws = "advance" /\ ws' = "raise"
      /\ currentinteraction' = currentinteraction + 1
      /\ UNCHANGED <<globalmodelstatus, trainingscounter, nodes, interaction,
                     clientnodesregistered, accumulator, model, queue, up,
                     pc, base, sends, network>>
  BY DEF Advance, Thread, clients, outside
<1>2. /\ \A c \in Clients : interaction[c] = currentinteraction + 1
      /\ model.version = currentinteraction + 1
      /\ accumulator = {}
      /\ currentinteraction \in Nat
  BY <1>1 DEF RoundInv, ThreadState, Completing, Typed, TypeOK
<1>3. network = {} /\ \A i \in 1..Len(queue) : ~(i > 1)
  BY <1>1, <1>2, ClientsOfUpdates DEF RoundInv, Uncounted, Typed
<1>4. \A c \in Clients : pc[c] \notin {"status", "fetch", "serialise", "train"}
  BY <1>2 DEF RoundInv, Invited
<1>5. OneOutstanding' /\ WaitsForUpdate' /\ Counter' /\ RoundIsComplete'
  BY <1>1 DEF RoundInv, OneOutstanding, WaitsForUpdate, Counter,
     RoundIsComplete, EveryClientAveraged
<1>6. Invited' /\ Uncounted' /\ HeadIsCounted'
  BY <1>1, <1>3, <1>4 DEF Invited, Uncounted, HeadIsCounted
<1>7. ThreadState' /\ Sums'
  BY <1>1, <1>2 DEF RoundInv, ThreadState, Sums, Completing
<1>8. QED
  BY <1>5, <1>6, <1>7 DEF RoundInv

(* CopyNeuralNetwork publishes a complete round. *)
LEMMA CopyGlobalPreserves ==
    ASSUME Typed, RoundInv, CopyGlobal
    PROVE  RoundInv'
<1>1. /\ ws = "copy" /\ ws' = "zero"
      /\ model' = [intact |-> TRUE, version |-> model.version + 1,
                   parts |-> accumulator]
      /\ UNCHANGED <<globalmodelstatus, trainingscounter, nodes, interaction,
                     currentinteraction, clientnodesregistered, accumulator,
                     queue, up, pc, base, sends, network>>
  BY DEF CopyGlobal, Thread, clients, outside
<1>2. /\ \A c \in Clients : interaction[c] = currentinteraction + 1
      /\ model.version = currentinteraction
      /\ currentinteraction \in Nat
  BY <1>1 DEF RoundInv, ThreadState, Completing, Typed, TypeOK
<1>3. \A c \in Clients : \E u \in accumulator : u.client = c
  BY <1>1, <1>2 DEF RoundInv, Sums
<1>4. RoundIsComplete'
  BY <1>1, <1>2, <1>3 DEF RoundInv, Sums, RoundIsComplete, EveryClientAveraged
<1>5. ThreadState'
  BY <1>1, <1>2 DEF RoundInv, ThreadState, Completing
<1>6. OneOutstanding' /\ WaitsForUpdate' /\ Invited' /\ Uncounted' /\ HeadIsCounted'
      /\ Sums' /\ Counter'
  BY <1>1 DEF RoundInv, OneOutstanding, WaitsForUpdate, Invited, Uncounted,
     HeadIsCounted, Sums, Counter, Message
<1>7. QED
  BY <1>4, <1>5, <1>6 DEF RoundInv

(* remove_buffer_client_message moves the queue up by one. *)
LEMMA RemoveMessagePreserves ==
    ASSUME Typed, RoundInv, RemoveMessage
    PROVE  RoundInv'
<1>1. /\ ws = "remove" /\ ws' \in {"service", "handle"}
      /\ ws' = "handle" => queue' # <<>>
      /\ queue' = Tail(queue)
      /\ UNCHANGED <<globalmodelstatus, trainingscounter, nodes, interaction,
                     currentinteraction, clientnodesregistered, accumulator,
                     model, up, pc, base, sends, network>>
  BY DEF RemoveMessage, Thread, server, clients, outside
<1>2. /\ Len(queue) \in Nat \ {0}
      /\ Len(queue') = Len(queue) - 1
      /\ \A i \in 1..Len(queue') : i + 1 \in 1..Len(queue) /\ queue'[i] = queue[i + 1]
      /\ queue # <<>>
  BY <1>1, HeadOfQueue DEF Typed, TypeOK, WorksOnMessage
<1>3. OneOutstanding'
  BY <1>1, <1>2 DEF RoundInv, OneOutstanding
<1>4. WaitsForUpdate'
  BY <1>1, <1>2 DEF RoundInv, WaitsForUpdate
<1>5. Uncounted'
  BY <1>1, <1>2 DEF RoundInv, Uncounted
<1>6. Invited' /\ HeadIsCounted' /\ ThreadState' /\ Sums' /\ Counter'
      /\ RoundIsComplete'
  BY <1>1 DEF RoundInv, Invited, HeadIsCounted, ThreadState, Sums, Counter,
     RoundIsComplete, EveryClientAveraged, Completing
<1>7. QED
  BY <1>3, <1>4, <1>5, <1>6 DEF RoundInv

(* Every step of the WebSocket thread. *)
LEMMA ThreadStepPreserves ==
    ASSUME Typed, RoundInv, ThreadStep
    PROVE  RoundInv'
<1> USE DEF Thread, clients, outside, Typed
<1>1. CASE StartHandling
  BY <1>1 DEF StartHandling, server, RoundInv, OneOutstanding, WaitsForUpdate,
     Invited, Uncounted, HeadIsCounted, ThreadState, Sums, Counter,
     RoundIsComplete, EveryClientAveraged, Completing
<1>2. CASE LowerStatus
  BY <1>2 DEF LowerStatus, RoundInv, OneOutstanding, WaitsForUpdate,
     Invited, Uncounted, HeadIsCounted, ThreadState, Sums, Counter, Message,
     RoundIsComplete, EveryClientAveraged, Completing
<1>3. CASE Await
  BY <1>3 DEF Await, RoundInv, OneOutstanding, WaitsForUpdate,
     Invited, Uncounted, HeadIsCounted, ThreadState, Sums, Counter,
     RoundIsComplete, EveryClientAveraged, Completing
<1>4. CASE CompleteRound
  <2>1. nodes = Clients
    BY <1>4, HeadOfQueue DEF CompleteRound
  <2>2. \A c \in Clients : interaction[c] = currentinteraction + 1
    BY <1>4, <2>1 DEF CompleteRound, AllReceived, RoundInv, Sums
  <2>3. ThreadState' /\ Sums'
    BY <1>4, <2>2 DEF CompleteRound, server, RoundInv, ThreadState, Sums, Completing
  <2>4. QED
    BY <1>4, <2>3 DEF CompleteRound, server, RoundInv, OneOutstanding,
       WaitsForUpdate, Invited, Uncounted, HeadIsCounted, Counter,
       RoundIsComplete, EveryClientAveraged
<1>5. CASE Average
  BY <1>5 DEF Average, RoundInv, OneOutstanding, WaitsForUpdate,
     Invited, Uncounted, HeadIsCounted, ThreadState, Sums, Counter,
     RoundIsComplete, EveryClientAveraged, Completing
<1>6. CASE FreeGlobal
  <2>1. model' = [intact |-> FALSE, version |-> model.version, parts |-> model.parts]
    BY <1>6 DEF FreeGlobal, TypeOK
  <2>2. ThreadState' /\ RoundIsComplete'
    BY <1>6, <2>1 DEF FreeGlobal, RoundInv, ThreadState, RoundIsComplete,
       EveryClientAveraged, Completing
  <2>3. QED
    BY <1>6, <2>2 DEF FreeGlobal, RoundInv, OneOutstanding, WaitsForUpdate,
       Invited, Uncounted, HeadIsCounted, Sums, Counter
<1>7. CASE SetZero
  BY <1>7, FS_EmptySet DEF SetZero, RoundInv, OneOutstanding, WaitsForUpdate,
     Invited, Uncounted, HeadIsCounted, ThreadState, Sums, Counter,
     RoundIsComplete, EveryClientAveraged, Completing
<1>8. CASE RaiseStatus
  BY <1>8 DEF RaiseStatus, RoundInv, OneOutstanding, WaitsForUpdate,
     Invited, Uncounted, HeadIsCounted, ThreadState, Sums, Counter,
     RoundIsComplete, EveryClientAveraged, Completing
<1>9. QED
  BY <1>1, <1>2, <1>3, <1>4, <1>5, <1>6, <1>7, <1>8,
     CountInteractionPreserves, SumPreserves, CopyGlobalPreserves,
     AdvancePreserves, RemoveMessagePreserves DEF ThreadStep
-----------------------------------------------------------------------------
(* The theorems on rounds.                                                 *)

(* RoundInv is an invariant of the protocol. *)
THEOREM RoundInvariant ==
    ASSUME Hypotheses
    PROVE  Spec => [](Typed /\ RoundInv)
<1>1. Init => RoundInv
  <2> SUFFICES ASSUME Init PROVE RoundInv
    OBVIOUS
  <2>1. OneOutstanding /\ Uncounted
    BY DEF Init, OneOutstanding, Uncounted
  <2>2. WaitsForUpdate
    BY FS_EmptySet DEF Init, WaitsForUpdate
  <2>3. Invited /\ HeadIsCounted
    BY DEF Init, Invited, HeadIsCounted
  <2>4. ThreadState
    BY DEF Init, ThreadState, Completing
  <2>5. Sums
    BY DEF Init, Sums
  <2>6. Counter
    BY FS_EmptySet DEF Init, Counter
  <2>7. RoundIsComplete
    BY DEF Init, RoundIsComplete, EveryClientAveraged
  <2>8. QED
    BY <2>1, <2>2, <2>3, <2>4, <2>5, <2>6, <2>7 DEF RoundInv
<1>2. Typed /\ RoundInv /\ [Next]_vars => RoundInv'
  <2> SUFFICES ASSUME Typed, RoundInv, [Next]_vars
               PROVE  RoundInv'
    OBVIOUS
  <2>1. CASE UNCHANGED vars
    BY <2>1, UnseenPreserves DEF vars, thread, clients, outside
  <2>2. QED
    BY <2>1, ClientStepPreserves, ThreadStepPreserves, DeliverPreserves,
       SwallowPreserves, OrphanStepPreserves, FailurePreserves DEF Next
<1>3. QED
  BY <1>1, <1>2, TypeCorrect, PTL DEF Spec, Typed

(* Every published model averages exactly one update of every client, each *)
(* trained from the model before it.                                       *)
THEOREM RoundsComplete ==
    ASSUME Hypotheses
    PROVE  Spec => []RoundIsComplete
  BY RoundInvariant, PTL DEF RoundInv

(* No HTTP thread whose client waits for it converts a model to JSON that  *)
(* the WebSocket thread has freed, whatever abandoned threads and lost     *)
(* messages there are: while one walks it, its client has not interacted   *)
(* in the round, so the round is not being completed.                      *)
THEOREM ModelsAreReadWhole ==
    ASSUME Hypotheses
    PROVE  Spec => []NoReadOfFreedModel
<1>1. Typed /\ RoundInv => NoReadOfFreedModel
  <2> SUFFICES ASSUME Typed, RoundInv, NEW c \in Clients, pc[c] = "serialise"
               PROVE  Intact(base[c])
    BY DEF NoReadOfFreedModel
  <2>1. /\ interaction[c] = currentinteraction
        /\ base[c] = currentinteraction
        /\ currentinteraction \in Nat
    BY DEF RoundInv, Invited, Typed, TypeOK
  <2>2. ~Completing
    BY <2>1 DEF RoundInv, ThreadState
  <2>3. QED
    BY <2>1, <2>2 DEF RoundInv, ThreadState, Completing, Intact
<1>2. QED
  BY <1>1, RoundInvariant, PTL

(* A client told to train has no update from the model in force in the     *)
(* aggregation or on its way to it.                                        *)
THEOREM InvitationsAreSingle ==
    ASSUME Hypotheses
    PROVE  Spec => []InvitedOnlyOnce
<1>1. Typed /\ RoundInv => InvitedOnlyOnce
  <2> SUFFICES ASSUME Typed, RoundInv, NEW c \in Clients, pc[c] = "fetch",
                      NEW u \in network \cup Queued \cup accumulator,
                      u.client = c
               PROVE  FALSE
    BY DEF InvitedOnlyOnce
  <2>1. interaction[c] = currentinteraction /\ currentinteraction \in Nat
    BY DEF RoundInv, Invited, Typed, TypeOK
  <2>2. CASE u \in network
    BY <2>2 DEF RoundInv, WaitsForUpdate
  <2>3. CASE u \in Queued
    <3>1. PICK i \in 1..Len(queue) : u = queue[i]
      BY <2>3 DEF Queued, Typed, TypeOK
    <3>2. QED
      BY <3>1 DEF RoundInv, WaitsForUpdate
  <2>4. CASE u \in accumulator
    BY <2>1, <2>4 DEF RoundInv, Sums
  <2>5. QED
    BY <2>2, <2>3, <2>4
<1>2. QED
  BY <1>1, RoundInvariant, PTL
-----------------------------------------------------------------------------
(* The number of rounds.  When the last round is over, the client whose    *)
(* update completed it is not invited any more: its node stays one         *)
(* interaction short of another round, which therefore never completes.    *)
Retired(t) ==
    /\ pc[t] \in {"boot", "poll"}
    /\ interaction[t] = currentinteraction
    /\ \A u \in network : u.client # t
    /\ \A i \in 1..Len(queue) :
         i > 1 \/ ws \in {"service", "handle"} => queue[i].client # t

BoundInv ==
    /\ currentinteraction <= InteractionCycle
    /\ currentinteraction = InteractionCycle => \E t \in Clients : Retired(t)

(* No round is completed once the configured number is reached. *)
LEMMA CompletingBelowCycle ==
    ASSUME Typed, RoundInv, BoundInv, Completing
    PROVE  currentinteraction < InteractionCycle
<1>1. currentinteraction \in Nat /\ InteractionCycle \in Nat
  BY DEF Typed, TypeOK
<1>2. \A t \in Clients : interaction[t] # currentinteraction
  BY <1>1 DEF RoundInv, ThreadState
<1>3. QED
  BY <1>1, <1>2 DEF BoundInv, Retired

(* A retired client stays retired, whatever step is taken. *)
LEMMA RetiredForGood ==
    ASSUME Hypotheses, Typed, RoundInv, NEW t \in Clients, Retired(t), Next,
           currentinteraction = InteractionCycle, ~Completing
    PROVE  Retired(t)' /\ UNCHANGED currentinteraction
<1> USE DEF Typed
<1>1. ASSUME NEW c \in Clients, ClientStep(c)
      PROVE  Retired(t)' /\ UNCHANGED currentinteraction
  <2>1. UNCHANGED <<currentinteraction, interaction, queue, ws>>
    BY <1>1 DEF ClientStep, Register, NodeRegistered, StatusZero, CheckStatus,
       CompareInteraction, CompareWithoutNode, ReadStatus, BeginSerialise,
       EndSerialise, SerialiseFreed, SendUpdate, server, thread, vars
  <2>2. pc'[t] \in {"boot", "poll"}
    BY <1>1 DEF ClientStep, Register, StatusZero, CheckStatus,
       CompareInteraction, CompareWithoutNode, ReadStatus, BeginSerialise,
       EndSerialise, SerialiseFreed, SendUpdate, vars, clients, Goto, TypeOK, Retired
  <2>3. \A u \in network' : u.client # t
    BY <1>1 DEF ClientStep, Register, StatusZero, CheckStatus,
       CompareInteraction, CompareWithoutNode, ReadStatus, BeginSerialise,
       EndSerialise, SerialiseFreed, SendUpdate, vars, outside, Retired
  <2>4. QED
    BY <2>1, <2>2, <2>3 DEF Retired
<1>2. ASSUME NEW u \in network, Deliver(u)
      PROVE  Retired(t)' /\ UNCHANGED currentinteraction
  <2>1. queue' = Append(queue, u) /\ u.client # t /\ ws = "service" /\ ws' = "service"
        /\ network' = network \ {u} /\ UNCHANGED <<server, clients>>
    BY <1>2 DEF Deliver, Retired
  <2>2. /\ Len(queue) \in Nat
        /\ Len(queue') = Len(queue) + 1
        /\ \A i \in 1..Len(queue) : queue'[i] = queue[i]
        /\ queue'[Len(queue')] = u
    BY <2>1, ClientsOfUpdates DEF TypeOK
  <2>3. QED
    BY <2>1, <2>2 DEF Retired, server, clients
<1>3. ASSUME \/ Failure
             \/ \E u \in network : Swallow(u)
             \/ \E o \in orphans : OrphanStep(o)
      PROVE  Retired(t)' /\ UNCHANGED currentinteraction
  <2>1. /\ UNCHANGED <<currentinteraction, interaction, queue, ws>>
        /\ network' \subseteq network
        /\ \A c \in Clients : pc'[c] \in {pc[c], "boot", "poll"}
    <3>1. CASE Failure
      BY <1>3, <3>1 DEF Failure, TimesOut, Reboot, Leaves, SendFails,
         LoseUpdate, CutOff, Lost, Goto, server, thread, clients, TypeOK
    <3>2. ASSUME NEW u \in network, Swallow(u)
          PROVE  <2>1!1 /\ <2>1!2 /\ <2>1!3
      BY <3>2 DEF Swallow, server, thread, clients
    <3>3. ASSUME NEW o \in orphans, OrphanStep(o)
          PROVE  <2>1!1 /\ <2>1!2 /\ <2>1!3
      BY <3>3, OtherOrphans DEF OrphanRegisters, NodeRegistered, Ends, server,
         thread, clients
    <3>4. QED
      BY <1>3, <3>1, <3>2, <3>3
  <2>2. QED
    BY <2>1 DEF Retired
<1>4. CASE CountInteraction
  <2>1. Message = queue[1] /\ 1 \in 1..Len(queue)
    BY <1>4, HeadOfQueue DEF CountInteraction, Thread
  <2>2. Message.client # t
    BY <1>4, <2>1 DEF CountInteraction, Thread, Retired
  <2>3. interaction'[t] = interaction[t]
    BY <1>4, <2>2 DEF CountInteraction, TypeOK
  <2>4. QED
    BY <1>4, <2>3 DEF CountInteraction, Thread, Retired, clients, outside
<1>5. CASE RemoveMessage
  <2>1. /\ Len(queue) \in Nat \ {0}
        /\ Len(queue') = Len(queue) - 1
        /\ \A i \in 1..Len(queue') : i + 1 \in 1..Len(queue) /\ queue'[i] = queue[i + 1]
    BY <1>5, HeadOfQueue DEF RemoveMessage, Thread, TypeOK, WorksOnMessage
  <2>2. QED
    BY <1>5, <2>1 DEF RemoveMessage, Thread, Retired, server, clients, outside
<1>6. CASE StartHandling \/ LowerStatus \/ Sum \/ Await \/ RaiseStatus
  BY <1>6 DEF StartHandling, LowerStatus, Sum, Await,
     RaiseStatus, Thread, Retired, server, clients, outside
<1>7. CASE CompleteRound
  <2>1. nodes = Clients
    BY <1>7, HeadOfQueue DEF CompleteRound, Thread
  <2>2. QED
    BY <1>7, <2>1 DEF CompleteRound, AllReceived, Retired
<1>8. CASE Average \/ FreeGlobal \/ CopyGlobal \/ SetZero \/ Advance
  BY <1>8 DEF Average, FreeGlobal, CopyGlobal, SetZero, Advance, Thread, Completing
<1>9. QED
  BY <1>1, <1>2, <1>3, <1>4, <1>5, <1>6, <1>7, <1>8 DEF Next, ThreadStep

(* currentinteraction changes in one place. *)
LEMMA OnlyAdvanceCounts ==
    ASSUME Next, ~Advance
    PROVE  UNCHANGED currentinteraction
<1> USE DEF server, vars
<1>1. ASSUME NEW c \in Clients, ClientStep(c)
      PROVE  UNCHANGED currentinteraction
  BY <1>1 DEF ClientStep, Register, NodeRegistered, StatusZero, CheckStatus,
     CompareInteraction, CompareWithoutNode, ReadStatus, BeginSerialise,
     EndSerialise, SerialiseFreed, SendUpdate
<1>2. CASE ThreadStep
  BY <1>2 DEF ThreadStep, StartHandling, CountInteraction,
     LowerStatus, Sum, Await, CompleteRound, Average, FreeGlobal, CopyGlobal,
     SetZero, RaiseStatus, RemoveMessage
<1>3. CASE Failure \/ \E u \in network : Deliver(u) \/ Swallow(u)
  BY <1>3 DEF Failure, TimesOut, Reboot, Leaves, SendFails, LoseUpdate, CutOff,
     Lost, Deliver, Swallow
<1>4. ASSUME NEW o \in orphans, OrphanStep(o)
      PROVE  UNCHANGED currentinteraction
  BY <1>4, OtherOrphans DEF OrphanRegisters, NodeRegistered
<1>5. QED
  BY <1>1, <1>2, <1>3, <1>4 DEF Next

(* The client whose update completed the last round retires. *)
LEMMA AdvanceRetires ==
    ASSUME Typed, RoundInv, BoundInv, Advance
    PROVE  BoundInv'
<1>1. currentinteraction < InteractionCycle
  BY CompletingBelowCycle DEF Completing, Advance, Thread
<1>2. /\ ws = "advance" /\ ws' = "raise"
      /\ currentinteraction' = currentinteraction + 1
      /\ UNCHANGED <<interaction, queue, pc, network>>
  BY DEF Advance, Thread, clients, outside
<1>0. Message.client \in Clients
  BY <1>2, HeadOfQueue
<1>. PICK t \in Clients : t = Message.client
  BY <1>0
<1>3. pc[t] \in {"boot", "poll"} /\ Message = queue[1]
      /\ 1 \in 1..Len(queue) /\ Len(queue) \in Nat
  BY <1>2, HeadOfQueue
<1>4. interaction[t] = currentinteraction + 1
  BY <1>2, <1>3 DEF RoundInv, ThreadState, Completing
<1>5. /\ \A u \in network : u.client # t
      /\ \A i \in 1..Len(queue) : i > 1 => queue[i].client # t
  BY <1>3 DEF RoundInv, OneOutstanding
<1>6. Retired(t)'
  BY <1>2, <1>3, <1>4, <1>5 DEF Retired
<1>7. currentinteraction \in Nat /\ InteractionCycle \in Nat
  BY DEF Typed, TypeOK
<1>8. QED
  BY <1>1, <1>2, <1>3, <1>6, <1>7 DEF BoundInv

(* The protocol never passes the configured number of rounds. *)
THEOREM RoundsAreBounded ==
    ASSUME Hypotheses
    PROVE  Spec => [](BoundInv /\ RoundsBounded)
<1>1. Init => BoundInv
  BY DEF Init, BoundInv
<1>2. Typed /\ RoundInv /\ BoundInv /\ [Next]_vars => BoundInv'
  <2> SUFFICES ASSUME Typed, RoundInv, BoundInv, [Next]_vars
               PROVE  BoundInv'
    OBVIOUS
  <2>1. CASE UNCHANGED vars
    BY <2>1 DEF vars, server, thread, clients, outside, BoundInv, Retired
  <2>2. CASE Advance
    BY <2>2, AdvanceRetires
  <2>3. CASE Next /\ ~Advance /\ currentinteraction = InteractionCycle
    <3>1. ~Completing
      BY <2>3, CompletingBelowCycle DEF Typed, TypeOK
    <3>2. PICK t \in Clients : Retired(t)
      BY <2>3 DEF BoundInv
    <3>3. Retired(t)' /\ UNCHANGED currentinteraction
      BY <2>3, <3>1, <3>2, RetiredForGood
    <3>4. QED
      BY <3>3 DEF BoundInv
  <2>4. CASE Next /\ ~Advance /\ currentinteraction # InteractionCycle
    BY <2>4, OnlyAdvanceCounts DEF BoundInv
  <2>5. QED
    BY <2>1, <2>2, <2>3, <2>4
<1>3. BoundInv => RoundsBounded
  BY DEF BoundInv, RoundsBounded
<1>4. QED
  BY <1>1, <1>2, <1>3, RoundInvariant, PTL DEF Spec
-----------------------------------------------------------------------------
(* The protocol implements FederatedRounds (safety): summing an update is  *)
(* Gather, copying the average is Publish, everything else is a stutter.   *)
LEMMA StutterOfRounds ==
    ASSUME UNCHANGED <<model, accumulator>>, (ws = "zero") = (ws' = "zero")
    PROVE  UNCHANGED Rounds!vars
  BY DEF Rounds!vars, Gathered

(* Sum maps to the abstract Gather. *)
LEMMA SumGathers ==
    ASSUME Typed, RoundInv, Sum
    PROVE  Rounds!Next
<1> DEFINE m == Message
<1>1. /\ ws = "sum" /\ ws' = "check" /\ model' = model
      /\ accumulator' = accumulator \cup {m}
  BY DEF Sum, Thread
<1>2. m.client \in Clients
  BY <1>1, HeadOfQueue
<1>3. \A u \in accumulator : u.client # m.client
  BY <1>1 DEF RoundInv, HeadIsCounted
<1> HIDE DEF m
<1>4. Gathered = {u.client : u \in accumulator}
      /\ Gathered' = {u.client : u \in accumulator'}
  BY <1>1 DEF Gathered
<1>5. m.client \notin Gathered /\ Gathered' = Gathered \cup {m.client}
  BY <1>1, <1>3, <1>4
<1>6. Rounds!Gather(m.client)
  BY <1>1, <1>5 DEF Rounds!Gather
<1>7. QED
  BY <1>2, <1>6 DEF Rounds!Next

(* CopyGlobal maps to the abstract Publish. *)
LEMMA CopyPublishes ==
    ASSUME Typed, RoundInv, BoundInv, CopyGlobal
    PROVE  Rounds!Publish
<1>1. /\ ws = "copy" /\ ws' = "zero" /\ accumulator' = accumulator
      /\ model'.version = model.version + 1
      /\ model'.parts = accumulator
  BY DEF CopyGlobal, Thread
<1>2. model.version < InteractionCycle
  BY <1>1, CompletingBelowCycle DEF Completing, RoundInv, ThreadState
<1>3. Gathered = {u.client : u \in accumulator} /\ Gathered' = {}
  BY <1>1 DEF Gathered
<1>4. Gathered = Clients
  <2>1. \A c \in Clients : \E u \in accumulator : u.client = c
    <3>1. /\ currentinteraction \in Nat
          /\ \A c \in Clients : interaction[c] = currentinteraction + 1
      BY <1>1 DEF RoundInv, ThreadState, Completing, Typed, TypeOK
    <3>2. QED
      BY <1>1, <3>1 DEF RoundInv, Sums
  <2>2. \A u \in accumulator : u.client \in Clients
    BY DEF Typed, TypeOK, Updates
  <2>3. QED
    BY <1>3, <2>1, <2>2
<1>5. QED
  BY <1>1, <1>2, <1>3, <1>4 DEF Rounds!Publish

(* The protocol implements FederatedRounds: whatever the order of requests, *)
(* messages and statements, rounds are gathered and published one by one.    *)
THEOREM ImplementsRounds ==
    ASSUME Hypotheses
    PROVE  Spec => RefinesRoundsSafety
<1>1. Init => Rounds!Init
  BY DEF Init, Rounds!Init, Gathered
<1>2. Typed /\ RoundInv /\ BoundInv /\ [Next]_vars => [Rounds!Next]_(Rounds!vars)
  <2> SUFFICES ASSUME Typed, RoundInv, BoundInv, [Next]_vars
               PROVE  [Rounds!Next]_(Rounds!vars)
    OBVIOUS
  <2>1. CASE UNCHANGED vars
    BY <2>1, StutterOfRounds DEF vars, server, thread
  <2>2. ASSUME NEW c \in Clients, ClientStep(c)
        PROVE  UNCHANGED Rounds!vars
    BY <2>2, StutterOfRounds DEF ClientStep, Register, NodeRegistered, StatusZero,
       CheckStatus, CompareInteraction, CompareWithoutNode, ReadStatus,
       BeginSerialise, EndSerialise, SerialiseFreed, SendUpdate, server, thread, vars
  <2>3. CASE \/ Failure
             \/ \E u \in network : Deliver(u) \/ Swallow(u)
             \/ \E o \in orphans : OrphanStep(o)
    <3>1. UNCHANGED <<model, accumulator, ws>>
      BY <2>3, OtherOrphans DEF Failure, TimesOut, Reboot, Leaves, SendFails,
         LoseUpdate, CutOff, Lost, Deliver, Swallow, OrphanRegisters,
         NodeRegistered, server, thread
    <3>2. QED
      BY <3>1, StutterOfRounds
  <2>4. CASE Sum
    BY <2>4, SumGathers
  <2>5. CASE CopyGlobal
    BY <2>5, CopyPublishes DEF Rounds!Next
  <2>6. CASE SetZero
    <3>1. ws = "zero" /\ ws' = "advance" /\ accumulator' = {} /\ model' = model
      BY <2>6 DEF SetZero, Thread
    <3>2. Gathered = {} /\ Gathered' = {}
      BY <3>1 DEF Gathered
    <3>3. QED
      BY <3>1, <3>2 DEF Rounds!vars
  <2>7. CASE FreeGlobal
    <3>1. model'.version = model.version /\ model'.parts = model.parts
      BY <2>7 DEF FreeGlobal, Typed, TypeOK
    <3>2. Gathered' = Gathered
      BY <2>7 DEF FreeGlobal, Thread, Gathered
    <3>3. QED
      BY <3>1, <3>2 DEF Rounds!vars
  <2>8. CASE StartHandling \/ CountInteraction \/ LowerStatus
             \/ Await \/ CompleteRound \/ Average \/ Advance \/ RaiseStatus
             \/ RemoveMessage
    BY <2>8, StutterOfRounds DEF StartHandling, CountInteraction,
       LowerStatus, Await, CompleteRound, Average, Advance,
       RaiseStatus, RemoveMessage, Thread, server
  <2>9. QED
    BY <2>1, <2>2, <2>3, <2>4, <2>5, <2>6, <2>7, <2>8 DEF Next, ThreadStep
<1>3. QED
  BY <1>1, <1>2, RoundInvariant, RoundsAreBounded, PTL
  DEF Spec, RefinesRoundsSafety
=============================================================================
