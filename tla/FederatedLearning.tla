-------------------------- MODULE FederatedLearning --------------------------
(***************************************************************************)
(* The training protocol of the whole system: the aggregation server       *)
(* (FederatedLearningServer/) and the ESP32 clients                        *)
(* (FederatedLearningESP32/main/main.c).                                   *)
(*                                                                         *)
(* Threads.  The server runs one WebSocket thread, which receives updates  *)
(* (lws_service) and aggregates them (handle_message), and one HTTP thread *)
(* per request, with no lock between them: httpserver.c:42 and :70 are     *)
(* commented out.  The server is compiled without optimisation, so every   *)
(* step below is a group of statements that touches the shared state once, *)
(* in program order.  A client waits for one request at a time, so pc[c]   *)
(* is both the place in deep_learning and, from "compare" to "serialise",  *)
(* the place of the HTTP thread that serves it.  A client that gives up (a *)
(* time-out, a reboot) leaves that thread behind, which knows nothing of   *)
(* it and goes on: it is then in "orphans".                                *)
(*                                                                         *)
(* Data.  A model is the set of updates averaged in it.  An update is      *)
(* identified by its client and the client's send count, and remembers the *)
(* version of the model it was trained from.  Weights and their arithmetic *)
(* are in module GlobalModel, the list of registered nodes is in module    *)
(* NodeRegister, the reassembly of messages in module ReceiveBuffer.       *)
(*                                                                         *)
(* Hypotheses of this module, which the code does not enforce:             *)
(*  - registrations do not overlap: one is a single step here.  What is    *)
(*    lost when they do is in NodeRegister (AddedIsListed);                *)
(*  - a client that is not answered knows it.  HttpClient has the deleted  *)
(*    answer of an older request that it may find instead.                 *)
(***************************************************************************)
EXTENDS Naturals, FiniteSets, Sequences

CONSTANTS
    Clients,          \* devices, by IP address
    ClientNodes,      \* CLIENTNODES: how many the server waits for
    InteractionCycle, \* INTERCATIONCYCLE: how many rounds it runs
    PromptUpdates,    \* TRUE: when a device polls, its previous update has
                      \* been handled or lost (the 500 ms of main.c:68 suffice)
    MaxSends,         \* bound: updates sent by one client
    MaxFailures       \* bound: lost messages, abandoned requests and reboots

ASSUME ConstantsAssumption ==
    /\ IsFiniteSet(Clients)
    /\ ClientNodes \in Nat \ {0}
    /\ InteractionCycle \in Nat \ {0}
    /\ PromptUpdates \in BOOLEAN
    /\ MaxSends \in Nat
    /\ MaxFailures \in Nat

VARIABLES
    (* struct FederatedLearning and its NodeControl *)
    globalmodelstatus, trainingscounter,
    currentinteraction,
    nodes,            \* the clients on the node list
    clientnodesregistered,
    interaction,      \* ClientNode.interaction, 0 before registration
    accumulator,      \* nodecontrol->neuralnetwork: the updates summed in it
    model,            \* neuralnetwork: [intact, version, parts]
    (* the WebSocket thread *)
    ws,               \* its place in start_websocketserver
    queue,            \* buffer_client_message
    up,               \* FALSE after a NULL or freed pointer stopped the server
    (* the clients and the network *)
    pc, base, sends,
    orphans,          \* HTTP threads whose client no longer waits for them
    network,          \* updates sent and not yet received in full
    clogged,          \* received_json has the beginning of a message whose
                      \* connection broke
    failures

server  == <<globalmodelstatus, trainingscounter, currentinteraction, nodes,
             clientnodesregistered, interaction, accumulator, model>>
thread  == <<ws, queue, up>>
clients == <<pc, base, sends>>
outside == <<orphans, network, clogged, failures>>
vars    == <<server, thread, clients, outside>>

Updates == [client : Clients, model : Nat, number : Nat]

ClientPC == {"boot", "poll", "compare", "status", "fetch", "serialise", "train"}
ThreadPC == {"service", "handle", "aggregate", "sum", "check", "average",
             "free", "copy", "zero", "advance", "raise", "remove"}

(* Where an abandoned request may stand.  One that has only to read a flag *)
(* and to answer is not kept: nobody will see the answer.                  *)
OrphanPC == {"boot", "poll", "compare", "fetch", "serialise"}

Orphans == [client : Clients, place : OrphanPC, version : Nat]

Queued == {queue[i] : i \in DOMAIN queue}

(* The update the WebSocket thread is working on: buffer->first, which     *)
(* remove_buffer_client_message unlinks only after handling it.            *)
Message == Head(queue)

(* c has an update on its way to the aggregation. *)
Outstanding(c) == \E u \in network \cup Queued : u.client = c

Goto(c, place) == pc' = [pc EXCEPT ![c] = place]
-----------------------------------------------------------------------------
(* After main: getFederatedLearningInstance, setFederatedLearningGlobalModel *)
Init ==
    /\ globalmodelstatus = 1
    /\ trainingscounter = 0
    /\ currentinteraction = 0
    /\ nodes = {}
    /\ clientnodesregistered = 0
    /\ interaction = [c \in Clients |-> 0]
    /\ accumulator = {}
    /\ model = [intact |-> TRUE, version |-> 0, parts |-> {}]
    /\ ws = "service"
    /\ queue = <<>>
    /\ up = TRUE
    /\ pc = [c \in Clients |-> "boot"]
    /\ base = [c \in Clients |-> 0]
    /\ sends = [c \in Clients |-> 0]
    /\ orphans = {}
    /\ network = {}
    /\ clogged = FALSE
    /\ failures = 0
-----------------------------------------------------------------------------
(* HTTP handlers and the client loop that calls them.                      *)

(* Seeded fault: registering again counts again. *)
NodeRegistered_CountsTwice(c) ==
    /\ up
    /\ IF clientnodesregistered # ClientNodes
       THEN /\ nodes' = nodes \cup {c}
            /\ clientnodesregistered' = clientnodesregistered + 1
       ELSE UNCHANGED <<nodes, clientnodesregistered>>
    /\ globalmodelstatus' =
         IF clientnodesregistered' = ClientNodes THEN 1 ELSE globalmodelstatus
    /\ UNCHANGED <<trainingscounter, currentinteraction, interaction,
                   accumulator, model, thread>>

(* handle_get_noderegister, when no other registration runs meanwhile: a   *)
(* node is added once and while there is room.                             *)
NodeRegistered(c) ==
    /\ up
    /\ IF clientnodesregistered # ClientNodes /\ c \notin nodes
       THEN /\ nodes' = nodes \cup {c}
            /\ clientnodesregistered' = clientnodesregistered + 1
       ELSE UNCHANGED <<nodes, clientnodesregistered>>
    /\ globalmodelstatus' =
         IF clientnodesregistered' = ClientNodes THEN 1 ELSE globalmodelstatus
    /\ UNCHANGED <<trainingscounter, currentinteraction, interaction,
                   accumulator, model, thread>>

(* deep_learning up to its loop: the client does not look at the reply and *)
(* goes on to poll, whether it was added or refused.                       *)
Register(c) ==
    /\ pc[c] = "boot"
    /\ NodeRegistered(c)
    /\ Goto(c, "poll")
    /\ UNCHANGED <<base, sends, outside>>

(* Seeded fault: the end of training is not tested. *)
CheckStatus_NoCycleTest(c) ==
    /\ up /\ pc[c] = "poll"
    /\ PromptUpdates => ~Outstanding(c)
    /\ clientnodesregistered = ClientNodes
    /\ Goto(c, "compare")
    /\ UNCHANGED <<server, thread, base, sends, outside>>

(* handle_get_checkmodelstatus answers 0 when the training is over or not  *)
(* everybody is registered; the client will poll again.                    *)
StatusZero(c) ==
    /\ up /\ pc[c] = "poll"
    /\ \/ currentinteraction = InteractionCycle
       \/ clientnodesregistered # ClientNodes
    /\ UNCHANGED vars

(* Otherwise it goes on; other threads may run before its next reads.      *)
CheckStatus(c) ==
    /\ up /\ pc[c] = "poll"
    /\ PromptUpdates => ~Outstanding(c)
    /\ currentinteraction # InteractionCycle
    /\ clientnodesregistered = ClientNodes
    /\ Goto(c, "compare")
    /\ UNCHANGED <<server, thread, base, sends, outside>>

(* Seeded fault: whoever asks while the model is available is invited. *)
CompareInteraction_Anyone(c) ==
    /\ up /\ pc[c] = "compare"
    /\ c \in nodes
    /\ Goto(c, "status")
    /\ UNCHANGED <<server, thread, base, sends, outside>>

(* It then finds the client's node and reads currentinteraction again.     *)
CompareInteraction(c) ==
    /\ up /\ pc[c] = "compare"
    /\ c \in nodes
    /\ Goto(c, IF interaction[c] = currentinteraction THEN "status" ELSE "poll")
    /\ UNCHANGED <<server, thread, base, sends, outside>>

(* The walk ends in NULL for a client that is not on the list, and the     *)
(* pointer is dereferenced.                                                *)
CompareWithoutNode(c) ==
    /\ up /\ pc[c] = "compare"
    /\ c \notin nodes
    /\ up' = FALSE
    /\ UNCHANGED <<server, ws, queue, clients, outside>>

(* Last, globalmodelstatus is read, and the client is answered 1 or 0.     *)
ReadStatus(c) ==
    /\ up /\ pc[c] = "status"
    /\ Goto(c, IF globalmodelstatus = 1 THEN "fetch" ELSE "poll")
    /\ UNCHANGED <<server, thread, base, sends, outside>>

(* handle_get_globalmodel reads the pointer to the model in force and      *)
(* walks it to convert it to JSON; nothing stops the WebSocket thread      *)
(* meanwhile.                                                              *)
BeginSerialise(c) ==
    /\ up /\ pc[c] = "fetch"
    /\ base' = [base EXCEPT ![c] = model.version]
    /\ Goto(c, "serialise")
    /\ UNCHANGED <<server, thread, sends, outside>>

(* A model that an HTTP thread found in force is still, and not freed.     *)
Intact(version) == model.intact /\ model.version = version

(* The walk ends, and the client has the model (getglobalmodel,            *)
(* replaceNeuralNetwork) and trains it.  Memory that was freed may still   *)
(* have been there to read ...                                             *)
EndSerialise(c) ==
    /\ up /\ pc[c] = "serialise"
    /\ Goto(c, "train")
    /\ UNCHANGED <<server, thread, base, sends, outside>>

(* ... or reading it stops the server.                                     *)
SerialiseFreed(c) ==
    /\ up /\ pc[c] = "serialise"
    /\ ~Intact(base[c])
    /\ up' = FALSE
    /\ UNCHANGED <<server, ws, queue, clients, outside>>

(* websocket_send_local_model, connected: the model and a trainings counter *)
(* of 1 leave on a connection of their own.                                *)
SendUpdate(c) ==
    /\ pc[c] = "train" /\ sends[c] < MaxSends
    /\ sends' = [sends EXCEPT ![c] = @ + 1]
    /\ network' = network \cup
         {[client |-> c, model |-> base[c], number |-> sends[c] + 1]}
    /\ Goto(c, "poll")
    /\ UNCHANGED <<server, thread, base, orphans, clogged, failures>>

(* ... and not connected after two seconds: the update is dropped.         *)
SendFails(c) ==
    /\ pc[c] = "train" /\ failures < MaxFailures
    /\ failures' = failures + 1
    /\ Goto(c, "poll")
    /\ UNCHANGED <<server, thread, base, sends, orphans, network, clogged>>

(* The client stops waiting.  Its request may be on its way, or a thread   *)
(* may have begun to serve it, anywhere.                                   *)
Leaves(c, place) ==
    /\ failures < MaxFailures
    /\ failures' = failures + 1
    /\ orphans' = orphans \cup
         {o \in {[client |-> c, place |-> pc[c], version |-> base[c]]} :
            o.place \in OrphanPC}
    /\ Goto(c, place)
    /\ UNCHANGED <<server, thread, base, sends, network, clogged>>

(* A request is not answered in time, or by nothing that parses.  The      *)
(* result of a registration is not looked at (httpclient.c:190), any other *)
(* failure leads back to the poll (main.c:38-41).                          *)
TimesOut(c) ==
    /\ pc[c] # "train"
    /\ Leaves(c, "poll")

(* The device restarts and runs app_main again.                            *)
Reboot(c) == Leaves(c, "boot")
-----------------------------------------------------------------------------
(* The HTTP threads of abandoned requests: the same handlers, whose answer *)
(* nobody reads.                                                           *)
Orphan(o, place) == o \in orphans /\ o.place = place

Ends(o) ==
    /\ orphans' = orphans \ {o}
    /\ UNCHANGED <<clients, network, clogged, failures>>

Becomes(o, next) ==
    /\ orphans' = (orphans \ {o}) \cup {next}
    /\ UNCHANGED <<server, thread, clients, network, clogged, failures>>

OrphanRegisters(o) ==
    /\ Orphan(o, "boot")
    /\ NodeRegistered(o.client)
    /\ Ends(o)

OrphanChecks(o) ==
    /\ up /\ Orphan(o, "poll")
    /\ currentinteraction # InteractionCycle
    /\ clientnodesregistered = ClientNodes
    /\ Becomes(o, [o EXCEPT !.place = "compare"])

OrphanCompares(o) ==
    /\ up /\ Orphan(o, "compare")
    /\ o.client \in nodes
    /\ Ends(o)
    /\ UNCHANGED <<server, thread>>

OrphanWithoutNode(o) ==
    /\ up /\ Orphan(o, "compare")
    /\ o.client \notin nodes
    /\ up' = FALSE
    /\ UNCHANGED <<server, ws, queue, clients, outside>>

OrphanBegins(o) ==
    /\ up /\ Orphan(o, "fetch")
    /\ Becomes(o, [o EXCEPT !.place = "serialise", !.version = model.version])

OrphanEnds(o) ==
    /\ up /\ Orphan(o, "serialise")
    /\ Ends(o)
    /\ UNCHANGED <<server, thread>>

(* It goes on to walk the model when its client is invited again, and may  *)
(* find it freed under it.                                                 *)
OrphanFreed(o) ==
    /\ up /\ Orphan(o, "serialise")
    /\ ~Intact(o.version)
    /\ up' = FALSE
    /\ UNCHANGED <<server, ws, queue, clients, outside>>
-----------------------------------------------------------------------------
(* The WebSocket thread.                                                   *)

Thread(from, to) == up /\ ws = from /\ ws' = to /\ up' = up

(* callback_echo has the whole message and queues it.                      *)
Deliver(u) ==
    /\ up /\ ws = "service" /\ ~clogged
    /\ u \in network
    /\ network' = network \ {u}
    /\ queue' = Append(queue, u)
    /\ UNCHANGED <<server, ws, up, clients, orphans, clogged, failures>>

(* Behind the beginning of a message that was cut off, callback_echo only  *)
(* gathers: the braces never balance, and when the buffer is full what     *)
(* comes is refused.                                                       *)
Swallow(u) ==
    /\ up /\ ws = "service" /\ clogged
    /\ u \in network
    /\ network' = network \ {u}
    /\ UNCHANGED <<server, thread, clients, orphans, clogged, failures>>

Lost(u) ==
    /\ u \in network /\ failures < MaxFailures
    /\ failures' = failures + 1
    /\ network' = network \ {u}
    /\ UNCHANGED <<server, thread, clients, orphans>>

(* An update goes and leaves nothing: its connection breaks before the     *)
(* server has any of it, or it was woven with another and does not parse.  *)
LoseUpdate(u) == Lost(u) /\ UNCHANGED clogged

(* Its connection breaks when the server has its beginning, which stays in *)
(* the buffer: callback_echo has no case for that.                         *)
CutOff(u) == Lost(u) /\ clogged' = TRUE

(* lws_service returns and handle_message finds the queue not empty.       *)
StartHandling ==
    /\ Thread("service", "handle")
    /\ queue # <<>>
    /\ UNCHANGED <<server, queue, clients, outside>>

(* handle_clint_model_message: the sender's node, interaction++.  If it had *)
(* none, NULL would be dereferenced.                                       *)
CountInteraction ==
    /\ up /\ ws = "handle" /\ ws' = "aggregate"
    /\ up' = IF Message.client \in nodes THEN up ELSE FALSE
    /\ interaction' = [interaction EXCEPT ![Message.client] = @ + 1]
    /\ UNCHANGED <<globalmodelstatus, trainingscounter, currentinteraction,
                   nodes, clientnodesregistered, accumulator, model, queue,
                   clients, outside>>

(* AggregationModel makes the model unavailable ...                        *)
LowerStatus ==
    /\ Thread("aggregate", "sum")
    /\ globalmodelstatus' = 0
    /\ UNCHANGED <<trainingscounter, currentinteraction, nodes,
                   clientnodesregistered, interaction, accumulator, model,
                   queue, clients, outside>>

(* ... FederatedAveragingSum and trainingscounter += 1 ...                 *)
Sum ==
    /\ Thread("sum", "check")
    /\ accumulator' = accumulator \cup {Message}
    /\ trainingscounter' = trainingscounter + 1
    /\ UNCHANGED <<globalmodelstatus, currentinteraction, nodes,
                   clientnodesregistered, interaction, model, queue, clients,
                   outside>>

AllReceived == \A c \in nodes : interaction[c] # currentinteraction

(* Seeded fault: the early return leaves the model unavailable. *)
Await_StatusStaysLow ==
    /\ Thread("check", "remove")
    /\ ~AllReceived
    /\ UNCHANGED <<server, queue, clients, outside>>

(* ... some node has not interacted in this round: back to status 1 ...    *)
Await ==
    /\ Thread("check", "remove")
    /\ ~AllReceived
    /\ globalmodelstatus' = 1
    /\ UNCHANGED <<trainingscounter, currentinteraction, nodes,
                   clientnodesregistered, interaction, accumulator, model,
                   queue, clients, outside>>

(* Seeded fault: the first update completes the round. *)
CompleteRound_AnyUpdate ==
    /\ Thread("check", "average")
    /\ UNCHANGED <<server, queue, clients, outside>>

(* ... all have.                                                           *)
CompleteRound ==
    /\ Thread("check", "average")
    /\ AllReceived
    /\ UNCHANGED <<server, queue, clients, outside>>

(* Seeded fault: the trainings counter keeps counting over rounds. *)
Average_KeepsCounter ==
    /\ Thread("average", "free")
    /\ UNCHANGED <<server, queue, clients, outside>>

(* FederatedAveraging divides the sums by the counter; the counter restarts. *)
Average ==
    /\ Thread("average", "free")
    /\ trainingscounter' = 0
    /\ UNCHANGED <<globalmodelstatus, currentinteraction, nodes,
                   clientnodesregistered, interaction, accumulator, model,
                   queue, clients, outside>>

(* freeNeuralNetwork: the old model's memory is gone.                      *)
FreeGlobal ==
    /\ Thread("free", "copy")
    /\ model' = [model EXCEPT !.intact = FALSE]
    /\ UNCHANGED <<globalmodelstatus, trainingscounter, currentinteraction,
                   nodes, clientnodesregistered, interaction, accumulator,
                   queue, clients, outside>>

(* CopyNeuralNetwork: the average becomes the model of the next round.     *)
CopyGlobal ==
    /\ Thread("copy", "zero")
    /\ model' = [intact |-> TRUE, version |-> model.version + 1,
                 parts |-> accumulator]
    /\ UNCHANGED <<globalmodelstatus, trainingscounter, currentinteraction,
                   nodes, clientnodesregistered, interaction, accumulator,
                   queue, clients, outside>>

(* Seeded fault: the sums of the round are not cleared. *)
SetZero_Skipped ==
    /\ Thread("zero", "advance")
    /\ UNCHANGED <<server, queue, clients, outside>>

(* SetNeuralNetworkZeroWeightValue clears the summed weights (the biases it *)
(* leaves are in GlobalModel); PerformanceMetrics reads the new model.     *)
SetZero ==
    /\ Thread("zero", "advance")
    /\ accumulator' = {}
    /\ UNCHANGED <<globalmodelstatus, trainingscounter, currentinteraction,
                   nodes, clientnodesregistered, interaction, model, queue,
                   clients, outside>>

Advance ==
    /\ Thread("advance", "raise")
    /\ currentinteraction' = currentinteraction + 1
    /\ UNCHANGED <<globalmodelstatus, trainingscounter, nodes,
                   clientnodesregistered, interaction, accumulator, model,
                   queue, clients, outside>>

(* Seeded fault: the flag is counted up rather than set. *)
RaiseStatus_Increments ==
    /\ Thread("raise", "remove")
    /\ globalmodelstatus' = globalmodelstatus + 1
    /\ UNCHANGED <<trainingscounter, currentinteraction, nodes,
                   clientnodesregistered, interaction, accumulator, model,
                   queue, clients, outside>>

RaiseStatus ==
    /\ Thread("raise", "remove")
    /\ globalmodelstatus' = 1
    /\ UNCHANGED <<trainingscounter, currentinteraction, nodes,
                   clientnodesregistered, interaction, accumulator, model,
                   queue, clients, outside>>

(* remove_buffer_client_message unlinks the message; handle_message goes on *)
(* with the next one, or returns to lws_service.                           *)
RemoveMessage ==
    /\ Thread("remove", IF Tail(queue) = <<>> THEN "service" ELSE "handle")
    /\ queue' = Tail(queue)
    /\ UNCHANGED <<server, clients, outside>>
-----------------------------------------------------------------------------
ThreadStep ==
    \/ StartHandling \/ CountInteraction
    \/ LowerStatus \/ Sum \/ Await \/ CompleteRound \/ Average
    \/ FreeGlobal \/ CopyGlobal \/ SetZero \/ Advance \/ RaiseStatus
    \/ RemoveMessage

ClientStep(c) ==
    \/ Register(c) \/ StatusZero(c) \/ CheckStatus(c) \/ CompareInteraction(c)
    \/ CompareWithoutNode(c) \/ ReadStatus(c)
    \/ BeginSerialise(c) \/ EndSerialise(c) \/ SerialiseFreed(c)
    \/ SendUpdate(c)

OrphanStep(o) ==
    \/ OrphanRegisters(o) \/ OrphanChecks(o) \/ OrphanCompares(o)
    \/ OrphanWithoutNode(o) \/ OrphanBegins(o) \/ OrphanEnds(o)
    \/ OrphanFreed(o)

Failure ==
    \/ \E c \in Clients : TimesOut(c) \/ SendFails(c) \/ Reboot(c)
    \/ \E u \in network : LoseUpdate(u) \/ CutOff(u)

Next ==
    \/ ThreadStep
    \/ \E c \in Clients : ClientStep(c)
    \/ \E o \in orphans : OrphanStep(o)
    \/ \E u \in network : Deliver(u) \/ Swallow(u)
    \/ Failure

(* Threads and tasks are scheduled, and a connection that stays up gets    *)
(* its message across.  Nothing is assumed of failures but their bound,    *)
(* and nothing of abandoned requests, which may never have arrived.        *)
Fairness ==
    /\ WF_vars(ThreadStep)
    /\ \A c \in Clients :
         /\ WF_vars(ClientStep(c))
         /\ WF_vars(\E u \in network : u.client = c /\ (Deliver(u) \/ Swallow(u)))

Spec == Init /\ [][Next]_vars

FairSpec == Spec /\ Fairness
-----------------------------------------------------------------------------
(* Properties.                                                             *)

(* Every variable keeps the type its C declaration and use give it. *)
TypeOK ==
    /\ globalmodelstatus \in {0, 1}
    /\ trainingscounter \in Nat
    /\ currentinteraction \in Nat
    /\ nodes \subseteq Clients
    /\ clientnodesregistered \in Nat
    /\ interaction \in [Clients -> Nat]
    /\ accumulator \subseteq Updates
    /\ model \in [intact : BOOLEAN, version : Nat, parts : SUBSET Updates]
    /\ ws \in ThreadPC
    /\ queue \in Seq(Updates)
    /\ up \in BOOLEAN
    /\ pc \in [Clients -> ClientPC]
    /\ base \in [Clients -> Nat]
    /\ sends \in [Clients -> Nat]
    /\ orphans \subseteq Orphans
    /\ network \subseteq Updates
    /\ clogged \in BOOLEAN
    /\ failures \in Nat

(* AggregationModel publishes only after "we have received all clients'    *)
(* updates" (federatedlearning.c:732): the model in force averages an      *)
(* update of every client.                                                 *)
EveryClientAveraged ==
    model.version > 0 => \A c \in Clients : \E u \in model.parts : u.client = c

(* The model in force averages exactly one update of every client, each    *)
(* trained from the model before it.                                       *)
RoundIsComplete ==
    /\ EveryClientAveraged
    /\ \A u \in model.parts : u.model + 1 = model.version
    /\ \A u, v \in model.parts : u.client = v.client => u = v

(* When FederatedAveraging divides, the counter it divides by is the       *)
(* number of updates in the sum, and not zero.                             *)
AverageIsExact ==
    ws = "average" =>
      trainingscounter = Cardinality(accumulator) /\ trainingscounter > 0

(* As long as its client waits for it, no HTTP thread is converting a      *)
(* model to JSON that the WebSocket thread has freed, whether or not it    *)
(* has put the next one in its place (handle_get_globalmodel against       *)
(* federatedlearning.c:746).  The thread of an abandoned request may.      *)
NoReadOfFreedModel ==
    \A c \in Clients : pc[c] = "serialise" => Intact(base[c])

(* The clients whose node the status handler is searching for.             *)
Sought ==
    {c \in Clients : pc[c] = "compare"}
      \cup {o.client : o \in {p \in orphans : p.place = "compare"}}

(* Neither handler tests for the NULL of a search that fails               *)
(* (httphandlers.c:136, websockethandlers.c:29).  The one of the status is *)
(* only made in vain for a device beyond those that the server waits for,  *)
(* which was refused or never registered, and the one of an update never.  *)
OnlyRefusedAreUnknown ==
    /\ \A c \in Sought : c \in nodes \/ Cardinality(nodes) = ClientNodes
    /\ \A u \in network \cup Queued : u.client \in nodes

(* The server stops at the configured number of rounds; its test of the    *)
(* end is for equality, so a count that passed it would run on for ever.   *)
RoundsBounded == currentinteraction <= InteractionCycle

(* No registered client falls behind the round: the tests of status and of *)
(* the end of a round are for equality, so one that did would never be     *)
(* invited again and never be waited for.                                  *)
NobodyLeftBehind == \A c \in nodes : interaction[c] >= currentinteraction

(* A client that has been told to train (main.c:36: "new interaction has   *)
(* began and this client hasn't interacted yet") has no update from the    *)
(* current model in the aggregation or on its way to it.                   *)
InvitedOnlyOnce ==
    \A c \in Clients : pc[c] = "fetch" =>
      \A u \in network \cup Queued \cup accumulator :
        ~(u.client = c /\ u.model = model.version)

(* What the server has gathered for the model it will publish next: the    *)
(* sums, until they have been copied.                                      *)
Gathered == IF ws = "zero" THEN {} ELSE {u.client : u \in accumulator}

(* Nothing has happened that stops the training for good: no message was   *)
(* cut off, no abandoned thread has read freed memory, and every client    *)
(* whose registration was not answered registers (again).                  *)
Undisturbed ==
    /\ up /\ ~clogged
    /\ \A c \in Clients : pc[c] # "boot" => c \in nodes

(* The protocol implements the rounds of FederatedRounds: each step gathers *)
(* one client's contribution, publishes, or changes nothing of them, and   *)
(* if it stays undisturbed, what they owe is done.                         *)
Rounds == INSTANCE FederatedRounds
            WITH Cycle <- InteractionCycle,
                 round <- model.version,
                 gathered <- Gathered,
                 global <- {u.client : u \in model.parts}

RefinesRoundsSafety == Rounds!Init /\ [][Rounds!Next]_(Rounds!vars)
RefinesRounds == RefinesRoundsSafety /\ (<>[]Undisturbed => Rounds!Fairness)

(* Every configured round is completed, whatever else fails a bounded      *)
(* number of times: updates that get lost, requests that are not answered, *)
(* devices that reboot (main.c, AggregationModel).                         *)
TrainingCompletes ==
    <>[]Undisturbed => <>(currentinteraction = InteractionCycle)
=============================================================================
