---------------------------- MODULE ReceiveBuffer ----------------------------
(***************************************************************************)
(* How the server puts the JSON messages of the clients together           *)
(* (websocketserver.c).  A message arrives in fragments, one callback each; *)
(* callback_echo appends every fragment, whichever connection it came by,  *)
(* to one static buffer, and takes the buffer for a message when its       *)
(* braces balance.                                                         *)
(*                                                                         *)
(* A message is its sender and a number; a fragment is a message and a     *)
(* part.  A model opens its first brace in its first part and closes it in *)
(* its last, so the braces of the buffer balance when every message that   *)
(* is in it is there to its last part.  The braces of no prefix balance,   *)
(* and two messages woven together do not parse.                           *)
(***************************************************************************)
EXTENDS Naturals, FiniteSets, Sequences, SequencesExt

CONSTANTS
    Clients,
    Frags,        \* fragments of a message
    Capacity,     \* MAX_JSON_SIZE, in fragments
    MaxMessages,  \* bound: messages one client sends
    MaxDrops      \* bound: connections that break

ASSUME BufferAssumption ==
    /\ IsFiniteSet(Clients)
    /\ Frags \in Nat \ {0} /\ Capacity \in Nat
    /\ MaxMessages \in Nat /\ MaxDrops \in Nat

VARIABLES
    serial,    \* connections of different clients do not overlap in time
    part,      \* parts sent on a client's connection; Closed without one
    number,    \* messages a client has begun
    received,  \* received_json, received_json_len
    queue,     \* buffer_client_message
    draining,  \* handle_message is running, not lws_service
    accepted,  \* messages that parsed and went to the aggregation
    refused,   \* messages refused as "too big"
    drops

vars == <<serial, part, number, received, queue, draining, accepted, refused, drops>>

Messages == [client : Clients, number : 1..MaxMessages]
Closed == Frags

Current(c) == [client |-> c, number |-> number[c]]

(* What text has of message m, and the messages it has something of. *)
Places(text, m) == {i \in DOMAIN text : text[i].message = m}
In(text) == {text[i].message : i \in DOMAIN text}
Whole(text, m) == Cardinality(Places(text, m)) = Frags

Init ==
    /\ serial \in BOOLEAN
    /\ part = [c \in Clients |-> Closed]
    /\ number = [c \in Clients |-> 0]
    /\ received = <<>>
    /\ queue = <<>>
    /\ draining = FALSE
    /\ accepted = <<>>
    /\ refused = {}
    /\ drops = 0
-----------------------------------------------------------------------------
(* A client connects to send its model. *)
Connect(c) ==
    /\ part[c] = Closed /\ number[c] < MaxMessages
    /\ \A d \in Clients : part[d] # Closed => ~serial
    /\ part' = [part EXCEPT ![c] = 0]
    /\ number' = [number EXCEPT ![c] = @ + 1]
    /\ UNCHANGED <<serial, received, queue, draining, accepted, refused, drops>>

(* is_complete_json: as many closing as opening braces, and some. *)
IsCompleteJson(text) == \A m \in In(text) : Whole(text, m)

(* What the callback appends next from c. *)
Fragment(c) == [message |-> Current(c), part |-> part[c] + 1]

(* Seeded fault: the buffer keeps its text after a message. *)
Receive_KeepsText(c) ==
    /\ ~draining /\ part[c] # Closed
    /\ Len(received) < Capacity
    /\ part' = [part EXCEPT ![c] = @ + 1]
    /\ received' = Append(received, Fragment(c))
    /\ queue' = IF IsCompleteJson(Append(received, Fragment(c)))
                THEN Append(queue, [ip |-> c, text |-> Append(received, Fragment(c))])
                ELSE queue
    /\ UNCHANGED <<serial, number, draining, accepted, refused, drops>>

(* Seeded fault: the fragment that no longer fits is let in. *)
Receive_OffByOne(c) ==
    /\ ~draining /\ part[c] # Closed
    /\ Len(received) <= Capacity
    /\ part' = [part EXCEPT ![c] = @ + 1]
    /\ LET text == Append(received, Fragment(c))
       IN  IF IsCompleteJson(text)
           THEN /\ received' = <<>>
                /\ queue' = Append(queue, [ip |-> c, text |-> text])
           ELSE received' = text /\ UNCHANGED queue
    /\ UNCHANGED <<serial, number, draining, accepted, refused, drops>>

(* LWS_CALLBACK_RECEIVE with room in the buffer: the complete text is      *)
(* queued under the address of the connection it was completed by.         *)
Receive(c) ==
    /\ ~draining /\ part[c] # Closed
    /\ Len(received) < Capacity
    /\ part' = [part EXCEPT ![c] = @ + 1]
    /\ LET text == Append(received, Fragment(c))
       IN  IF IsCompleteJson(text)
           THEN /\ received' = <<>>
                /\ queue' = Append(queue, [ip |-> c, text |-> text])
           ELSE received' = text /\ UNCHANGED queue
    /\ UNCHANGED <<serial, number, draining, accepted, refused, drops>>

(* "Received message too big": the connection is closed, the buffer stays. *)
Refuse(c) ==
    /\ ~draining /\ part[c] # Closed
    /\ Len(received) >= Capacity
    /\ part' = [part EXCEPT ![c] = Closed]
    /\ refused' = refused \cup {Current(c)}
    /\ UNCHANGED <<serial, number, received, queue, draining, accepted, drops>>

(* Seeded fault: the buffer is emptied when any connection breaks. *)
Drop_Resets(c) ==
    /\ ~draining /\ part[c] # Closed /\ drops < MaxDrops
    /\ part' = [part EXCEPT ![c] = Closed]
    /\ received' = <<>>
    /\ drops' = drops + 1
    /\ UNCHANGED <<serial, number, queue, draining, accepted, refused>>

(* The connection breaks: callback_echo has no case for it. *)
Drop(c) ==
    /\ ~draining /\ part[c] # Closed /\ drops < MaxDrops
    /\ part' = [part EXCEPT ![c] = Closed]
    /\ drops' = drops + 1
    /\ UNCHANGED <<serial, number, received, queue, draining, accepted, refused>>

(* lws_service returns; handle_message drains the queue. *)
StartDraining ==
    /\ ~draining /\ queue # <<>>
    /\ draining' = TRUE
    /\ UNCHANGED <<serial, part, number, received, queue, accepted, refused, drops>>

(* Seeded fault: the newest text is handled first. *)
Handle_Newest ==
    /\ draining
    /\ accepted' = IF Cardinality(In(Last(queue).text)) = 1
                   THEN Append(accepted, [client |-> Last(queue).ip,
                                          number |-> Last(queue).text[1].message.number])
                   ELSE accepted
    /\ queue' = Front(queue)
    /\ draining' = (Len(queue) > 1)
    /\ UNCHANGED <<serial, part, number, received, refused, drops>>

(* remove_buffer_client_message: the oldest text goes to                   *)
(* handle_clint_model_message, which credits the address that came with it *)
(* if it parses and drops it if it does not.                               *)
Handle ==
    /\ draining
    /\ LET text == Head(queue).text
       IN  accepted' = IF Cardinality(In(text)) = 1
                       THEN Append(accepted, [client |-> Head(queue).ip,
                                              number |-> text[1].message.number])
                       ELSE accepted
    /\ queue' = Tail(queue)
    /\ draining' = (Tail(queue) # <<>>)
    /\ UNCHANGED <<serial, part, number, received, refused, drops>>

Next ==
    \/ \E c \in Clients : Connect(c) \/ Receive(c) \/ Refuse(c) \/ Drop(c)
    \/ StartDraining \/ Handle

(* The network carries the fragments of an open connection, the server     *)
(* services its sockets and drains its queue.  No client has to send.      *)
Fairness ==
    /\ \A c \in Clients : WF_vars(Receive(c)) /\ WF_vars(Refuse(c))
    /\ WF_vars(StartDraining) /\ WF_vars(Handle)

Spec == Init /\ [][Next]_vars /\ Fairness
-----------------------------------------------------------------------------
(* The messages that can still get through. *)
InFlight ==
    {Current(c) : c \in {d \in Clients : part[d] # Closed}}
      \cup {m \in In(received) : Whole(received, m)}
      \cup UNION {In(queue[i].text) : i \in DOMAIN queue}

(* Every variable keeps its type. *)
TypeOK ==
    /\ serial \in BOOLEAN
    /\ part \in [Clients -> 0..Frags]
    /\ number \in [Clients -> 0..MaxMessages]
    /\ received \in Seq([message : Messages, part : 1..Frags])
    /\ Len(received) <= Capacity
    /\ queue \in Seq([ip : Clients, text : Seq([message : Messages, part : 1..Frags])])
    /\ draining \in BOOLEAN
    /\ accepted \in Seq(Messages)
    /\ refused \subseteq Messages
    /\ drops \in Nat

(* Counting braces from the start of the buffer is sound: what is in it of *)
(* a message is a beginning of that message, whoever was cut off before.   *)
BeginsAtTheBeginning ==
    \A i \in DOMAIN received :
      received[i].part =
        Cardinality({j \in Places(received, received[i].message) : j <= i})

(* Messages reach the aggregation in the order in which they were begun by *)
(* their sender.                                                           *)
InOrder ==
    \A i, j \in DOMAIN accepted :
      i < j /\ accepted[i].client = accepted[j].client =>
        accepted[i].number < accepted[j].number

(* The buffer and the queue implement the channel that FederatedLearning   *)
(* assumes: reliable as long as connections do not overlap and none has    *)
(* broken, and otherwise lossy, but never more than that.                  *)
Channel == INSTANCE MessageChannel
             WITH lossy <- ~serial \/ drops > 0 \/ Frags > Capacity,
                  inflight <- InFlight,
                  delivered <- accepted

ImplementsChannel == Channel!Spec
ImplementsChannelSafety == Channel!Init /\ [][Channel!Next]_(Channel!vars)

(* The buffer has room for a message of every client at once. *)
HasRoom == Frags * Cardinality(Clients) < Capacity

(* However the first messages of the clients are woven together, the       *)
(* buffer is empty again in the end, and if it has room for all of them    *)
(* none is refused as too big, unless a connection breaks.                 *)
Recovers ==
    [](drops = 0 /\ \A c \in Clients : number[c] <= 1) =>
      []<>(received = <<>> /\ (HasRoom => refused = {}))
=============================================================================
