---------------------------- MODULE NodeRegister ----------------------------
(***************************************************************************)
(* handle_get_noderegister, statement by statement.  Each request runs in  *)
(* a thread of its own (httpserver.c:119) and nothing serialises them: the *)
(* semaphore of handle_request is commented out.  The list of nodes and    *)
(* the counter are shared; a step below is one load or store of them, in   *)
(* the order of the unoptimised build.                                     *)
(*                                                                         *)
(* A request is a model value and IpOf gives the device it comes from.  It *)
(* is also the name of the node its thread allocates.                      *)
(***************************************************************************)
EXTENDS Naturals, FiniteSets

CONSTANTS
    Requests,     \* registration requests, in the life of the server
    Clients,      \* devices, by IP address
    IpOf,         \* the device of each request
    ClientNodes,  \* CLIENTNODES
    NULL

ASSUME RegisterAssumption ==
    /\ IsFiniteSet(Requests)
    /\ IpOf \in [Requests -> Clients]
    /\ ClientNodes \in Nat \ {0}
    /\ NULL \notin Requests

VARIABLES
    serial,     \* requests of different devices do not overlap in time
    firstclientnode, lastclientnode, clientnodesregistered,
    nextclientnode, previousclientnode,   \* fields of the nodes
    globalmodelstatus,
    pc,         \* where the thread of a request is
    clientnode, \* its local pointer, walking the list
    ctrl,       \* its local flag: the address was not found
    loaded,     \* what it has loaded and not yet stored
    reply,      \* what it answers
    up          \* FALSE once a NULL pointer was dereferenced

nodecontrol == <<serial, firstclientnode, lastclientnode,
                 clientnodesregistered, nextclientnode, previousclientnode>>
local == <<clientnode, ctrl, loaded, reply>>
vars == <<nodecontrol, globalmodelstatus, pc, local, up>>

Pointer == Requests \cup {NULL}

PC == {"idle", "limit", "empty", "first", "last", "walk", "load", "link",
       "previous", "append", "count", "store", "status", "done"}

Init ==
    /\ serial \in BOOLEAN
    /\ firstclientnode = NULL
    /\ lastclientnode = NULL
    /\ clientnodesregistered = 0
    /\ nextclientnode = [r \in Requests |-> NULL]
    /\ previousclientnode = [r \in Requests |-> NULL]
    /\ globalmodelstatus = 1
    /\ pc = [r \in Requests |-> "idle"]
    /\ clientnode = [r \in Requests |-> NULL]
    /\ ctrl = [r \in Requests |-> 1]
    /\ loaded = [r \in Requests |-> NULL]
    /\ reply = [r \in Requests |-> "none"]
    /\ up = TRUE

Goto(r, place) == pc' = [pc EXCEPT ![r] = place]

At(r, place) == up /\ pc[r] = place

Running(r) == pc[r] \notin {"idle", "done"}
-----------------------------------------------------------------------------
(* A thread is created for the request.  A device has one request          *)
(* outstanding; only different devices may overlap.                        *)
Accept(r) ==
    /\ At(r, "idle")
    /\ \A q \in Requests : Running(q) => ~serial /\ IpOf[q] # IpOf[r]
    /\ Goto(r, "limit")
    /\ UNCHANGED <<nodecontrol, globalmodelstatus, local, up>>

(* line 166 *)
TestLimit(r) ==
    /\ At(r, "limit")
    /\ IF clientnodesregistered = ClientNodes
       THEN Goto(r, "status") /\ reply' = [reply EXCEPT ![r] = "limit reached"]
       ELSE Goto(r, "empty") /\ UNCHANGED reply
    /\ UNCHANGED <<nodecontrol, globalmodelstatus, clientnode, ctrl, loaded, up>>

(* lines 172 and 189 *)
TestEmpty(r) ==
    /\ At(r, "empty")
    /\ Goto(r, IF firstclientnode = NULL THEN "first" ELSE "walk")
    /\ clientnode' = [clientnode EXCEPT ![r] = firstclientnode]
    /\ UNCHANGED <<nodecontrol, globalmodelstatus, ctrl, loaded, reply, up>>

(* line 179 *)
SetFirst(r) ==
    /\ At(r, "first")
    /\ firstclientnode' = r
    /\ Goto(r, "last")
    /\ UNCHANGED <<serial, lastclientnode, clientnodesregistered, nextclientnode,
                   previousclientnode, globalmodelstatus, local, up>>

(* lines 180 and 208 *)
SetLast(r) ==
    /\ pc[r] \in {"last", "append"} /\ up
    /\ lastclientnode' = r
    /\ Goto(r, "count")
    /\ UNCHANGED <<serial, firstclientnode, clientnodesregistered, nextclientnode,
                   previousclientnode, globalmodelstatus, local, up>>

(* Seeded fault: the walk stops before the last node. *)
Walk_StopsEarly(r) ==
    /\ At(r, "walk")
    /\ IF clientnode[r] = NULL \/ nextclientnode[clientnode[r]] = NULL
       THEN Goto(r, "load") /\ UNCHANGED <<clientnode, ctrl, reply>>
       ELSE /\ IF IpOf[clientnode[r]] = IpOf[r]
               THEN /\ ctrl' = [ctrl EXCEPT ![r] = 0]
                    /\ reply' = [reply EXCEPT ![r] = "registred"]
               ELSE UNCHANGED <<ctrl, reply>>
            /\ clientnode' = [clientnode EXCEPT ![r] = nextclientnode[@]]
            /\ UNCHANGED pc
    /\ UNCHANGED <<nodecontrol, globalmodelstatus, loaded, up>>

(* lines 191-198: one node; it goes on to the end even when it has found   *)
(* the address.  At the end, line 200.                                     *)
Walk(r) ==
    /\ At(r, "walk")
    /\ IF clientnode[r] = NULL
       THEN /\ Goto(r, IF ctrl[r] # 0 THEN "load" ELSE "status")
            /\ UNCHANGED <<clientnode, ctrl, reply>>
       ELSE /\ IF IpOf[clientnode[r]] = IpOf[r]
               THEN /\ ctrl' = [ctrl EXCEPT ![r] = 0]
                    /\ reply' = [reply EXCEPT ![r] = "registred"]
               ELSE UNCHANGED <<ctrl, reply>>
            /\ clientnode' = [clientnode EXCEPT ![r] = nextclientnode[@]]
            /\ UNCHANGED pc
    /\ UNCHANGED <<nodecontrol, globalmodelstatus, loaded, up>>

(* line 206: the old last node is loaded ...                               *)
LoadLast(r) ==
    /\ At(r, "load")
    /\ loaded' = [loaded EXCEPT ![r] = lastclientnode]
    /\ Goto(r, "link")
    /\ UNCHANGED <<nodecontrol, globalmodelstatus, clientnode, ctrl, reply, up>>

(* Seeded fault: the list is closed to a ring. *)
LinkNext_Circular(r) ==
    /\ At(r, "link") /\ loaded[r] # NULL
    /\ nextclientnode' = [nextclientnode EXCEPT ![loaded[r]] = r,
                                                ![r] = firstclientnode]
    /\ Goto(r, "previous")
    /\ UNCHANGED <<serial, firstclientnode, lastclientnode, clientnodesregistered,
                   previousclientnode, globalmodelstatus, local, up>>

(* ... and the new node becomes its successor ...                          *)
LinkNext(r) ==
    /\ At(r, "link") /\ loaded[r] # NULL
    /\ nextclientnode' = [nextclientnode EXCEPT ![loaded[r]] = r]
    /\ Goto(r, "previous")
    /\ UNCHANGED <<serial, firstclientnode, lastclientnode, clientnodesregistered,
                   previousclientnode, globalmodelstatus, local, up>>

(* ... unless another thread has set first and not yet last.               *)
LinkNull(r) ==
    /\ At(r, "link") /\ loaded[r] = NULL
    /\ up' = FALSE
    /\ UNCHANGED <<nodecontrol, globalmodelstatus, pc, local>>

(* Seeded fault: the new node's predecessor is not set. *)
SetPrevious_Skipped(r) ==
    /\ At(r, "previous")
    /\ Goto(r, "append")
    /\ UNCHANGED <<nodecontrol, globalmodelstatus, local, up>>

(* line 207 *)
SetPrevious(r) ==
    /\ At(r, "previous")
    /\ previousclientnode' = [previousclientnode EXCEPT ![r] = lastclientnode]
    /\ Goto(r, "append")
    /\ UNCHANGED <<serial, firstclientnode, lastclientnode, clientnodesregistered,
                   nextclientnode, globalmodelstatus, local, up>>

(* lines 182 and 209: the counter is loaded ...                            *)
LoadCount(r) ==
    /\ At(r, "count")
    /\ loaded' = [loaded EXCEPT ![r] = clientnodesregistered]
    /\ Goto(r, "store")
    /\ UNCHANGED <<nodecontrol, globalmodelstatus, clientnode, ctrl, reply, up>>

(* Seeded fault: the counter is not incremented. *)
StoreCount_Forgets(r) ==
    /\ At(r, "store")
    /\ reply' = [reply EXCEPT ![r] = "added"]
    /\ Goto(r, "status")
    /\ UNCHANGED <<nodecontrol, globalmodelstatus, clientnode, ctrl, loaded, up>>

(* Seeded fault: the counter is incremented twice. *)
StoreCount_Twice(r) ==
    /\ At(r, "store")
    /\ clientnodesregistered' = loaded[r] + 2
    /\ reply' = [reply EXCEPT ![r] = "added"]
    /\ Goto(r, "status")
    /\ UNCHANGED <<serial, firstclientnode, lastclientnode, nextclientnode,
                   previousclientnode, globalmodelstatus, clientnode, ctrl,
                   loaded, up>>

(* ... and stored incremented; the answer is "added".                      *)
StoreCount(r) ==
    /\ At(r, "store")
    /\ clientnodesregistered' = loaded[r] + 1
    /\ reply' = [reply EXCEPT ![r] = "added"]
    /\ Goto(r, "status")
    /\ UNCHANGED <<serial, firstclientnode, lastclientnode, nextclientnode,
                   previousclientnode, globalmodelstatus, clientnode, ctrl,
                   loaded, up>>

(* lines 217-224 *)
SetStatus(r) ==
    /\ At(r, "status")
    /\ globalmodelstatus' = IF clientnodesregistered = ClientNodes
                            THEN 1 ELSE globalmodelstatus
    /\ Goto(r, "done")
    /\ UNCHANGED <<nodecontrol, local, up>>
-----------------------------------------------------------------------------
Step(r) ==
    \/ Accept(r) \/ TestLimit(r) \/ TestEmpty(r) \/ SetFirst(r) \/ SetLast(r)
    \/ Walk(r) \/ LoadLast(r) \/ LinkNext(r) \/ LinkNull(r) \/ SetPrevious(r)
    \/ LoadCount(r) \/ StoreCount(r) \/ SetStatus(r)

Next == \E r \in Requests : Step(r)

(* Every device sends its request and every thread runs.                   *)
Fairness == \A r \in Requests : WF_vars(Step(r))

Spec == Init /\ [][Next]_vars /\ Fairness
-----------------------------------------------------------------------------
(* The node k steps from the first. *)
NodeAt == LET node[k \in 0..Cardinality(Requests)] ==
                IF k = 0 THEN firstclientnode
                ELSE IF node[k - 1] = NULL THEN NULL
                ELSE nextclientnode[node[k - 1]]
          IN  node

Listed == {NodeAt[k] : k \in DOMAIN NodeAt} \ {NULL}

Members == {IpOf[n] : n \in Listed}

(* Every variable keeps its type. *)
TypeOK ==
    /\ serial \in BOOLEAN
    /\ firstclientnode \in Pointer
    /\ lastclientnode \in Pointer
    /\ clientnodesregistered \in 0..Cardinality(Requests)
    /\ nextclientnode \in [Requests -> Pointer]
    /\ previousclientnode \in [Requests -> Pointer]
    /\ globalmodelstatus \in {0, 1}
    /\ pc \in [Requests -> PC]
    /\ clientnode \in [Requests -> Pointer]
    /\ ctrl \in [Requests -> {0, 1}]
    /\ \A r \in Requests : loaded[r] \in Pointer \cup Nat
    /\ reply \in [Requests -> {"none", "limit reached", "added", "registred"}]
    /\ up \in BOOLEAN

(* The list always ends, however the threads interleave: the walks of this *)
(* handler, of the status check and of the aggregation terminate.          *)
WalksEnd == NodeAt[Cardinality(Requests)] = NULL

(* Between requests that do not overlap the list is sound: each device      *)
(* once, linked both ways, last is its end, the counter is its length.      *)
ListIsSound ==
    serial /\ (\A r \in Requests : ~Running(r)) =>
      /\ clientnodesregistered = Cardinality(Listed)
      /\ Cardinality(Members) = Cardinality(Listed)
      /\ \A n \in Listed :
           /\ nextclientnode[n] = NULL <=> n = lastclientnode
           /\ nextclientnode[n] # NULL => previousclientnode[nextclientnode[n]] = n

(* A client that has been answered "added" (httphandlers.c:210) is on the  *)
(* list that the status check and the aggregation search for it.           *)
AddedIsListed ==
    \A r \in Requests : pc[r] = "done" /\ reply[r] = "added" => r \in Listed

(* One after the other, the requests implement admission: a node is        *)
(* admitted when it is linked, and the training opens when the counter      *)
(* reaches the limit.                                                       *)
Admitting == INSTANCE Admission
               WITH Limit <- ClientNodes,
                    members <- Members,
                    open <- (clientnodesregistered = ClientNodes)

AdmitsOneByOne ==
    /\ Admitting!Init
    /\ [][serial => Admitting!Next]_(Admitting!vars)

(* When as many devices register as the server waits for, one after the    *)
(* other, training opens for good.                                         *)
TrainingOpens ==
    serial => <>[](clientnodesregistered = ClientNodes /\ globalmodelstatus = 1)
=============================================================================
