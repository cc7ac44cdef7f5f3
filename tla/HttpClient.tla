------------------------------ MODULE HttpClient ------------------------------
(***************************************************************************)
(* How the ESP32 client asks the server (components/http/httpclient.c, on  *)
(* behalf of deep_learning in main/main.c).  Every answer comes to one     *)
(* global pointer, req, which the event handler sets from what arrives and *)
(* which the caller reads and deletes, without ever resetting it.          *)
(*                                                                         *)
(* A body may be cut in pieces, and each is parsed on its own.  The first  *)
(* of several is an object without its end, which does not parse.  Another *)
(* does if it happens to begin with a number or with an object of the      *)
(* answer (a layer, a neuron); the rest of it is not looked at.  The flags *)
(* and the weights in the answers are in FederatedLearning and             *)
(* GlobalModel, what is converted in ModelExchange.                        *)
(***************************************************************************)
EXTENDS Naturals, FiniteSets

CONSTANTS
    MaxRequests,  \* bound: requests of one client
    MaxPieces     \* bound: pieces of one body

ASSUME ClientAssumption == MaxRequests \in Nat /\ MaxPieces \in Nat

VARIABLES
    at,         \* the function of httpclient.c that deep_learning is in
    phase,      \* before, in, or after its perform_get_request
    pieces,     \* events HTTP_EVENT_ON_DATA of each request
    req,        \* the global pointer
    live,       \* cJSON trees allocated and not deleted
    requests,   \* requests performed
    used,       \* the tree deep_learning last acted on
    misused,    \* a deleted tree was read or deleted again
    silent      \* history: nothing came of some request

vars == <<at, phase, pieces, req, live, requests, used, misused, silent>>

Functions == {"isserverworking", "registernode", "getglobalmodelstatus",
              "getglobalmodel", "NeuralNetworkTraining"}

Phases == {"asks", "arrives", "takes"}

(* A tree is made of a whole answer, or of the number or the object that a *)
(* piece of one begins with.                                               *)
Kinds == {"answer", "number", "object"}

Trees == [request : 1..MaxRequests, piece : 1..MaxPieces, kind : Kinds]

NULL == [request |-> 0, piece |-> 0, kind |-> "number"]

Init ==
    /\ at = "isserverworking"
    /\ phase = "asks"
    /\ pieces = [r \in 1..MaxRequests |-> 0]
    /\ req = NULL
    /\ live = {}
    /\ requests = 0
    /\ used = NULL
    /\ misused = FALSE
    /\ silent = FALSE
-----------------------------------------------------------------------------
(* perform_get_request, and client_event_get_handler for what arrives.     *)
Perform ==
    /\ phase = "asks" /\ at # "NeuralNetworkTraining"
    /\ requests < MaxRequests
    /\ requests' = requests + 1
    /\ phase' = "arrives"
    /\ UNCHANGED <<at, pieces, req, live, used, misused, silent>>

(* One HTTP_EVENT_ON_DATA. *)
Arrives ==
    /\ phase = "arrives" /\ pieces[requests] < MaxPieces
    /\ pieces' = [pieces EXCEPT ![requests] = @ + 1]
    /\ UNCHANGED <<at, requests, used, misused, silent>>

Tree(kind) ==
    [request |-> requests, piece |-> pieces[requests] + 1, kind |-> kind]

(* req = cJSON_Parse(...): whatever req was. *)
Parsed(kind) ==
    /\ req' = Tree(kind)
    /\ live' = live \cup {Tree(kind)}

(* Seeded fault: an answer is kept only if req is free. *)
Answer_OnlyIfNull ==
    /\ Arrives /\ pieces[requests] = 0
    /\ IF req = NULL THEN Parsed("answer") ELSE UNCHANGED <<req, live>>
    /\ phase' = "takes"

(* The whole body in one event. *)
Answer ==
    /\ Arrives /\ pieces[requests] = 0
    /\ Parsed("answer")
    /\ phase' = "takes"

(* Seeded fault: what does not parse leaves req as it is. *)
Unparsed_KeepsReq ==
    /\ Arrives
    /\ UNCHANGED <<req, live, phase>>

(* A piece that does not parse; the first of several never does. *)
Unparsed ==
    /\ Arrives
    /\ req' = NULL
    /\ UNCHANGED <<live, phase>>

(* A later one that does.  The tree of the piece before, if it had one, is *)
(* known to nobody any more.                                               *)
Piece ==
    /\ Arrives /\ pieces[requests] > 0
    /\ Parsed("number") \/ Parsed("object")
    /\ UNCHANGED phase

(* The body has ended, or the connection has, before its first event, too. *)
Performed ==
    /\ phase = "arrives"
    /\ phase' = "takes"
    /\ silent' = (silent \/ pieces[requests] = 0)
    /\ UNCHANGED <<at, pieces, req, live, requests, used, misused>>
-----------------------------------------------------------------------------
(* The caller.                                                             *)

(* cJSON_Delete(req): NULL is allowed, and req keeps its value.            *)
Delete == live' = live \ {req}

Dangling == req # NULL /\ req \notin live

(* What the caller finds at req: no object in NULL or a number, one in an  *)
(* answer or in a piece, though none with a status in the latter; and      *)
(* anything where a deleted tree was.                                      *)
FindsNoObject == req.kind = "number" \/ Dangling
FindsObject == req.kind \in {"answer", "object"} \/ Dangling
FindsNoStatus == req.kind # "answer" \/ Dangling
FindsStatus == req.kind = "answer" \/ Dangling

Return(function) ==
    /\ phase = "takes"
    /\ phase' = "asks"
    /\ misused' = (misused \/ Dangling)
    /\ at' = function
    /\ UNCHANGED <<pieces, req, requests, silent>>

(* isserverworking: running if req is not NULL; main.c:22 asks until it is. *)
IsServerWorking ==
    /\ at = "isserverworking"
    /\ Return(IF req # NULL THEN "registernode" ELSE "isserverworking")
    /\ Delete
    /\ UNCHANGED used

(* registernode: the answer is deleted unread. *)
RegisterNode ==
    /\ at = "registernode"
    /\ Return("getglobalmodelstatus")
    /\ Delete
    /\ UNCHANGED used

(* getglobalmodelstatus: -1 without a status, or the status.               *)
GetGlobalModelStatus ==
    /\ at = "getglobalmodelstatus"
    /\ \/ /\ FindsNoStatus
          /\ Return("getglobalmodelstatus")
          /\ UNCHANGED used
       \/ /\ FindsStatus
          /\ \E status \in {0, 1} :
               Return(IF status = 1 THEN "getglobalmodel"
                                    ELSE "getglobalmodelstatus")
          /\ used' = req
    /\ Delete

(* Seeded fault: an answer that is not a model is not deleted. *)
GetGlobalModel_Leaks ==
    /\ at = "getglobalmodel"
    /\ \/ /\ FindsNoObject
          /\ Return("getglobalmodelstatus")
          /\ UNCHANGED <<used, live>>
       \/ /\ FindsObject
          /\ Return("NeuralNetworkTraining")
          /\ used' = req
          /\ Delete

(* getglobalmodel: JSONToFederatedLearning is NULL without an object, and  *)
(* main.c:38 tries again from the status.  Any object makes a model, that  *)
(* of a piece one whose network is uninitialised, and it is trained.       *)
GetGlobalModel ==
    /\ at = "getglobalmodel"
    /\ \/ /\ FindsNoObject
          /\ Return("getglobalmodelstatus")
          /\ UNCHANGED used
       \/ /\ FindsObject
          /\ Return("NeuralNetworkTraining")
          /\ used' = req
    /\ Delete

(* The model is trained and sent, and the status asked again. *)
Train ==
    /\ at = "NeuralNetworkTraining"
    /\ at' = "getglobalmodelstatus"
    /\ UNCHANGED <<phase, pieces, req, live, requests, used, misused, silent>>

Next ==
    \/ Perform \/ Answer \/ Unparsed \/ Piece \/ Performed
    \/ IsServerWorking \/ RegisterNode \/ GetGlobalModelStatus
    \/ GetGlobalModel \/ Train

Spec == Init /\ [][Next]_vars
-----------------------------------------------------------------------------
(* Every variable keeps its type, and a model is asked for and trained on  *)
(* the strength of a tree, not of NULL.                                    *)
TypeOK ==
    /\ at \in Functions
    /\ phase \in Phases
    /\ pieces \in [1..MaxRequests -> 0..MaxPieces]
    /\ req \in Trees \cup {NULL}
    /\ live \subseteq Trees
    /\ requests \in 0..MaxRequests
    /\ used \in Trees \cup {NULL}
    /\ misused \in BOOLEAN
    /\ silent \in BOOLEAN
    /\ at \in {"getglobalmodel", "NeuralNetworkTraining"} => used # NULL

(* As long as something has arrived for every request, req is never read   *)
(* or deleted after it was deleted, although it is never reset.            *)
NoUseAfterDelete == misused => silent

(* Every tree is deleted by the caller whose request brought it, or was    *)
(* lost before that in one way only: a later piece of the same body took   *)
(* its place in req (httpclient.c:46).                                     *)
NothingElseLeaks ==
    \A t \in live :
      \/ t = req /\ t.request = requests /\ phase # "asks"
      \/ t.piece < pieces[t.request]

(* As long as something has arrived for every request, what the client     *)
(* acts on came with the request it has just made, never with an older     *)
(* one: a status only in a whole answer, a model in one, or, wrongly, in   *)
(* the piece that arrived last.                                            *)
ActsOnFreshAnswer ==
    [][used' # used /\ ~silent =>
         /\ used'.request = requests
         /\ used'.piece = pieces[requests]
         /\ \/ used'.kind = "answer"
            \/ used'.kind = "object" /\ at = "getglobalmodel"]_vars
=============================================================================
