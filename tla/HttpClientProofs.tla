--------------------------- MODULE HttpClientProofs ---------------------------
(***************************************************************************)
(* Theorems about HttpClient, for any number of requests and of pieces.    *)
(***************************************************************************)
EXTENDS HttpClient, TLAPS

USE ClientAssumption

-----------------------------------------------------------------------------
(* What is allocated has arrived: trees are of requests that were made and *)
(* of pieces that have come, and nothing has come of later requests.       *)
Arrived ==
    /\ \A t \in live : t.request <= requests /\ t.piece <= pieces[t.request]
    /\ \A r \in 1..MaxRequests : r > requests => pieces[r] = 0
    /\ phase # "asks" => requests # 0

(* With this no tree is lost track of but by a later piece of its body.    *)
Allocation == TypeOK /\ Arrived /\ NothingElseLeaks

(* The tree a piece would make is one. *)
LEMMA TreeIsNew ==
    ASSUME Allocation, Arrives, NEW kind \in Kinds
    PROVE  /\ Tree(kind) \in Trees
           /\ Tree(kind).request = requests
           /\ Tree(kind).piece = pieces[requests] + 1
           /\ Tree(kind) # NULL
  BY DEF Allocation, Arrived, TypeOK, Arrives, Tree, Trees, NULL

(* Whatever arrives: req is NULL, or the tree of the piece. *)
LEMMA ArrivalKeeps ==
    ASSUME Allocation, Arrives, phase' \in {"arrives", "takes"},
           \/ req' = NULL /\ live' = live
           \/ \E kind \in Kinds : Parsed(kind)
    PROVE  Allocation'
<1>1. /\ phase = "arrives" /\ requests \in 1..MaxRequests
      /\ pieces' = [pieces EXCEPT ![requests] = @ + 1]
      /\ pieces[requests] \in 0..MaxPieces /\ pieces[requests] < MaxPieces
      /\ UNCHANGED <<at, requests, used, misused, silent>>
  BY DEF Allocation, Arrived, TypeOK, Arrives
<1>2. /\ pieces' \in [1..MaxRequests -> 0..MaxPieces]
      /\ pieces'[requests] = pieces[requests] + 1
      /\ \A r \in 1..MaxRequests : r # requests => pieces'[r] = pieces[r]
  BY <1>1 DEF Allocation, TypeOK
<1>3. \A t \in live : /\ t \in Trees
                      /\ t.request \in 1..MaxRequests /\ t.piece \in 1..MaxPieces
  BY DEF Allocation, TypeOK, Trees
<1>4. \A t \in live : t.piece < pieces'[t.request] /\ t.request <= requests
  BY <1>1, <1>2, <1>3 DEF Allocation, Arrived, NothingElseLeaks, TypeOK
<1>5. \A t \in live' : t \in live \/
                       /\ t \in Trees /\ t = req'
                       /\ t.request = requests /\ t.piece = pieces'[requests]
  BY <1>2, TreeIsNew DEF Parsed
<1>6. req' \in Trees \cup {NULL}
  BY TreeIsNew DEF Parsed
<1>7. TypeOK'
  BY <1>1, <1>2, <1>3, <1>5, <1>6 DEF Allocation, TypeOK, Phases
<1>8. Arrived'
  BY <1>1, <1>2, <1>3, <1>4, <1>5 DEF Allocation, Arrived, TypeOK
<1>9. NothingElseLeaks'
  BY <1>1, <1>4, <1>5 DEF NothingElseLeaks
<1>10. QED
  BY <1>7, <1>8, <1>9 DEF Allocation

(* The return of a caller: it deletes req, and goes on to another function *)
(* having used nothing, or the tree it has found.                          *)
LEMMA ReturnDeletes ==
    ASSUME Allocation, NEW function \in Functions, Return(function), Delete,
           used' = used \/ (used' = req /\ req # NULL),
           function \in {"getglobalmodel", "NeuralNetworkTraining"} => used' # NULL
    PROVE  Allocation'
<1>1. \A t \in live' : t \in live /\ t # req /\ t.piece < pieces[t.request]
  BY DEF Allocation, NothingElseLeaks, Delete
<1>2. /\ phase' = "asks" /\ UNCHANGED <<pieces, req, requests, silent>>
      /\ at' = function
  BY DEF Return
<1>3. misused' \in BOOLEAN
  BY DEF Return
<1>4. TypeOK'
  BY <1>1, <1>2, <1>3 DEF Allocation, TypeOK, Phases
<1>5. Arrived' /\ NothingElseLeaks'
  BY <1>1, <1>2 DEF Allocation, Arrived, NothingElseLeaks
<1>6. QED
  BY <1>4, <1>5 DEF Allocation

(* Allocation holds in every state. *)
LEMMA AllocationInvariant == Spec => []Allocation
<1>1. Init => Allocation
  <2> SUFFICES ASSUME Init
               PROVE  Allocation
    OBVIOUS
  <2>1. live = {} /\ req = NULL /\ used = NULL /\ requests = 0
        /\ pieces = [r \in 1..MaxRequests |-> 0]
    BY DEF Init
  <2>2. pieces \in [1..MaxRequests -> 0..MaxPieces] /\ requests \in 0..MaxRequests
    BY <2>1 DEF ClientAssumption
  <2>3. at = "isserverworking" /\ phase = "asks"
        /\ misused \in BOOLEAN /\ silent \in BOOLEAN
    BY DEF Init
  <2>4. TypeOK
    BY <2>1, <2>2, <2>3 DEF TypeOK, Functions, Phases
  <2>5. QED
    BY <2>1, <2>3, <2>4 DEF Allocation, Arrived, NothingElseLeaks
<1>2. Allocation /\ [Next]_vars => Allocation'
  <2> SUFFICES ASSUME Allocation, [Next]_vars
               PROVE  Allocation'
    OBVIOUS
  <2>1. CASE Perform
    <3>1. /\ phase = "asks" /\ phase' = "arrives" /\ requests' = requests + 1
          /\ requests \in 0..MaxRequests /\ requests < MaxRequests
          /\ UNCHANGED <<at, pieces, req, live, used, misused, silent>>
      BY <2>1 DEF Perform, Allocation, TypeOK
    <3>2. TypeOK'
      BY <3>1 DEF Allocation, TypeOK, Phases
    <3>3. \A t \in live : t.request \in 1..MaxRequests
      BY DEF Allocation, TypeOK, Trees
    <3>4. Arrived' /\ NothingElseLeaks'
      BY <3>1, <3>3 DEF Allocation, Arrived, NothingElseLeaks
    <3>5. QED
      BY <3>2, <3>4 DEF Allocation
  <2>2. CASE Answer
    BY <2>2, ArrivalKeeps DEF Answer, Kinds
  <2>3. CASE Unparsed
    BY <2>3, ArrivalKeeps DEF Unparsed, Arrives
  <2>4. CASE Piece
    BY <2>4, ArrivalKeeps DEF Piece, Arrives, Kinds
  <2>5. CASE Performed
    <3>1. silent' \in BOOLEAN
      BY <2>5 DEF Performed
    <3>2. QED
      BY <2>5, <3>1 DEF Performed, Allocation, TypeOK, Phases, Arrived,
                        NothingElseLeaks
  <2>6. CASE IsServerWorking
    BY <2>6, ReturnDeletes DEF IsServerWorking, Functions
  <2>7. CASE RegisterNode
    BY <2>7, ReturnDeletes DEF RegisterNode, Functions
  <2>8. CASE GetGlobalModelStatus
    BY <2>8, ReturnDeletes DEF GetGlobalModelStatus, FindsStatus, Dangling,
                               NULL, Functions
  <2>9. CASE GetGlobalModel
    BY <2>9, ReturnDeletes DEF GetGlobalModel, FindsObject, Dangling, NULL,
                               Functions
  <2>10. CASE Train
    BY <2>10 DEF Train, Allocation, TypeOK, Functions, Arrived, NothingElseLeaks
  <2>11. CASE UNCHANGED vars
    BY <2>11 DEF vars, Allocation, TypeOK, Arrived, NothingElseLeaks
  <2>12. QED
    BY <2>1, <2>2, <2>3, <2>4, <2>5, <2>6, <2>7, <2>8, <2>9, <2>10, <2>11 DEF Next
<1>3. QED
  BY <1>1, <1>2, PTL DEF Spec

(* Every request, answered or not, keeps the types and loses no tree but   *)
(* by a later piece of the same body: what req points to when it returns   *)
(* is deleted by the caller it was for.                                    *)
THEOREM AnswersAreDeleted == Spec => [](TypeOK /\ NothingElseLeaks)
  BY AllocationInvariant, PTL DEF Allocation
-----------------------------------------------------------------------------
(* req is what the last piece of the present request has made it. *)
Latest ==
    req = NULL \/ (req \in live /\ req.request = requests
                                /\ req.piece = pieces[requests])

(* As long as something has arrived for every request, req is not dangling *)
(* when a caller takes it.                                                 *)
Fresh ==
    ~silent =>
      /\ ~misused
      /\ phase = "takes" => Latest
      /\ phase = "arrives" => pieces[requests] = 0 \/ Latest

(* Return of a caller: it takes req as its request has left it. *)
LEMMA ReturnIsFresh ==
    ASSUME Fresh, NEW function, Return(function)
    PROVE  Fresh'
  BY DEF Fresh, Return, Dangling, Latest

(* After a piece req is what that has made it. *)
LEMMA ArrivalIsLatest ==
    ASSUME Allocation, Arrives,
           \/ req' = NULL
           \/ \E kind \in Kinds : Parsed(kind)
    PROVE  Latest'
<1>1. requests' = requests /\ pieces'[requests] = pieces[requests] + 1
  BY DEF Arrives, Allocation, TypeOK, Arrived
<1>2. QED
  BY <1>1, TreeIsNew DEF Latest, Parsed

(* Fresh holds in every state. *)
LEMMA FreshInvariant == Spec => []Fresh
<1>1. Init => Fresh
  BY DEF Init, Fresh
<1>2. Allocation /\ Fresh /\ [Next]_vars => Fresh'
  <2> SUFFICES ASSUME Allocation, Fresh, [Next]_vars
               PROVE  Fresh'
    OBVIOUS
  <2>1. CASE Perform
    <3>1. pieces'[requests'] = 0
      BY <2>1 DEF Perform, Allocation, Arrived, TypeOK
    <3>2. QED
      BY <2>1, <3>1 DEF Perform, Fresh
  <2>2. CASE Answer \/ Unparsed \/ Piece
    <3>1. Latest' /\ UNCHANGED <<misused, silent>>
      BY <2>2, ArrivalIsLatest DEF Answer, Unparsed, Piece, Kinds, Arrives
    <3>2. QED
      BY <3>1 DEF Fresh
  <2>3. CASE Performed
    BY <2>3 DEF Performed, Fresh, Latest
  <2>4. CASE IsServerWorking \/ RegisterNode \/ GetGlobalModelStatus \/ GetGlobalModel
    BY <2>4, ReturnIsFresh DEF IsServerWorking, RegisterNode,
       GetGlobalModelStatus, GetGlobalModel
  <2>5. CASE Train
    BY <2>5 DEF Train, Fresh, Latest
  <2>6. CASE UNCHANGED vars
    BY <2>6 DEF vars, Fresh, Latest
  <2>7. QED
    BY <2>1, <2>2, <2>3, <2>4, <2>5, <2>6 DEF Next
<1>3. QED
  BY <1>1, <1>2, AllocationInvariant, PTL DEF Spec

(* No cJSON tree is read or deleted after it was deleted, until a request  *)
(* of which nothing has come.                                              *)
THEOREM AnsweredRequestsAreSafe == Spec => []NoUseAfterDelete
  BY FreshInvariant, PTL DEF Fresh, NoUseAfterDelete

(* A status or a model that the client acts on came with the last piece    *)
(* for the request it has just made, the status in a whole answer, until a *)
(* request of which nothing has come.                                      *)
THEOREM AnswersAreFresh == Spec => ActsOnFreshAnswer
<1> DEFINE A == used' # used /\ ~silent =>
                  /\ used'.request = requests
                  /\ used'.piece = pieces[requests]
                  /\ \/ used'.kind = "answer"
                     \/ used'.kind = "object" /\ at = "getglobalmodel"
<1>1. Allocation /\ Fresh /\ [Next]_vars => [A]_vars
  <2> SUFFICES ASSUME Fresh, Next
               PROVE  A
    BY DEF A
  <2>1. CASE GetGlobalModelStatus \/ GetGlobalModel
    <3>1. phase = "takes"
      BY <2>1 DEF GetGlobalModelStatus, GetGlobalModel, Return
    <3>2. ~silent => ~Dangling /\ Latest
      BY <3>1 DEF Fresh, Latest, Dangling
    <3>3. NULL.kind = "number"
      BY DEF NULL
    <3>4. QED
      BY <2>1, <3>2, <3>3 DEF GetGlobalModelStatus, GetGlobalModel, FindsObject,
                              FindsStatus, Latest
  <2>2. CASE Perform \/ Answer \/ Unparsed \/ Piece \/ Performed
             \/ IsServerWorking \/ RegisterNode \/ Train
    BY <2>2 DEF Perform, Answer, Unparsed, Piece, Performed, Arrives,
                IsServerWorking, RegisterNode, Train
  <2>3. QED
    BY <2>1, <2>2 DEF Next
<1>2. QED
  BY <1>1, AllocationInvariant, FreshInvariant, PTL DEF Spec, ActsOnFreshAnswer
=============================================================================
