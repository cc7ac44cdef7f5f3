---------------------------- MODULE ModelExchange ----------------------------
(***************************************************************************)
(* A model on its way: the sender builds its tree, prints it and sends the *)
(* text, the receiver parses it and converts the tree into a model.        *)
(*                                                                         *)
(* A "model" goes from the server to a client, which parses whatever piece *)
(* of the text one event of its HTTP client holds.  An "update" goes from  *)
(* a client to the server, which is given the whole message.  (A piece     *)
(* that begins within a token is never an object and is left out.  Where a *)
(* piece ends is chosen when the parser comes to that place.)              *)
(***************************************************************************)
EXTENDS ModelToJson, CJsonPrint, CJsonParse

VARIABLES
  direction,
  stage,
  whole,     \* all of the text arrived
  received   \* the models that the conversion returned: one, or none

vars == <<failures, buildVars, printVars, parseVars, direction, stage, whole, received>>

Init ==
  /\ failures = 0 /\ BuildInit /\ PrintInit /\ ParseInit
  /\ direction \in {"model", "update"} /\ stage = "build"
  /\ whole = FALSE /\ received = {}

(***************************************************************************)
(* JSONToFederatedLearning.  A field is the set of the one value it was    *)
(* given; it is empty, the memory uninitialised, when its item is missing  *)
(* or of another type.  A weight is valuedouble whatever the item is.      *)
(***************************************************************************)

\* Mutant: the type of the item is not looked at.
ReadField_OfAnyType(a, name) ==
  LET i == cJSON_GetObjectItem(heap, a, name)
  IN IF i = NULL THEN {} ELSE {heap[i].value}

ReadField(a, name) ==
  LET i == cJSON_GetObjectItem(heap, a, name)
  IN IF Is(heap, i, IF name = "neurontype" THEN "string" ELSE "number")
     THEN {heap[i].value} ELSE {}

\* The server does not read the activation function of a layer.
Read(names) ==
  (Represented \cap ToSet(names))
    \ (IF direction = "update" THEN {"activationfunctiontype"} ELSE {})
ReadFields(a, names) == [name \in Read(names) |-> ReadField(a, name)]

\* The elements of an array that is of the object a; none without one.
ReadArray(a, name) ==
  LET i == cJSON_GetObjectItem(heap, a, name)
  IN IF Is(heap, i, "array") THEN Elements(heap, i) ELSE <<>>

ReadNeuron(a) ==
  LET weights == ReadArray(a, "weightsArray")
  IN [fields |-> ReadFields(a, NeuronFields),
      list |-> [k \in DOMAIN weights |-> heap[weights[k]].value]]
ReadLayer(a) ==
  LET neurons == ReadArray(a, "neuronsArray")
  IN [fields |-> ReadFields(a, LayerFields),
      list |-> [j \in DOMAIN neurons |-> ReadNeuron(neurons[j])]]

\* The list of layers is not touched without "layers" or its array.
ReadNetwork(a) ==
  LET layers == ReadArray(a, "layersArray")
      array == cJSON_GetObjectItem(heap, a, "layersArray")
  IN [fields |-> ReadFields(a, NetworkFields),
      lists |-> IF ReadField(a, "layers") # {} /\ Is(heap, array, "array")
                THEN {[i \in DOMAIN layers |-> ReadLayer(layers[i])]} ELSE {}]

JSONToFederatedLearning(a) ==
  LET network == cJSON_GetObjectItem(heap, a, "neuralnetwork")
      Or0(field) == IF field = {} THEN {0} ELSE field
  IN [fields |-> [name \in Read(RootFields) |-> Or0(ReadField(a, name))],
      networks |-> IF Is(heap, network, "object") THEN {ReadNetwork(network)} ELSE {}]
-----------------------------------------------------------------------------
BuildTree ==
  /\ stage = "build" /\ Build
  /\ UNCHANGED <<printVars, parseVars, direction, stage, whole, received>>

StartPrint ==
  /\ stage = "build" /\ Built /\ stage' = "print" /\ BeginPrint(local["root"])
  /\ UNCHANGED <<buildVars, parseVars, direction, whole, received>>

PrintTree ==
  /\ stage = "print" /\ PrintStep(tree, local["root"])
  /\ UNCHANGED <<buildVars, parseVars, direction, stage, whole, received>>

(***************************************************************************)
(* cJSON_Print returned.  The server deletes the tree; the client does not,*)
(* neither the one it only logs nor the one it sends.  Without a text      *)
(* neither of them goes on.                                                *)
(***************************************************************************)
PrintReturns ==
  /\ stage = "print" /\ todo \in {"printed", "idle"}
  /\ stage' = IF todo = "printed" THEN "send" ELSE "finished"
  /\ tree' = IF direction = "model" THEN cJSON_Delete(tree, local["root"]) ELSE tree
  /\ UNCHANGED <<net, nan, local, at, lost>>
  /\ UNCHANGED <<failures, printVars, parseVars, direction, whole, received>>

\* The text is sent and freed; what arrives of it is parsed.
Sent == text' = <<>> /\ length' = 0 /\ UNCHANGED <<todo, stack, offset, end, extent>>
SendText ==
  /\ stage = "send" /\ stage' = "parse" /\ Sent
  /\ \E first \in DOMAIN text :
       /\ whole' = (first = 1)
       /\ direction = "update" => whole'
       /\ BeginParse(SubSeq(text, first, Len(text)))
  /\ UNCHANGED <<buildVars, direction, received>>

\* The piece of the event ends before the token that is next.
PieceEnds ==
  /\ stage = "parse" /\ step \notin {"fail", "parsed"} /\ direction = "model"
  /\ pos \in DOMAIN input
  /\ input' = SubSeq(input, 1, pos - 1) /\ whole' = FALSE
  /\ UNCHANGED <<step, pos, heap, item, frames, failures>>
  /\ UNCHANGED <<buildVars, printVars, direction, stage, received>>

\* strndup of handle_clint_model_message fails.
CopyFails ==
  /\ stage = "send" /\ direction = "update" /\ Fails
  /\ stage' = "finished" /\ Sent
  /\ UNCHANGED <<buildVars, parseVars, direction, whole, received>>

ParseText ==
  /\ stage = "parse" /\ ParseStep
  /\ UNCHANGED <<buildVars, printVars, direction, stage, whole, received>>

\* The tree is converted, if it is one, and deleted; a malloc may fail.
Convert ==
  /\ stage = "parse" /\ step = "parsed" /\ stage' = "finished"
  /\ \/ /\ Succeeds
        /\ received' = IF Is(heap, item, "object") THEN {JSONToFederatedLearning(item)} ELSE {}
     \/ /\ Is(heap, item, "object") /\ Fails /\ received' = {}
  /\ heap' = cJSON_Delete(heap, item) /\ item' = NULL
  /\ UNCHANGED <<step, input, pos, frames>>
  /\ UNCHANGED <<buildVars, printVars, direction, whole>>

Next ==
  \/ BuildTree \/ StartPrint \/ PrintTree \/ PrintReturns
  \/ SendText \/ PieceEnds \/ CopyFails \/ ParseText \/ Convert

Spec == Init /\ [][Next]_vars
-----------------------------------------------------------------------------
(***************************************************************************)
(* Every variable has its type, and every list in either memory is linked  *)
(* as the library needs it: the appending of an item and every loop rely   *)
(* on the prev of a first item and on the next of a last one.              *)
(***************************************************************************)
TypeOK ==
  /\ failures \in 0 .. MaxFailures
  /\ HeapType(tree, Names) /\ HeapType(heap, Names)
  /\ local \in [Pointers -> Addresses \cup {NULL}]
  /\ stage \in {"build", "print", "send", "parse", "finished"}
  /\ todo \in {"idle", "value", "name", "element", "colon", "after", "printed", "failed"}
  /\ step \in {"idle", "value", "first", "element", "name", "colon", "after", "fail", "parsed"}
  /\ \A h \in {tree, heap} : \A a \in Allocated(h) : Linked(h, a)

(***************************************************************************)
(* No item is forgotten but those that could not be added.  While parsing, *)
(* what the frames hold is all there is besides the root, so that a text   *)
(* that is refused in the middle leaves nothing; and when the exchange is  *)
(* over the receiver has freed its tree and the server its own, while the  *)
(* client keeps all of the tree it printed.                                *)
(***************************************************************************)
Holds(h, pointers) == UNION {Owned(h, p) : p \in pointers}
TreeInUse == stage \in {"build", "print"} \/ direction = "update"
NothingLeaks ==
  /\ Allocated(tree) =
       Holds(tree, lost \cup (IF TreeInUse THEN {local[p] : p \in Pointers} ELSE {}))
  /\ Allocated(heap) =
       Holds(heap, {item} \cup {frames[n].head : n \in DOMAIN frames})
  /\ stage = "finished" => Allocated(heap) = {} /\ length = 0

(***************************************************************************)
(* What the receiver makes of the text is the model that was sent.         *)
(* Without a failure it is all of it, except that a weight that is not     *)
(* finite arrives as 0 and such a bias not at all.  A piece of the text is *)
(* never taken for a model with a network.  And whatever was left out: no  *)
(* number stands at the place of another kind, or of another neuron, and   *)
(* the weights keep their order.                                           *)
(***************************************************************************)
Sending(names, i, j) ==
  [name \in Read(names) |-> IF Overflowed(name) THEN {} ELSE {Place(i, j, 0)}]
SentWeight(i, j, k) == IF Overflowed("weight") THEN 0 ELSE Place(i, j, k)
SentNeuron(i, j) ==
  [fields |-> Sending(NeuronFields, i, j),
   list |-> [k \in 1 .. WeightsOf(i) |-> SentWeight(i, j, k)]]
SentModel ==
  [fields |-> Sending(RootFields, 0, 0),
   networks |-> {[fields |-> Sending(NetworkFields, 0, 1),
                  lists |-> {[i \in DOMAIN net |->
                    [fields |-> Sending(LayerFields, i, 0),
                     list |-> [j \in 1 .. net[i] |-> SentNeuron(i, j)]]]}]}]

Within(fields, sent) == \A name \in DOMAIN fields : fields[name] \subseteq sent[name]
\* A list with some of the elements sent, in their order.
SomeOf(list, n, Matches(_, _)) ==
  \E f \in [DOMAIN list -> 1 .. n] :
    \A a \in DOMAIN list : Matches(list[a], f[a]) /\ \A b \in 1 .. a - 1 : f[b] < f[a]
PartOfNeuron(neuron, i, j) ==
  LET SameWeight(w, k) == w = SentWeight(i, j, k)
  IN /\ Within(neuron.fields, Sending(NeuronFields, i, j))
     /\ SomeOf(neuron.list, WeightsOf(i), SameWeight)
PartOfLayer(layer, i) ==
  LET SameNeuron(neuron, j) == PartOfNeuron(neuron, i, j)
  IN /\ Within(layer.fields, Sending(LayerFields, i, 0))
     /\ SomeOf(layer.list, net[i], SameNeuron)

ArrivesAsSent ==
  \A model \in received :
    /\ whole /\ failures = 0 => model = SentModel
    /\ ~whole => model.networks = {}
    /\ \A network \in model.networks :
         /\ Within(network.fields, Sending(NetworkFields, 0, 1))
         /\ \A list \in network.lists : SomeOf(list, Len(net), PartOfLayer)
=============================================================================
