----------------------------- MODULE ModelToJson -----------------------------
(***************************************************************************)
(* federatedLearningToJSON of JSONConverter.c: the tree of a model is made *)
(* item by item.  Nobody looks whether an allocation failed: the item, or  *)
(* all that was to be put into it, is then not part of the tree.           *)
(***************************************************************************)
EXTENDS CJson, SequencesExt

CONSTANTS
  Networks,    \* the neurons of each layer, first to last
  Represented  \* the numbers that stand for all numbers of their object

ASSUME NetworksAssumption ==
  \A s \in Networks : s \in Seq(Nat \ {0}) /\ Len(s) >= 2

VARIABLES
  net,    \* the network that is sent
  nan,    \* training made its weights and biases infinite, or no numbers
  tree,   \* the memory of the sender
  local,  \* the pointers of the function
  at,     \* the call that is next
  lost    \* history: items that could not be added

buildVars == <<net, nan, tree, local, at, lost>>

\* A number of the model is known by its place: of which layer, neuron, weight.
Place(i, j, k) == 1 + 100 * i + 10 * j + k
NaN == -1
Overflowed(name) == nan /\ name \in {"weight", "bias"}
Value(name, i, j, k) == IF Overflowed(name) THEN NaN ELSE Place(i, j, k)

Create(var, type, value) == <<[call |-> "create", var |-> var, type |-> type, value |-> value]>>
Add(to, name, var) == <<[call |-> "add", to |-> to, name |-> name, var |-> var]>>
AppendTo(to, var) == <<[call |-> "append", to |-> to, var |-> var]>>

\* The fields of an object, each made and added at once.
AddFields(object, names, i, j) ==
  LET field(name) ==
        Create("item", IF name = "neurontype" THEN "string" ELSE "number",
               Value(name, i, j, 0)) \o Add(object, name, "item")
  IN FlattenSeq([n \in DOMAIN names |->
       IF names[n] \in Represented THEN field(names[n]) ELSE <<>>])

RootFields == <<"globalmodelstatus", "trainingscounter">>
NetworkFields == <<"epoch", "alpha", "regularization", "lambda",
                   "percentualtraining", "lossfunctiontype", "layers">>
LayerFields == <<"activationfunctiontype", "neurons">>
NeuronFields == <<"neurontype", "weights", "bias">>
Names == ToSet(RootFields) \cup ToSet(NetworkFields) \cup ToSet(LayerFields)
         \cup ToSet(NeuronFields)
         \cup {"neuralnetwork", "layersArray", "neuronsArray", "weightsArray"}

WeightsOf(i) == IF i = 1 THEN 0 ELSE net[i - 1]

NeuronCalls(i, j) ==
  Create("neuronObject", "object", 0) \o AddFields("neuronObject", NeuronFields, i, j)
  \o Create("weightsArray", "array", 0)
  \o FlattenSeq([k \in 1 .. WeightsOf(i) |->
       Create("item", "number", Value("weight", i, j, k)) \o AppendTo("weightsArray", "item")])
  \o Add("neuronObject", "weightsArray", "weightsArray")
  \o AppendTo("neuronsArray", "neuronObject")

LayerCalls(i) ==
  Create("layerObject", "object", 0) \o AddFields("layerObject", LayerFields, i, 0)
  \o Create("neuronsArray", "array", 0)
  \o FlattenSeq([j \in 1 .. net[i] |-> NeuronCalls(i, j)])
  \o Add("layerObject", "neuronsArray", "neuronsArray")
  \o AppendTo("layersArray", "layerObject")

\* The calls of federatedLearningToJSON, in their order.
Calls ==
  Create("root", "object", 0) \o AddFields("root", RootFields, 0, 0)
  \o Create("jsonNeuralNetwork", "object", 0)
  \o Add("root", "neuralnetwork", "jsonNeuralNetwork")
  \o AddFields("jsonNeuralNetwork", NetworkFields, 0, 1)
  \o Create("layersArray", "array", 0)
  \o FlattenSeq([i \in DOMAIN net |-> LayerCalls(i)])
  \o Add("jsonNeuralNetwork", "layersArray", "layersArray")

Pointers == {"root", "jsonNeuralNetwork", "layersArray", "layerObject",
             "neuronsArray", "neuronObject", "weightsArray", "item"}

BuildInit ==
  /\ net \in Networks /\ nan \in BOOLEAN
  /\ tree = NoItems /\ at = 1 /\ lost = {}
  /\ local = [v \in Pointers |-> NULL]

Call == Calls[at]
Built == at > Len(Calls)
Called == at' = at + 1 /\ UNCHANGED <<net, nan>>
-----------------------------------------------------------------------------
\* cJSON_CreateObject, cJSON_CreateArray, cJSON_CreateNumber, cJSON_CreateString:
\* NULL when the item or its string could not be allocated.
CreateItem ==
  /\ ~Built /\ Call.call = "create"
  /\ \/ /\ Succeeds /\ HasRoom(tree)
        /\ tree' = cJSON_New_Item(tree, Call.type, Call.value)
        /\ local' = [local EXCEPT ![Call.var] = NewAddress(tree)]
     \/ Fails /\ tree' = tree /\ local' = [local EXCEPT ![Call.var] = NULL]
  /\ lost' = lost /\ Called

To == local[Call.to]
Item == local[Call.var]

\* cJSON_AddItemToObject: the copy of the name may fail, too.
AddItemToObject ==
  /\ ~Built /\ Call.call = "add" /\ Addable(To, Item)
  /\ \/ /\ Succeeds /\ lost' = lost
        /\ tree' = add_item_to_object(tree, To, Call.name, Item)
     \/ Fails /\ tree' = tree /\ lost' = lost \cup {Item}
  /\ local' = local /\ Called

\* cJSON_AddItemToArray.
AddItemToArray ==
  /\ ~Built /\ Call.call = "append" /\ Addable(To, Item)
  /\ tree' = add_item_to_array(tree, To, Item)
  /\ Succeeds /\ UNCHANGED <<local, lost>> /\ Called

\* Either of them, without an item or without what to add it to.
NothingAdded ==
  /\ ~Built /\ Call.call # "create" /\ ~Addable(To, Item)
  /\ lost' = lost \cup ({Item} \ {NULL})
  /\ Succeeds /\ UNCHANGED <<tree, local>> /\ Called

Build == CreateItem \/ AddItemToObject \/ AddItemToArray \/ NothingAdded
=============================================================================
