--------------------------- MODULE NetworkMemory ---------------------------
(***************************************************************************)
(* The networks of the aggregation server in its memory: doubly linked     *)
(* lists of layers, of their neurons and of the weights of these, which    *)
(* federatedlearning.c builds, frees, copies and evaluates, and which      *)
(* JSONConverter.c builds from an update.  Each allocation is a step.      *)
(*                                                                         *)
(* The values in the nodes are left out (module GlobalModel has them).     *)
(***************************************************************************)
EXTENDS Integers, Sequences

CONSTANTS
  Memory,  \* bound: nodes that fit into the memory
  Updates  \* bound: updates that the server receives

VARIABLES
  net,       \* the neurons of each layer, in the configuration and in JSON
  heap,      \* the node at each address
  global,    \* neuralnetwork of the instance
  sums,      \* nodecontrol->neuralnetwork
  at,        \* what the server is doing
  target,    \* the network that is being built or copied into
  loop,      \* the loop variables i, j, k: layers, neurons and weights so far
  current,   \* currentlayer, currentneuron, currentweight
  new,       \* newlayer and newneuron
  received,  \* number of updates received
  forgotten  \* history: the nodes of updates that nothing points to any more

memoryVars == <<heap, global, sums, at, target, loop, current, new, received,
                forgotten>>

NULL == 0
Addresses == 1 .. Memory

\* A network, layer, neuron or weight: size is its number of layers, neurons
\* or weights, and first and last are the ends of the list of these.
Node(kind, size) ==
  [kind |-> kind, size |-> size, next |-> NULL, prev |-> NULL,
   first |-> NULL, last |-> NULL]
Freed == Node("free", 0)

Allocated(h) == {a \in Addresses : h[a].kind # "free"}

\* A behaviour ends where the memory is full: except in a conversion, the code
\* follows what malloc returns without a test.
HasRoom == Allocated(heap) # Addresses

\* malloc takes the lowest free address.  Any other would do as well: nothing
\* is allocated while a list with freed nodes is being walked.
malloc(h) ==
  CHOOSE a \in Addresses \ Allocated(h) :
    \A b \in Addresses \ Allocated(h) : a <= b

\* x becomes the last of its parent's list.
AppendBuilt(h, parent, x) ==
  LET old == h[parent].last
      placed == [h EXCEPT ![x].prev = old, ![parent].last = x,
                          ![parent].first = IF old = NULL THEN x ELSE @]
  IN IF old = NULL THEN placed ELSE [placed EXCEPT ![old].next = x]

(***************************************************************************)
(* The same as CopyNeuron, CopyLayer and CopyNeuralNetwork do it: the first*)
(* node is made first and last, and then linked behind the last: itself.   *)
(***************************************************************************)
AppendCopied(h, parent, x) ==
  LET old == IF h[parent].first = NULL THEN x ELSE h[parent].last
  IN [h EXCEPT ![parent].first = IF @ = NULL THEN x ELSE @,
               ![x].next = NULL, ![x].prev = old,
               ![old].next = x, ![parent].last = x]

\* The nodes that can be reached from those of a set, and the list of a node,
\* as far as its size goes.
Reach(h, from) ==
  LET step[n \in 0 .. Memory] ==
        IF n = 0 THEN from \ {NULL}
        ELSE LET seen == step[n - 1]
             IN seen \cup ((UNION {{h[a].first, h[a].next} : a \in seen}) \ {NULL})
  IN step[Memory]
Children(h, parent) ==
  LET child[i \in 1 .. h[parent].size] ==
        IF i = 1 THEN h[parent].first ELSE h[child[i - 1]].next
  IN child

noloop == [i |-> 0, j |-> 0, k |-> 0]
nowhere == [layer |-> NULL, neuron |-> NULL, weight |-> NULL]

\* getFederatedLearningInstance allocates the two networks, and
\* setFederatedLearningGlobalModel builds one after the other.
MemoryInit ==
  /\ heap = [a \in Addresses \cup {NULL} |->
               IF a \in {1, 2} THEN Node("net", Len(net)) ELSE Freed]
  /\ global = 1 /\ sums = 2
  /\ at = "initialise" /\ target = global
  /\ loop = noloop /\ current = nowhere /\ new = nowhere
  /\ received = 0 /\ forgotten = {}
-----------------------------------------------------------------------------
(***************************************************************************)
(* One turn of each of the three nested loops that build a network.        *)
(***************************************************************************)
LastLayer  == heap[target].last
LastNeuron == heap[LastLayer].last
WeightsDone == loop.j = 0 \/ loop.k = heap[LastNeuron].size
NeuronsDone == WeightsDone /\ (loop.i = 0 \/ loop.j = heap[LastLayer].size)

Add(parent, kind, size) ==
  LET x == malloc(heap)
  IN /\ HasRoom
     /\ heap' = AppendBuilt([heap EXCEPT ![x] = Node(kind, size)], parent, x)

AddLayer ==
  /\ NeuronsDone /\ loop.i < heap[target].size
  /\ Add(target, "layer", net[loop.i + 1])
  /\ loop' = [i |-> loop.i + 1, j |-> 0, k |-> 0]
AddNeuron ==
  /\ loop.i > 0 /\ WeightsDone /\ loop.j < heap[LastLayer].size
  /\ Add(LastLayer, "neuron", IF loop.i = 1 THEN 0 ELSE net[loop.i - 1])
  /\ loop' = [loop EXCEPT !.j = @ + 1, !.k = 0]
AddWeight ==
  /\ loop.j > 0 /\ loop.k < heap[LastNeuron].size
  /\ Add(LastNeuron, "weight", 0)
  /\ loop' = [loop EXCEPT !.k = @ + 1]
Built == NeuronsDone /\ loop.i = heap[target].size

Building == UNCHANGED <<global, sums, at, target, current, new, received, forgotten>>
NewLayer  == at = "initialise" /\ AddLayer /\ Building
NewNeuron == at = "initialise" /\ AddNeuron /\ Building
NewWeight == at = "initialise" /\ AddWeight /\ Building

\* The global network is built, and then the one for the sums.
Initialised ==
  /\ at = "initialise" /\ Built
  /\ IF target = global THEN target' = sums /\ at' = at
                        ELSE target' = NULL /\ at' = "ready"
  /\ loop' = noloop
  /\ UNCHANGED <<heap, global, sums, current, new, received, forgotten>>
-----------------------------------------------------------------------------
(***************************************************************************)
(* An update is converted.  Out of memory, JSONToFederatedLearning returns *)
(* NULL, and no pointer to what it had built is left.                      *)
(***************************************************************************)
ReceiveUpdate ==
  /\ at = "ready" /\ received < Updates /\ HasRoom
  /\ received' = received + 1
  /\ target' = malloc(heap)
  /\ heap' = [heap EXCEPT ![target'] = Node("net", Len(net))]
  /\ loop' = noloop /\ at' = "convert"
  /\ UNCHANGED <<global, sums, current, new, forgotten>>

ConvertLayer  == at = "convert" /\ AddLayer /\ Building
ConvertNeuron == at = "convert" /\ AddNeuron /\ Building
ConvertWeight == at = "convert" /\ AddWeight /\ Building

Forget == forgotten' = forgotten \cup Reach(heap, {target}) /\ target' = NULL

ConvertFails ==
  /\ at = "convert" /\ ~Built
  /\ Forget /\ at' = "ready"
  /\ UNCHANGED <<heap, global, sums, loop, current, new, received>>

(***************************************************************************)
(* AggregationModel: the update is added to the sums, and never freed.  It *)
(* either waits for other clients, or frees the global network.            *)
(***************************************************************************)
Aggregate ==
  /\ at = "convert" /\ Built
  /\ Forget
  /\ \/ at' = "ready" /\ current' = current
     \/ /\ at' = "free"
        /\ current' = [nowhere EXCEPT !.layer = heap[global].first,
                         !.neuron = heap[heap[global].first].first]
  /\ UNCHANGED <<heap, global, sums, loop, new, received>>
-----------------------------------------------------------------------------
(***************************************************************************)
(* freeNeuralNetwork reads the next pointer of a node and then frees it.   *)
(* If the node was freed before, the process is beyond what C defines: the *)
(* model stops it there.                                                   *)
(***************************************************************************)
Innermost ==
  IF current.weight # NULL THEN current.weight
  ELSE IF current.neuron # NULL THEN current.neuron
  ELSE IF current.layer # NULL THEN current.layer ELSE global
Successor == heap[Innermost].next

FreeNode(kind) ==
  /\ at = "free" /\ heap[Innermost].kind = kind
  /\ heap' = [heap EXCEPT ![Innermost] = Freed]

FreeWeight ==
  /\ FreeNode("weight")
  /\ current' = [current EXCEPT !.weight = Successor]
  /\ UNCHANGED <<global, sums, at, target, loop, new, received, forgotten>>
FreeNeuron ==
  /\ FreeNode("neuron")
  /\ current' = [current EXCEPT !.neuron = Successor, !.weight = heap[Successor].first]
  /\ UNCHANGED <<global, sums, at, target, loop, new, received, forgotten>>
FreeLayer ==
  /\ FreeNode("layer")
  /\ current' = [layer |-> Successor, neuron |-> heap[Successor].first,
                 weight |-> heap[heap[Successor].first].first]
  /\ UNCHANGED <<global, sums, at, target, loop, new, received, forgotten>>
TouchFreed ==
  /\ at = "free" /\ heap[Innermost].kind = "free"
  /\ at' = "crashed"
  /\ UNCHANGED <<heap, global, sums, target, loop, current, new, received, forgotten>>

\* At the end the network itself is freed, and CopyNeuralNetwork begins.
FreeNetwork ==
  /\ FreeNode("net")
  /\ at' = "copy" /\ target' = NULL
  /\ current' = [nowhere EXCEPT !.layer = heap[sums].first]
  /\ UNCHANGED <<global, sums, loop, new, received, forgotten>>
-----------------------------------------------------------------------------
(***************************************************************************)
(* CopyNeuralNetwork: a layer or a neuron is linked into its list when all *)
(* that it contains has been copied.                                       *)
(***************************************************************************)
CopyNetwork ==
  /\ at = "copy" /\ target = NULL /\ HasRoom
  /\ target' = malloc(heap)
  /\ heap' = [heap EXCEPT ![target'] = Node("net", heap[sums].size)]
  /\ UNCHANGED <<global, sums, at, loop, current, new, received, forgotten>>

Copying == UNCHANGED <<global, sums, at, target, loop, received, forgotten>>
CopyLayer ==
  /\ at = "copy" /\ target # NULL /\ new.layer = NULL /\ current.layer # NULL
  /\ HasRoom
  /\ new' = [new EXCEPT !.layer = malloc(heap)]
  /\ heap' = [heap EXCEPT ![new'.layer] = Node("layer", heap[current.layer].size)]
  /\ current' = [current EXCEPT !.neuron = heap[current.layer].first]
  /\ Copying
CopyNeuron ==
  /\ at = "copy" /\ new.layer # NULL /\ new.neuron = NULL /\ current.neuron # NULL
  /\ HasRoom
  /\ new' = [new EXCEPT !.neuron = malloc(heap)]
  /\ heap' = [heap EXCEPT ![new'.neuron] = Node("neuron", heap[current.neuron].size)]
  /\ current' = [current EXCEPT !.weight = heap[current.neuron].first]
  /\ Copying
CopyWeight ==
  /\ at = "copy" /\ new.neuron # NULL /\ current.weight # NULL /\ HasRoom
  /\ LET x == malloc(heap)
     IN heap' = AppendCopied([heap EXCEPT ![x] = Node("weight", 0)], new.neuron, x)
  /\ current' = [current EXCEPT !.weight = heap[current.weight].next]
  /\ new' = new /\ Copying
\* Mutant: the nodes of the list of a copied layer are linked to the first only.
NeuronCopied_NotLinked ==
  /\ at = "copy" /\ new.neuron # NULL /\ current.weight = NULL
  /\ heap' = IF heap[new.layer].first = NULL
             THEN AppendCopied(heap, new.layer, new.neuron)
             ELSE [heap EXCEPT ![new.neuron].prev = heap[new.layer].last,
                               ![new.layer].last = new.neuron]
  /\ current' = [current EXCEPT !.neuron = heap[current.neuron].next]
  /\ new' = [new EXCEPT !.neuron = NULL] /\ Copying

NeuronCopied ==
  /\ at = "copy" /\ new.neuron # NULL /\ current.weight = NULL
  /\ heap' = AppendCopied(heap, new.layer, new.neuron)
  /\ current' = [current EXCEPT !.neuron = heap[current.neuron].next]
  /\ new' = [new EXCEPT !.neuron = NULL] /\ Copying
LayerCopied ==
  /\ at = "copy" /\ new.layer # NULL /\ new.neuron = NULL /\ current.neuron = NULL
  /\ heap' = AppendCopied(heap, target, new.layer)
  /\ current' = [current EXCEPT !.layer = heap[current.layer].next]
  /\ new' = [new EXCEPT !.layer = NULL] /\ Copying
NetworkCopied ==
  /\ at = "copy" /\ target # NULL /\ new.layer = NULL /\ current.layer = NULL
  /\ global' = target /\ target' = NULL
  /\ at' = "evaluate"
  /\ UNCHANGED <<heap, sums, loop, current, new, received, forgotten>>

(***************************************************************************)
(* PerformanceMetrics runs FeedFoward over the copy.  Its loops count up to*)
(* the sizes in the nodes, and go back to previouslayer from the second    *)
(* layer on.                                                               *)
(***************************************************************************)
Walkable(network) ==
  LET layers == Children(heap, network)
  IN \A i \in DOMAIN layers :
       LET neurons == Children(heap, layers[i])
       IN /\ heap[layers[i]].kind = "layer"
          /\ i > 1 => heap[layers[i]].prev = layers[i - 1]
          /\ \A j \in DOMAIN neurons :
               /\ heap[neurons[j]].kind = "neuron"
               /\ heap[neurons[j]].size = (IF i = 1 THEN 0 ELSE heap[layers[i - 1]].size)
               /\ \A w \in {Children(heap, neurons[j])[k] :
                              k \in 1 .. heap[neurons[j]].size} :
                    heap[w].kind = "weight"

PerformanceMetrics ==
  /\ at = "evaluate"
  /\ at' = IF Walkable(global) THEN "ready" ELSE "crashed"
  /\ UNCHANGED <<heap, global, sums, target, loop, current, new, received, forgotten>>
-----------------------------------------------------------------------------
ConvertStep ==
  \/ ConvertLayer \/ ConvertNeuron \/ ConvertWeight \/ ConvertFails
MemoryStep ==
  \/ NewLayer \/ NewNeuron \/ NewWeight \/ Initialised
  \/ ConvertStep \/ Aggregate
  \/ FreeWeight \/ FreeNeuron \/ FreeLayer \/ FreeNetwork \/ TouchFreed
  \/ CopyNetwork \/ CopyLayer \/ CopyNeuron \/ CopyWeight
  \/ NeuronCopied \/ LayerCopied \/ NetworkCopied
  \/ PerformanceMetrics
-----------------------------------------------------------------------------
MemoryTypeOK ==
  /\ heap \in [Addresses \cup {NULL} ->
                [kind : {"net", "layer", "neuron", "weight", "free"}, size : Nat,
                 next : {NULL} \cup Addresses, prev : {NULL} \cup Addresses,
                 first : {NULL} \cup Addresses, last : {NULL} \cup Addresses]]
  /\ heap[NULL] = Freed
  /\ {global, sums} \subseteq Addresses /\ target \in {NULL} \cup Addresses
  /\ at \in {"initialise", "ready", "convert", "free", "copy", "evaluate", "crashed"}
  /\ loop \in [i : Nat, j : Nat, k : Nat]
  /\ {current.layer, current.neuron, current.weight} \subseteq {NULL} \cup Addresses
  /\ {new.layer, new.neuron, new.weight} \subseteq {NULL} \cup Addresses
  /\ received \in 0 .. Updates /\ forgotten \subseteq Addresses

\* A list of n nodes of a kind: all different, each the predecessor of the next
\* one, the last one known to the parent and followed by nothing.
ListIsSound(parent, kind, n) ==
  LET node == Children(heap, parent)
  IN /\ heap[parent].size = n
     /\ \A i \in 1 .. n : heap[node[i]].kind = kind
     /\ \A i \in 2 .. n : node[i] # node[i - 1] /\ heap[node[i]].prev = node[i - 1]
     /\ heap[parent].last = IF n = 0 THEN NULL ELSE node[n]
     /\ heap[heap[parent].last].next = NULL
NetworkIsSound(network) ==
  LET layers == Children(heap, network)
  IN /\ ListIsSound(network, "layer", Len(net))
     /\ \A i \in 1 .. Len(net) :
          /\ ListIsSound(layers[i], "neuron", net[i])
          /\ \A j \in 1 .. net[i] :
               ListIsSound(Children(heap, layers[i])[j], "weight",
                           IF i = 1 THEN 0 ELSE net[i - 1])

LayerOfOne == \E i \in 1 .. Len(net) : net[i] = 1

(***************************************************************************)
(* Between two updates both networks are complete, however often one was   *)
(* freed and copied from the other, and the nodes in use are theirs and    *)
(* those of the updates that were forgotten: nothing else leaks, nothing   *)
(* is shared, nothing was freed twice.  A configuration with a layer of    *)
(* one neuron is the exception: its copies are rings.                      *)
(***************************************************************************)
NetworksAreSound ==
  /\ at = "crashed" => LayerOfOne
  /\ at = "ready" /\ ~LayerOfOne =>
       /\ NetworkIsSound(global) /\ NetworkIsSound(sums)
       /\ Reach(heap, {global}) \cap Reach(heap, {sums}) = {}
       /\ Allocated(heap) = Reach(heap, {global, sums}) \cup forgotten
=============================================================================
