----------------------------- MODULE GlobalModel -----------------------------
(***************************************************************************)
(* The arithmetic of the aggregation server: what AggregationModel         *)
(* (FederatedLearningServer/src/federatedlearning.c) does to the           *)
(* parameters of the network in which it sums the updates of a round, and  *)
(* of the network it publishes.  FederatedLearning has the order and       *)
(* interleaving of these steps; here one AggregationModel is one action.   *)
(*                                                                         *)
(* A network is a function from its parameters to numbers.  A float is the *)
(* rational it approximates, written <<numerator, denominator>>; clients   *)
(* send integers.  Rounding is not modelled.                               *)
(***************************************************************************)
EXTENDS Integers, FiniteSets, Sequences

CONSTANTS
    Shape,        \* neurons of each layer, the input layer first
    ClientNodes,  \* updates that complete a round
    ClientModels, \* networks that clients may send, with integer parameters
    Counters,     \* trainings counters they may send with them
    MaxRounds     \* bound: rounds aggregated

(* <<layer, neuron, 0>> is a bias, <<layer, neuron, k>> the weight of the   *)
(* k-th input.  Neurons of the input layer have a bias and no weights.      *)
Params ==
    UNION {{<<l, n, k>> : n \in 1..Shape[l],
                          k \in 0..(IF l = 1 THEN 0 ELSE Shape[l - 1])} :
           l \in DOMAIN Shape}

Zero == <<0, 1>>

ASSUME ModelAssumption ==
    /\ Shape \in Seq(Nat \ {0}) /\ Shape # <<>>
    /\ ClientNodes \in Nat \ {0}
    /\ IsFiniteSet(ClientModels)   \* there are finitely many floats
    /\ \A m \in ClientModels : m \in [Params -> Int]
    /\ Counters \subseteq Nat \ {0}
    /\ MaxRounds \in Nat

VARIABLES
    global,           \* neuralnetwork, the model that clients are given
    accumulator,      \* nodecontrol->neuralnetwork
    trainingscounter,
    currentinteraction,
    received,         \* history: the updates of this round
    published         \* history: the updates of the round published last

vars == <<global, accumulator, trainingscounter, currentinteraction,
          received, published>>

Updates == [model : ClientModels, counter : Counters]

(* setFederatedLearningGlobalModel: biases are 0; the weights clients start *)
(* from are random (here, those of one of the networks they may send) and   *)
(* the weights of the sums are 0.                                           *)
Init ==
    /\ \E m \in ClientModels :
         global = [p \in Params |-> IF p[3] = 0 THEN Zero ELSE <<m[p], 1>>]
    /\ accumulator = [p \in Params |-> Zero]
    /\ trainingscounter = 0
    /\ currentinteraction = 0
    /\ received = <<>>
    /\ published = <<>>
-----------------------------------------------------------------------------
(* Seeded fault: the update is not weighted by its trainings counter. *)
FederatedAveragingSum_Unweighted(network, client, counter) ==
    [p \in Params |->
       <<network[p][1] + client[p] * network[p][2], network[p][2]>>]

(* Every bias and weight of the client, times its counter, is added.       *)
FederatedAveragingSum(network, client, counter) ==
    [p \in Params |->
       <<network[p][1] + client[p] * counter * network[p][2], network[p][2]>>]

(* Seeded fault: only the weights are divided. *)
FederatedAveraging_SkipsBias(network, counter) ==
    [p \in Params |->
       IF p[3] = 0 THEN network[p] ELSE <<network[p][1], network[p][2] * counter>>]

(* Every bias and weight is divided by the counter of the round.           *)
FederatedAveraging(network, counter) ==
    [p \in Params |-> <<network[p][1], network[p][2] * counter>>]

(* bias = 0 stands before the loop over the neurons of a layer: it clears  *)
(* the first neuron's bias, and the others keep theirs.                    *)
Cleared(p) == p[3] # 0 \/ p[2] = 1

(* Seeded fault: the weights of the output layer are forgotten. *)
SetNeuralNetworkZeroWeightValue_NotLast(network) ==
    [p \in Params |->
       IF Cleared(p) /\ p[1] # Len(Shape) THEN Zero ELSE network[p]]

SetNeuralNetworkZeroWeightValue(network) ==
    [p \in Params |-> IF Cleared(p) THEN Zero ELSE network[p]]

(* AggregationModel, some node still to interact in this round.            *)
AggregateAndAwait(update) ==
    /\ Len(received) + 1 < ClientNodes
    /\ accumulator' =
         FederatedAveragingSum(accumulator, update.model, update.counter)
    /\ trainingscounter' = trainingscounter + update.counter
    /\ received' = Append(received, update)
    /\ UNCHANGED <<global, currentinteraction, published>>

(* AggregationModel, the last node: the average is copied to the model     *)
(* that clients are given and cleared for the next round.                  *)
AggregateAndPublish(update) ==
    LET sum == FederatedAveragingSum(accumulator, update.model, update.counter)
        average == FederatedAveraging(sum, trainingscounter + update.counter)
    IN  /\ Len(received) + 1 = ClientNodes
        /\ global' = average
        /\ accumulator' = SetNeuralNetworkZeroWeightValue(average)
        /\ trainingscounter' = 0
        /\ currentinteraction' = currentinteraction + 1
        /\ received' = <<>>
        /\ published' = Append(received, update)

AggregationModel(update) ==
    /\ currentinteraction < MaxRounds
    /\ AggregateAndAwait(update) \/ AggregateAndPublish(update)

Next == \E update \in Updates : AggregationModel(update)

Spec == Init /\ [][Next]_vars
-----------------------------------------------------------------------------
(* Properties.                                                             *)

Sum(numbers) ==
    LET sum[k \in 0..Len(numbers)] ==
          IF k = 0 THEN 0 ELSE sum[k - 1] + numbers[k]
    IN  sum[Len(numbers)]

Total(updates) == Sum([i \in DOMAIN updates |-> updates[i].counter])

WeightedSum(updates, p) ==
    Sum([i \in DOMAIN updates |-> updates[i].counter * updates[i].model[p]])

(* The published value of every parameter that is cleared between rounds   *)
(* is the average of the values sent in that round, weighted by their      *)
(* counters: "calculate the final weight value" (federatedlearning.c:741). *)
PublishedIsAverage ==
    \A p \in Params :
      Cleared(p) \/ currentinteraction <= 1 =>
        global[p][1] * Total(published) = WeightedSum(published, p) * global[p][2]

Magnitude(n) == IF n < 0 THEN -n ELSE n

(* The largest magnitude a client may send for a parameter. *)
Largest(p) == CHOOSE x \in {Magnitude(m[p]) : m \in ClientModels} :
                \A m \in ClientModels : Magnitude(m[p]) <= x

(* What is left in a bias that is not cleared is a part of the next sum,   *)
(* but is divided again with it: with two clients or more it never grows   *)
(* past n/(n-1) times the largest bias that was sent.                      *)
LeftoverStaysBounded ==
    \A p \in Params :
      Magnitude(global[p][1]) * (ClientNodes - 1)
        <= Largest(p) * ClientNodes * global[p][2]

(* A round starts from zero: "set 0 the neural network"                    *)
(* (federatedlearning.c:748).                                              *)
RoundStartsFromZero ==
    received = <<>> => \A p \in Params : accumulator[p][1] = 0
=============================================================================
