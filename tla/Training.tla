------------------------------ MODULE Training ------------------------------
(***************************************************************************)
(* Training and evaluation of a network: NeuralNetworkTraining, FeedFoward,*)
(* BackPropagation and PerformanceMetrics of federatedlearning.c, as       *)
(* deep_learning in main.c calls them for every model it fetches.          *)
(*                                                                         *)
(* The numbers are left out.  What is kept is how much memory each vector  *)
(* and matrix has and how much of it is read and written, which line of    *)
(* the data set a value comes from, which sample the values of a layer     *)
(* belong to, and how often the weights of a layer were updated.           *)
(***************************************************************************)
EXTENDS Integers, Sequences

CONSTANTS
  Shapes,    \* the networks the server may be configured for
  Fields,    \* values that are read from a line: 7 in the code
  Columns,   \* values that each line of the data set has after its number
  Samples,   \* percentualtraining
  Epochs,    \* epoch
  Evaluated, \* PercentualEvaluation: DATA_COUNT
  Rounds     \* bound: models that the client fetches

ASSUME ShapesAssumption ==
  \A s \in Shapes : s \in Seq(Nat \ {0}) /\ Len(s) >= 2
ASSUME SizesAssumption ==
  /\ Fields \in Nat /\ Samples \in Nat /\ Epochs \in Nat
  /\ Evaluated \in Nat /\ Rounds \in Nat
ASSUME ColumnsAssumption == Columns \in Seq(Nat) /\ Columns # <<>>

VARIABLES
  pc,
  round,    \* models fetched
  net,      \* neuralnetwork: the neurons of its layers, first to last
  training, \* in NeuralNetworkTraining, else in PerformanceMetrics
  cycle, count, \* the loop variables over epochs and samples
  position, \* lines read of the open file
  files,    \* files that are open
  sample,   \* trainingsample: the line each value was read from, 0 if none
  now,      \* number of the sample, over all epochs
  value,    \* the sample that the activation values of each layer are of
  layer,    \* the loop variable of FeedFoward and BackPropagation
  updates,  \* how often the weights of each layer were updated
  total, right, \* samples evaluated, and those that were classified right
  trainingscounter

\* What BackPropagation keeps while it goes from the last layer to the second.
VARIABLES
  deltafunctions,       \* floats allocated, 0 if none
  deltafunctionsnumber,
  weights,              \* lines and columns allocated, 0 if none
  weightslines, weightscolumn

\* History: an access outside of an array or to a value that was never
\* stored; rows of the matrix that were not freed; an open that failed.
VARIABLES outside, lost, unopened

fileVars  == <<position, files>>
backVars  == <<deltafunctions, deltafunctionsnumber, weights, weightslines,
               weightscolumn>>
trainVars == <<pc, round, net, training, cycle, count, fileVars, sample, now,
               value, layer, updates, total, right, trainingscounter, backVars,
               outside, lost, unopened>>

Layers  == Len(net)
Inputs  == net[1]
Outputs == net[Layers]

\* The indices of the vectors trainingsample and label.
SampleIndex == 1 .. Inputs + Outputs
NoMatrix == [lines |-> 0, columns |-> 0]

TrainInit ==
  /\ pc = "idle" /\ round = 0
  /\ net \in Shapes
  /\ training = TRUE /\ cycle = 0 /\ count = 0
  /\ position = 0 /\ files = 0
  /\ sample = [i \in SampleIndex |-> 0]
  /\ now = 0 /\ value = [l \in 1 .. Layers |-> 0]
  /\ layer = 1 /\ updates = [l \in 1 .. Layers |-> 0]
  /\ total = 0 /\ right = 0 /\ trainingscounter = 0
  /\ deltafunctions = 0 /\ deltafunctionsnumber = 0
  /\ weights = NoMatrix /\ weightslines = 0 /\ weightscolumn = 0
  /\ outside = FALSE /\ lost = 0 /\ unopened = FALSE
-----------------------------------------------------------------------------
(***************************************************************************)
(* replaceNeuralNetwork, and the call of NeuralNetworkTraining: the vector *)
(* trainingsample is a local variable that nothing is stored in yet.  Each *)
(* model has the shape the server was configured for.                      *)
(***************************************************************************)
ReplaceNeuralNetwork ==
  /\ pc = "idle" /\ round < Rounds
  /\ pc' = "open" /\ round' = round + 1
  /\ trainingscounter' = 0
  /\ training' = TRUE /\ cycle' = 0 /\ count' = 0
  /\ sample' = [i \in SampleIndex |-> 0]
  /\ value' = [l \in 1 .. Layers |-> 0]
  /\ updates' = [l \in 1 .. Layers |-> 0]
  /\ now' = 0 /\ layer' = 1 /\ unopened' = FALSE
  /\ UNCHANGED <<net, fileVars, total, right, backVars, outside, lost>>

\* The end of NeuralNetworkTraining: the model counts as trained once, and is
\* evaluated, with a vector of its own.
Trained ==
  /\ trainingscounter' = trainingscounter + 1
  /\ training' = FALSE /\ cycle' = 0
  /\ pc' = "open"
  /\ sample' = [i \in SampleIndex |-> 0]
  /\ total' = 0 /\ right' = 0

\* Mutant: the file is opened once, before the loop over the epochs.
OpenForTraining_OnlyOnce ==
  /\ pc = "open" /\ training /\ cycle < Epochs
  /\ files' = files + 1
  /\ position' = IF cycle = 0 THEN 0 ELSE position
  /\ count' = 0 /\ pc' = "sample"
  /\ UNCHANGED <<round, net, training, cycle, sample, now, value, layer, updates,
                 total, right, trainingscounter, backVars, outside, lost,
                 unopened>>

\* The next epoch opens the file again; after the last one training ends.
OpenForTraining ==
  /\ pc = "open" /\ training /\ cycle < Epochs
  /\ files' = files + 1 /\ position' = 0
  /\ count' = 0 /\ pc' = "sample"
  /\ UNCHANGED <<round, net, training, cycle, sample, now, value, layer, updates,
                 total, right, trainingscounter, backVars, outside, lost,
                 unopened>>
EpochsDone ==
  /\ pc = "open" /\ training /\ cycle >= Epochs
  /\ Trained
  /\ UNCHANGED <<round, net, count, fileVars, now, value, layer, updates,
                 backVars, outside, lost, unopened>>

\* fopen fails: training returns, and its caller goes on as after any training.
OpenFails ==
  /\ pc = "open" /\ training /\ cycle < Epochs
  /\ Trained
  /\ unopened' = TRUE
  /\ UNCHANGED <<round, net, count, fileVars, now, value, layer, updates,
                 backVars, outside, lost>>

\* PerformanceMetrics opens its file, or returns at once.
OpenForEvaluation ==
  /\ pc = "open" /\ ~training
  /\ \/ files' = files + 1 /\ pc' = "sample"
     \/ files' = files /\ pc' = "idle"
  /\ position' = 0 /\ count' = 0
  /\ UNCHANGED <<round, net, training, cycle, sample, now, value, layer,
                 updates, total, right, trainingscounter, backVars, outside,
                 lost, unopened>>
-----------------------------------------------------------------------------
(***************************************************************************)
(* A line is read and split at its commas.  At the end of the file fgets   *)
(* leaves in line what strtok made of it: a first token with nothing after *)
(* it, so that no value is stored and the sample before is used again.     *)
(***************************************************************************)
LastSample == IF training THEN Samples ELSE Evaluated
LineRead   == IF position < Len(Columns) THEN position + 1 ELSE position
Present    == IF position < Len(Columns) THEN Columns[position + 1] ELSE 0
Stored     == {i \in 1 .. Fields : i <= Present}

LoadSample ==
  /\ pc = "sample" /\ count < LastSample
  /\ position' = LineRead
  /\ sample' = [i \in SampleIndex |-> IF i \in Stored THEN LineRead ELSE sample[i]]
  /\ outside' = \/ outside
                \/ \E i \in Stored : i \notin SampleIndex
                \/ \E i \in SampleIndex : sample'[i] = 0
  /\ now' = now + 1
  /\ value' = [value EXCEPT ![1] = now']
  /\ layer' = 2 /\ pc' = "forward"
  /\ UNCHANGED <<round, net, training, cycle, count, files, updates, total,
                 right, trainingscounter, backVars, lost, unopened>>

(***************************************************************************)
(* FeedFoward computes one layer from the values of the layer before; a    *)
(* soft-max output reads that layer, and the weights of all outputs, again.*)
(***************************************************************************)
FeedFoward ==
  /\ pc = "forward" /\ layer <= Layers
  /\ value' = [value EXCEPT ![layer] = value[layer - 1]]
  /\ layer' = layer + 1
  /\ UNCHANGED <<pc, round, net, training, cycle, count, fileVars, sample, now,
                 updates, total, right, trainingscounter, backVars, outside,
                 lost, unopened>>

\* The loss is summed from the outputs, and back-propagation begins.
LossFunctionCalculation ==
  /\ pc = "forward" /\ layer > Layers /\ training
  /\ layer' = Layers /\ pc' = "back"
  /\ UNCHANGED <<round, net, training, cycle, count, fileVars, sample, now,
                 value, updates, total, right, trainingscounter, backVars,
                 outside, lost, unopened>>

\* PerformanceMetrics compares the output with the label and goes on.
Classify ==
  /\ pc = "forward" /\ layer > Layers /\ ~training
  /\ \E hit \in {0, 1} : right' = right + hit
  /\ total' = total + 1 /\ count' = count + 1 /\ pc' = "sample"
  /\ UNCHANGED <<round, net, training, cycle, fileVars, sample, now, value,
                 layer, updates, trainingscounter, backVars, outside, lost,
                 unopened>>
-----------------------------------------------------------------------------
\* freeMatrix(weights, lines): rows beyond lines are lost; with too large a
\* number of lines it would read beyond the array of rows.
FreeMatrix(lines) ==
  lost' = lost + (IF weights.lines > lines THEN weights.lines - lines ELSE 0)

\* Mutant: the matrix of the layer below is sized by this layer's neurons both ways.
BackPropagateLast_Square ==
  /\ pc = "back" /\ layer = Layers
  /\ deltafunctions' = net[layer] /\ deltafunctionsnumber' = net[layer]
  /\ weightslines' = net[layer] /\ weightscolumn' = net[layer]
  /\ weights' = [lines |-> net[layer], columns |-> net[layer]]
  /\ updates' = [updates EXCEPT ![layer] = @ + 1]
  /\ layer' = layer - 1
  /\ UNCHANGED <<pc, round, net, training, cycle, count, fileVars, sample, now,
                 value, total, right, trainingscounter, outside, lost, unopened>>

\* The last layer: its delta functions are its values minus the labels.
BackPropagateLast ==
  /\ pc = "back" /\ layer = Layers
  /\ deltafunctions' = net[layer] /\ deltafunctionsnumber' = net[layer]
  /\ weightslines' = net[layer - 1] /\ weightscolumn' = net[layer]
  /\ weights' = [lines |-> net[layer - 1], columns |-> net[layer]]
  /\ updates' = [updates EXCEPT ![layer] = @ + 1]
  /\ layer' = layer - 1
  /\ UNCHANGED <<pc, round, net, training, cycle, count, fileVars, sample, now,
                 value, total, right, trainingscounter, outside, lost, unopened>>

(***************************************************************************)
(* A hidden layer.  deltafunctionsaux has deltafunctionsnumber floats,     *)
(* copied from deltafunctions before that is resized; the delta functions  *)
(* of this layer are sums over weightscolumn of them, one for each of      *)
(* weightslines lines.  Then the matrix is allocated anew and filled.      *)
(***************************************************************************)
BackPropagateHidden ==
  /\ pc = "back" /\ layer \in 2 .. Layers - 1
  /\ deltafunctions' = net[layer]
  /\ weightscolumn' = weightslines
  /\ weightslines' = net[layer - 1]
  /\ deltafunctionsnumber' = weightslines'
  /\ weights' = [lines |-> weightslines', columns |-> weightscolumn']
  /\ outside' = \/ outside
                \/ deltafunctionsnumber > deltafunctions  \* memcpy
                \/ weightscolumn > deltafunctionsnumber   \* deltafunctionsaux[j]
                \/ weightslines > weights.lines           \* weights[i][j]
                \/ weightscolumn > weights.columns
                \/ weightslines # net[layer]              \* deltafunctions[i]
                \/ weightscolumn' < net[layer]            \* weights[j][i]
  /\ FreeMatrix(weightslines)
  /\ updates' = [updates EXCEPT ![layer] = @ + 1]
  /\ layer' = layer - 1
  /\ UNCHANGED <<pc, round, net, training, cycle, count, fileVars, sample, now,
                 value, total, right, trainingscounter, unopened>>

\* Mutant: the loop over the layers ends at the third.
BackPropagated_OneLayerEarly ==
  /\ pc = "back" /\ layer = 2
  /\ FreeMatrix(weightslines)
  /\ outside' = (outside \/ weightslines > weights.lines)
  /\ weights' = NoMatrix /\ deltafunctions' = 0
  /\ count' = count + 1 /\ pc' = "sample"
  /\ UNCHANGED <<round, net, training, cycle, fileVars, sample, now, value,
                 layer, updates, total, right, trainingscounter,
                 deltafunctionsnumber, weightslines, weightscolumn, unopened>>

\* The end of BackPropagation, and of the sample.
BackPropagated ==
  /\ pc = "back" /\ layer = 1
  /\ FreeMatrix(weightslines)
  /\ outside' = (outside \/ weightslines > weights.lines)
  /\ weights' = NoMatrix /\ deltafunctions' = 0
  /\ count' = count + 1 /\ pc' = "sample"
  /\ UNCHANGED <<round, net, training, cycle, fileVars, sample, now, value,
                 layer, updates, total, right, trainingscounter,
                 deltafunctionsnumber, weightslines, weightscolumn, unopened>>

\* Mutant: fclose is forgotten.
CloseFile_Forgets ==
  /\ pc = "sample" /\ count >= LastSample
  /\ files' = files
  /\ IF training THEN cycle' = cycle + 1 /\ pc' = "open"
                 ELSE cycle' = cycle /\ pc' = "idle"
  /\ total' = 0 /\ right' = 0
  /\ UNCHANGED <<round, net, training, count, position, sample, now, value,
                 layer, updates, trainingscounter, backVars, outside, lost,
                 unopened>>

\* All samples are done: the file is closed, and the epoch or the evaluation
\* ends; then the client sends the model and asks for the status again.
CloseFile ==
  /\ pc = "sample" /\ count >= LastSample
  /\ files' = files - 1
  /\ IF training THEN cycle' = cycle + 1 /\ pc' = "open"
                 ELSE cycle' = cycle /\ pc' = "idle"
  /\ total' = 0 /\ right' = 0
  /\ UNCHANGED <<round, net, training, count, position, sample, now, value,
                 layer, updates, trainingscounter, backVars, outside, lost,
                 unopened>>

TrainStep ==
  \/ OpenForTraining \/ EpochsDone \/ OpenFails \/ OpenForEvaluation
  \/ LoadSample \/ FeedFoward \/ LossFunctionCalculation \/ Classify
  \/ BackPropagateLast \/ BackPropagateHidden \/ BackPropagated
  \/ CloseFile

TrainNext == ReplaceNeuralNetwork \/ TrainStep
TrainSpec == TrainInit /\ [][TrainNext]_trainVars
-----------------------------------------------------------------------------
(***************************************************************************)
(* Types.  One file is open while its lines are used, and none otherwise.  *)
(***************************************************************************)
ControlTypes ==
  /\ pc \in {"idle", "open", "sample", "forward", "back"}
  /\ round \in 0 .. Rounds
  /\ net \in Shapes
  /\ cycle \in 0 .. Epochs /\ count \in Nat
  /\ position \in 0 .. Len(Columns)
  /\ files = IF pc \in {"idle", "open"} THEN 0 ELSE 1
  /\ trainingscounter \in {0, 1}
Flags ==
  training \in BOOLEAN /\ unopened \in BOOLEAN /\ outside \in BOOLEAN
DataTypes ==
  /\ sample \in [SampleIndex -> 0 .. Len(Columns)]
  /\ now \in Nat /\ value \in [1 .. Layers -> Nat]
  /\ layer \in 1 .. Layers + 1 /\ updates \in [1 .. Layers -> Nat]
  /\ total \in Nat /\ right \in 0 .. total
MemoryTypes ==
  /\ deltafunctions \in Nat /\ deltafunctionsnumber \in Nat
  /\ weights \in [lines : Nat, columns : Nat]
  /\ weightslines \in Nat /\ weightscolumn \in Nat
  /\ lost \in Nat
TrainTypeOK == ControlTypes /\ Flags /\ DataTypes /\ MemoryTypes

\* The hidden layers have all as many neurons, as in the shipped 4-3-3-3.
HiddenLayersAgree == \A l \in 2 .. Layers - 2 : net[l] = net[l + 1]
\* A line has the values of one sample, as the shipped data sets do.
LinesFit ==
  /\ Inputs + Outputs = Fields
  /\ \A n \in DOMAIN Columns : Columns[n] >= Fields

(***************************************************************************)
(* The vectors and the matrix of BackPropagation are sized by variables    *)
(* that are carried from one layer to the next.  For networks whose hidden *)
(* layers agree, and lines that fit them, no access is outside of what was *)
(* allocated and stored; and the matrix is always freed with all its rows. *)
(***************************************************************************)
BackPropagationStaysInside ==
  /\ lost = 0
  /\ HiddenLayersAgree /\ LinesFit => ~outside

(***************************************************************************)
(* A model that the client counts as trained went through every epoch with *)
(* every sample, in every layer, unless the data set could not be opened:  *)
(* then it is counted, and sent, all the same.                             *)
(***************************************************************************)
CountedIsTrained ==
  trainingscounter = 1 =>
    unopened \/ \A l \in 2 .. Layers : updates[l] = Epochs * Samples

(***************************************************************************)
(* If the lines fit and suffice, each epoch goes through all of them in    *)
(* order: the weights are changed by the values of one line, which all     *)
(* layers have been computed from.                                         *)
(***************************************************************************)
TrainsOnEachLine ==
  pc = "back" /\ LinesFit /\ Samples <= Len(Columns) =>
    /\ \A i \in SampleIndex : sample[i] = count + 1
    /\ \A l \in 1 .. Layers : value[l] = now
=============================================================================
