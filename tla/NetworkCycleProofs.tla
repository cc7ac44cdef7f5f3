------------------------- MODULE NetworkCycleProofs -------------------------
(***************************************************************************)
(* Theorems about Training, for every set of network shapes, every data    *)
(* set and every number of samples, epochs and rounds; and about           *)
(* NetworkCycle, where the server's memory, of any size, is beside it:     *)
(* its types, and that the networks in it are and remain what they are.    *)
(***************************************************************************)
EXTENDS NetworkCycle, FiniteSetTheorems, WellFoundedInduction, TLAPS

Running == {"sample", "forward", "back"}

\* Every network has an input and an output layer, none of them empty.
LEMMA ShapeOfNet ==
  ASSUME net \in Shapes
  PROVE  /\ Layers \in Nat /\ Layers >= 2
         /\ net \in [1 .. Layers -> Nat \ {0}]
         /\ Inputs \in Nat /\ Outputs \in Nat
         /\ SampleIndex \subseteq Nat
BY ShapesAssumption DEF Layers, Inputs, Outputs, SampleIndex
-----------------------------------------------------------------------------
LEMMA LinesAreCounted == Len(Columns) \in Nat
BY ColumnsAssumption

LEMMA OneIsChanged ==
  ASSUME NEW S, NEW f \in [S -> Nat], NEW x \in S, NEW n \in Nat
  PROVE  [f EXCEPT ![x] = n] \in [S -> Nat]
OBVIOUS

LEMMA InitTypes == TrainInit => TrainTypeOK
<1> SUFFICES ASSUME TrainInit PROVE TrainTypeOK
  OBVIOUS
<1>1. net \in Shapes
  BY DEF TrainInit
<1>2. /\ Layers \in Nat /\ Layers >= 2 /\ SampleIndex \subseteq Nat
  BY <1>1, ShapeOfNet
<1>3. sample \in [SampleIndex -> 0 .. Len(Columns)]
  BY LinesAreCounted DEF TrainInit
<1>4. value \in [1 .. Layers -> Nat] /\ updates \in [1 .. Layers -> Nat]
  BY DEF TrainInit
<1>5. weights \in [lines : Nat, columns : Nat]
  BY DEF TrainInit, NoMatrix
<1>6. ControlTypes
  BY <1>1, LinesAreCounted, SizesAssumption DEF TrainInit, ControlTypes
<1>f. Flags
  BY Zenon DEF TrainInit, Flags
<1>7. DataTypes
  BY LinesAreCounted, <1>2, <1>3, <1>4 DEF TrainInit, DataTypes
<1>8. MemoryTypes
  BY <1>5 DEF TrainInit, MemoryTypes
<1>9. QED
  BY <1>6, <1>f, <1>7, <1>8 DEF TrainTypeOK

\* Every step keeps the types, if the loop variables stay in their ranges.
Ranges ==
  /\ pc \in Running => count <= LastSample
  /\ pc \in {"forward", "back"} => count < LastSample
  /\ pc = "open" /\ training => cycle <= Epochs
  /\ pc \in Running /\ training => cycle < Epochs
  /\ pc = "back" => training /\ layer \in 1 .. Layers
  /\ pc = "forward" => layer \in 2 .. Layers + 1
  /\ trainingscounter = 1 => ~training
Typed == TrainTypeOK /\ Ranges

LEMMA InitTyped == TrainInit => Typed
<1> SUFFICES ASSUME TrainInit PROVE Ranges
  BY InitTypes DEF Typed
<1>1. QED
  BY DEF TrainInit, Ranges, Running

LEMMA NextTyped == Typed /\ [TrainNext]_trainVars => Typed'
<1> SUFFICES ASSUME Typed, [TrainNext]_trainVars
             PROVE  ControlTypes' /\ Flags' /\ DataTypes' /\ MemoryTypes' /\ Ranges'
  BY DEF Typed, TrainTypeOK
<1>t. ControlTypes /\ Flags /\ DataTypes /\ MemoryTypes /\ Ranges
  BY DEF Typed, TrainTypeOK
<1>0. /\ net \in Shapes /\ Layers \in Nat /\ Layers >= 2
      /\ net \in [1 .. Layers -> Nat \ {0}]
  BY <1>t, ShapeOfNet DEF ControlTypes
<1>a. net' = net /\ Layers' = Layers /\ SampleIndex' = SampleIndex
  BY DEF TrainNext, TrainStep, ReplaceNeuralNetwork, OpenForTraining, EpochsDone, OpenFails,
         OpenForEvaluation, LoadSample, FeedFoward, LossFunctionCalculation,
         Classify, BackPropagateLast, BackPropagateHidden, BackPropagated,
         CloseFile, trainVars, Layers, SampleIndex, Inputs, Outputs
<1>c. Len(Columns) \in Nat
  BY LinesAreCounted
<1>1. CASE ReplaceNeuralNetwork
  <2>1. ControlTypes'
    BY <1>1, <1>0, <1>a, <1>c, <1>t, SizesAssumption DEF ReplaceNeuralNetwork, ControlTypes, fileVars
  <2>f. Flags'
    BY <1>1, <1>t, Zenon DEF ReplaceNeuralNetwork, Flags
  <2>2. DataTypes'
    BY <1>1, <1>0, <1>a, <1>c, <1>t DEF ReplaceNeuralNetwork, DataTypes
  <2>3. MemoryTypes'
    BY <1>1, <1>0, <1>a, <1>t DEF ReplaceNeuralNetwork, MemoryTypes, backVars
  <2>4. Ranges'
    BY <1>1, <1>0, <1>a, <1>t, SizesAssumption
    DEF ReplaceNeuralNetwork, ControlTypes, DataTypes, Ranges, Running, fileVars, LastSample
  <2>5. QED
    BY <2>1, <2>f, <2>2, <2>3, <2>4
<1>2. CASE OpenForTraining
  <2>1. ControlTypes'
    BY <1>2, <1>0, <1>a, <1>c, <1>t, SizesAssumption DEF OpenForTraining, ControlTypes, fileVars
  <2>f. Flags'
    BY <1>2, <1>t, Zenon DEF OpenForTraining, Flags
  <2>2. DataTypes'
    BY <1>2, <1>0, <1>a, <1>c, <1>t DEF OpenForTraining, DataTypes
  <2>3. MemoryTypes'
    BY <1>2, <1>0, <1>a, <1>t DEF OpenForTraining, MemoryTypes, backVars
  <2>4. Ranges'
    BY <1>2, <1>0, <1>a, <1>t, SizesAssumption
    DEF OpenForTraining, ControlTypes, DataTypes, Ranges, Running, fileVars, LastSample
  <2>5. QED
    BY <2>1, <2>f, <2>2, <2>3, <2>4
<1>3. CASE OpenFails
  <2>1. ControlTypes'
    BY <1>3, <1>0, <1>a, <1>c, <1>t, SizesAssumption 
    DEF OpenFails, Trained, ControlTypes, Ranges, fileVars
  <2>f. Flags'
    BY <1>3, <1>t, Zenon DEF OpenFails, Trained, Flags
  <2>2. DataTypes'
    BY <1>3, <1>0, <1>a, <1>c, <1>t DEF OpenFails, Trained, DataTypes, Ranges
  <2>3. MemoryTypes'
    BY <1>3, <1>0, <1>a, <1>t DEF OpenFails, Trained, MemoryTypes, backVars
  <2>4. Ranges'
    BY <1>3, <1>0, <1>a, <1>t, SizesAssumption
    DEF OpenFails, Trained, ControlTypes, DataTypes, Ranges, Running, fileVars, LastSample
  <2>5. QED
    BY <2>1, <2>f, <2>2, <2>3, <2>4
<1>4. CASE OpenForEvaluation
  <2>1. ControlTypes'
    BY <1>4, <1>0, <1>a, <1>c, <1>t, SizesAssumption DEF OpenForEvaluation, ControlTypes, fileVars
  <2>f. Flags'
    BY <1>4, <1>t, Zenon DEF OpenForEvaluation, Flags
  <2>2. DataTypes'
    BY <1>4, <1>0, <1>a, <1>c, <1>t DEF OpenForEvaluation, DataTypes
  <2>3. MemoryTypes'
    BY <1>4, <1>0, <1>a, <1>t DEF OpenForEvaluation, MemoryTypes, backVars
  <2>4. Ranges'
    BY <1>4, <1>0, <1>a, <1>t, SizesAssumption
    DEF OpenForEvaluation, ControlTypes, DataTypes, Ranges, Running, fileVars, LastSample
  <2>5. QED
    BY <2>1, <2>f, <2>2, <2>3, <2>4
<1>5. CASE LoadSample
  <2>0. position' \in 0 .. Len(Columns) /\ LineRead \in 0 .. Len(Columns)
    BY <1>5, <1>t, ColumnsAssumption DEF LoadSample, LineRead, ControlTypes
  <2>1. ControlTypes'
    BY <1>5, <1>0, <1>a, <1>c, <1>t, <2>0, SizesAssumption DEF LoadSample, ControlTypes, fileVars
  <2>f. Flags'
    BY <1>5, <1>t, Zenon DEF LoadSample, Flags
  <2>2. DataTypes'
    BY <1>5, <1>0, <1>a, <1>c, <1>t, <2>0, SMTT(30) DEF LoadSample, DataTypes
  <2>3. MemoryTypes'
    BY <1>5, <1>0, <1>a, <1>t DEF LoadSample, MemoryTypes, backVars
  <2>4. Ranges'
    BY <1>5, <1>0, <1>a, <1>t, <2>0, SizesAssumption
    DEF LoadSample, ControlTypes, DataTypes, Ranges, Running, fileVars, LastSample
  <2>5. QED
    BY <2>1, <2>f, <2>2, <2>3, <2>4
<1>6. CASE FeedFoward
  <2>1. ControlTypes'
    BY <1>6, <1>0, <1>a, <1>c, <1>t, SizesAssumption DEF FeedFoward, ControlTypes, fileVars
  <2>f. Flags'
    BY <1>6, <1>t, Zenon DEF FeedFoward, Flags
  <2>0. layer \in 1 .. Layers /\ layer - 1 \in 1 .. Layers /\ layer + 1 \in 1 .. Layers + 1
    BY <1>6, <1>0, <1>t DEF FeedFoward, Ranges
  <2>u. value' = [value EXCEPT ![layer] = value[layer - 1]]
    BY <1>6 DEF FeedFoward
  <2>n. value \in [1 .. Layers -> Nat] /\ value[layer - 1] \in Nat
    BY <2>0, <1>t DEF DataTypes
  <2>v. value' \in [1 .. Layers -> Nat]
    BY <2>0, <2>u, <2>n, OneIsChanged
  <2>2. DataTypes'
    BY <1>6, <1>0, <1>a, <1>c, <1>t, <2>0, <2>v DEF FeedFoward, DataTypes
  <2>3. MemoryTypes'
    BY <1>6, <1>0, <1>a, <1>t DEF FeedFoward, MemoryTypes, backVars
  <2>4. Ranges'
    BY <1>6, <1>0, <1>a, <1>t, SizesAssumption, SMTT(30)
    DEF FeedFoward, ControlTypes, DataTypes, Ranges, Running, fileVars, LastSample
  <2>5. QED
    BY <2>1, <2>f, <2>2, <2>3, <2>4
<1>7. CASE LossFunctionCalculation
  <2>1. ControlTypes'
    BY <1>7, <1>0, <1>a, <1>c, <1>t, SizesAssumption DEF LossFunctionCalculation, ControlTypes, fileVars
  <2>f. Flags'
    BY <1>7, <1>t, Zenon DEF LossFunctionCalculation, Flags
  <2>2. DataTypes'
    BY <1>7, <1>0, <1>a, <1>c, <1>t DEF LossFunctionCalculation, DataTypes, Ranges
  <2>3. MemoryTypes'
    BY <1>7, <1>0, <1>a, <1>t DEF LossFunctionCalculation, MemoryTypes, backVars
  <2>4. Ranges'
    BY <1>7, <1>0, <1>a, <1>t, SizesAssumption
    DEF LossFunctionCalculation, ControlTypes, DataTypes, Ranges, Running, fileVars, LastSample
  <2>5. QED
    BY <2>1, <2>f, <2>2, <2>3, <2>4
<1>8. CASE Classify
  <2>1. ControlTypes'
    BY <1>8, <1>0, <1>a, <1>c, <1>t, SizesAssumption DEF Classify, ControlTypes, fileVars
  <2>f. Flags'
    BY <1>8, <1>t, Zenon DEF Classify, Flags
  <2>2. DataTypes'
    BY <1>8, <1>0, <1>a, <1>c, <1>t, SMTT(30) DEF Classify, DataTypes
  <2>3. MemoryTypes'
    BY <1>8, <1>0, <1>a, <1>t DEF Classify, MemoryTypes, backVars
  <2>4. Ranges'
    BY <1>8, <1>0, <1>a, <1>t, SizesAssumption
    DEF Classify, ControlTypes, DataTypes, Ranges, Running, fileVars, LastSample
  <2>5. QED
    BY <2>1, <2>f, <2>2, <2>3, <2>4
<1>9. CASE BackPropagateLast
  <2>1. ControlTypes'
    BY <1>9, <1>0, <1>a, <1>c, <1>t, SizesAssumption DEF BackPropagateLast, ControlTypes, fileVars
  <2>f. Flags'
    BY <1>9, <1>t, Zenon DEF BackPropagateLast, Flags
  <2>0. layer \in 1 .. Layers /\ layer - 1 \in 1 .. Layers + 1
    BY <1>9, <1>0 DEF BackPropagateLast
  <2>u. updates' = [updates EXCEPT ![layer] = updates[layer] + 1]
    BY <1>9 DEF BackPropagateLast
  <2>n. updates \in [1 .. Layers -> Nat] /\ updates[layer] + 1 \in Nat
    BY <2>0, <1>t DEF DataTypes
  <2>v. updates' \in [1 .. Layers -> Nat]
    BY <2>0, <2>u, <2>n, OneIsChanged
  <2>2. DataTypes'
    BY <1>9, <1>0, <1>a, <1>c, <1>t, <2>0, <2>v DEF BackPropagateLast, DataTypes
  <2>3. MemoryTypes'
    BY <1>9, <1>0, <1>a, <1>t DEF BackPropagateLast, MemoryTypes, backVars, Ranges
  <2>4. Ranges'
    BY <1>9, <1>0, <1>a, <1>t, SizesAssumption
    DEF BackPropagateLast, ControlTypes, DataTypes, Ranges, Running, fileVars, LastSample
  <2>5. QED
    BY <2>1, <2>f, <2>2, <2>3, <2>4
<1>10. CASE BackPropagateHidden
  <2>1. ControlTypes'
    BY <1>10, <1>0, <1>a, <1>c, <1>t, SizesAssumption DEF BackPropagateHidden, FreeMatrix, ControlTypes, fileVars
  <2>f. Flags'
    BY <1>10, <1>t, Zenon DEF BackPropagateHidden, Flags
  <2>0. layer \in 1 .. Layers /\ layer - 1 \in 1 .. Layers + 1
    BY <1>10, <1>0 DEF BackPropagateHidden
  <2>u. updates' = [updates EXCEPT ![layer] = updates[layer] + 1]
    BY <1>10 DEF BackPropagateHidden
  <2>n. updates \in [1 .. Layers -> Nat] /\ updates[layer] + 1 \in Nat
    BY <2>0, <1>t DEF DataTypes
  <2>v. updates' \in [1 .. Layers -> Nat]
    BY <2>0, <2>u, <2>n, OneIsChanged
  <2>2. DataTypes'
    BY <1>10, <1>0, <1>a, <1>c, <1>t, <2>0, <2>v DEF BackPropagateHidden, DataTypes
  <2>3. MemoryTypes'
    BY <1>10, <1>0, <1>a, <1>t, SMTT(30) DEF BackPropagateHidden, FreeMatrix, MemoryTypes, backVars, Ranges
  <2>4. Ranges'
    BY <1>10, <1>0, <1>a, <1>t, SizesAssumption
    DEF BackPropagateHidden, FreeMatrix, ControlTypes, DataTypes, Ranges, Running, fileVars, LastSample
  <2>5. QED
    BY <2>1, <2>f, <2>2, <2>3, <2>4
<1>11. CASE BackPropagated
  <2>1. ControlTypes'
    BY <1>11, <1>0, <1>a, <1>c, <1>t, SizesAssumption DEF BackPropagated, FreeMatrix, NoMatrix, ControlTypes, fileVars
  <2>f. Flags'
    BY <1>11, <1>t, Zenon DEF BackPropagated, Flags
  <2>2. DataTypes'
    BY <1>11, <1>0, <1>a, <1>c, <1>t DEF BackPropagated, FreeMatrix, NoMatrix, DataTypes
  <2>3. MemoryTypes'
    BY <1>11, <1>0, <1>a, <1>t DEF BackPropagated, FreeMatrix, NoMatrix, MemoryTypes, backVars
  <2>4. Ranges'
    BY <1>11, <1>0, <1>a, <1>t, SizesAssumption
    DEF BackPropagated, FreeMatrix, NoMatrix, ControlTypes, DataTypes, Ranges, Running, fileVars, LastSample
  <2>5. QED
    BY <2>1, <2>f, <2>2, <2>3, <2>4
<1>12. CASE CloseFile
  <2>0. cycle' \in 0 .. Epochs
    BY <1>12, <1>t, SizesAssumption DEF CloseFile, ControlTypes, Ranges, Running
  <2>1. ControlTypes'
    BY <1>12, <1>0, <1>a, <1>c, <1>t, <2>0, SizesAssumption DEF CloseFile, ControlTypes, fileVars
  <2>f. Flags'
    BY <1>12, <1>t, Zenon DEF CloseFile, Flags
  <2>2. DataTypes'
    BY <1>12, <1>0, <1>a, <1>c, <1>t, <2>0 DEF CloseFile, DataTypes
  <2>3. MemoryTypes'
    BY <1>12, <1>0, <1>a, <1>t DEF CloseFile, MemoryTypes, backVars
  <2>4. Ranges'
    BY <1>12, <1>0, <1>a, <1>t, <2>0, SizesAssumption
    DEF CloseFile, ControlTypes, DataTypes, Ranges, Running, fileVars, LastSample
  <2>5. QED
    BY <2>1, <2>f, <2>2, <2>3, <2>4
<1>13. CASE UNCHANGED trainVars
  <2>1. ControlTypes'
    BY <1>13, <1>0, <1>a, <1>c, <1>t, SizesAssumption DEF trainVars, ControlTypes, fileVars
  <2>f. Flags'
    BY <1>13, <1>t, Zenon DEF trainVars, Flags
  <2>2. DataTypes'
    BY <1>13, <1>0, <1>a, <1>c, <1>t DEF trainVars, DataTypes
  <2>3. MemoryTypes'
    BY <1>13, <1>0, <1>a, <1>t DEF trainVars, MemoryTypes, backVars
  <2>4. Ranges'
    BY <1>13, <1>0, <1>a, <1>t, SizesAssumption
    DEF trainVars, ControlTypes, DataTypes, Ranges, Running, fileVars, LastSample
  <2>5. QED
    BY <2>1, <2>f, <2>2, <2>3, <2>4
<1>15. CASE EpochsDone
  <2>1. ControlTypes'
    BY <1>15, <1>0, <1>a, <1>c, <1>t, SizesAssumption 
    DEF EpochsDone, Trained, ControlTypes, Ranges, fileVars
  <2>f. Flags'
    BY <1>15, <1>t, Zenon DEF EpochsDone, Trained, Flags
  <2>2. DataTypes'
    BY <1>15, <1>0, <1>a, <1>c, <1>t DEF EpochsDone, Trained, DataTypes, Ranges
  <2>3. MemoryTypes'
    BY <1>15, <1>0, <1>a, <1>t DEF EpochsDone, Trained, MemoryTypes, backVars
  <2>4. Ranges'
    BY <1>15, <1>0, <1>a, <1>t, SizesAssumption
    DEF EpochsDone, Trained, ControlTypes, DataTypes, Ranges, Running, fileVars, LastSample
  <2>5. QED
    BY <2>1, <2>f, <2>2, <2>3, <2>4
<1>16. QED
  BY <1>1, <1>2, <1>3, <1>4, <1>5, <1>6, <1>7, <1>8, <1>9, <1>10, <1>11, <1>12, <1>13, <1>15
  DEF TrainNext, TrainStep

(***************************************************************************)
(* The variables keep their types; exactly one file is open while lines of *)
(* it are used, and none while the next model is awaited.                  *)
(***************************************************************************)
THEOREM TypesHold == TrainSpec => []TrainTypeOK
<1>1. TrainSpec => []Typed
  BY InitTyped, NextTyped, PTL DEF TrainSpec
<1>2. Typed => TrainTypeOK
  BY DEF Typed
<1>3. QED
  BY <1>1, <1>2, PTL
-----------------------------------------------------------------------------
(***************************************************************************)
(* The memory of back-propagation.  Between two layers the matrix is that  *)
(* of the layer above, and each variable that carries a size has the       *)
(* number of neurons of one of the layers on its sides.                    *)
(***************************************************************************)
Carried ==
  pc = "back" /\ layer < Layers =>
    /\ weightslines = net[layer] /\ weightscolumn = net[layer + 1]
    /\ weights.lines = net[layer] /\ weights.columns = net[layer + 1]
    /\ deltafunctions = net[layer + 1]
    /\ deltafunctionsnumber = IF layer + 1 = Layers THEN net[Layers] ELSE net[layer]
Filled ==
  LinesFit /\ pc \in Running /\ position > 0 =>
    \A i \in SampleIndex : sample[i] # 0
Inside == LinesFit /\ HiddenLayersAgree => ~outside
Buffers == Carried /\ Filled /\ lost = 0 /\ Inside

LEMMA InitBuffers == TrainInit => Buffers
BY Zenon DEF TrainInit, Buffers, Carried, Filled, Inside, Running

LEMMA NextCarried ==
  Typed /\ Carried /\ lost = 0 /\ [TrainNext]_trainVars => Carried' /\ lost' = 0
<1> SUFFICES ASSUME Typed, Carried, lost = 0, [TrainNext]_trainVars
             PROVE  Carried' /\ lost' = 0
  OBVIOUS
<1>0. /\ net \in Shapes /\ Layers \in Nat /\ Layers >= 2
      /\ net \in [1 .. Layers -> Nat \ {0}] /\ layer \in 1 .. Layers + 1
  BY ShapeOfNet DEF Typed, TrainTypeOK, ControlTypes, DataTypes
<1>1. CASE pc' # "back"
  <2>1. lost' = lost \/ BackPropagated
    BY <1>1, Zenon
    DEF TrainNext, TrainStep, ReplaceNeuralNetwork, OpenForTraining, EpochsDone,
        OpenFails, OpenForEvaluation, LoadSample, FeedFoward,
        LossFunctionCalculation, Classify, BackPropagateLast,
        BackPropagateHidden, CloseFile, trainVars
  <2>2. CASE BackPropagated
    <3>1. layer = 1 /\ pc = "back"
      BY <2>2 DEF BackPropagated
    <3>2. weightslines = weights.lines /\ weights.lines \in Nat
      BY <3>1, <1>0 DEF Carried
    <3>3. QED
      BY <1>1, <2>2, <3>2 DEF BackPropagated, FreeMatrix, Carried
  <2>3. QED
    BY <1>1, <2>1, <2>2 DEF Carried
<1>2. CASE pc' = "back"
  <2>1. \/ LossFunctionCalculation \/ BackPropagateLast \/ BackPropagateHidden
        \/ UNCHANGED trainVars
    BY <1>2
    DEF TrainNext, TrainStep, ReplaceNeuralNetwork, OpenForTraining, EpochsDone,
        OpenFails, OpenForEvaluation, LoadSample, FeedFoward, Classify,
        BackPropagated, CloseFile, Trained
  <2>2. CASE LossFunctionCalculation
    BY <2>2, <1>0 DEF LossFunctionCalculation, Carried, Layers, backVars
  <2>3. CASE BackPropagateLast
    BY <2>3, <1>0 DEF BackPropagateLast, Carried, Layers
  <2>4. CASE BackPropagateHidden
    <3>1. /\ layer \in 2 .. Layers - 1 /\ pc = "back"
          /\ net' = net /\ Layers' = Layers /\ layer' = layer - 1
      BY <2>4 DEF BackPropagateHidden, Layers
    <3>2. weightslines = weights.lines /\ weights.lines \in Nat
      BY <3>1, <1>0 DEF Carried
    <3>3. lost' = 0
      BY <2>4, <3>2 DEF BackPropagateHidden, FreeMatrix
    <3>4. weightslines = net[layer]
      BY <3>1, <1>0 DEF Carried
    <3>5. Carried'
      BY <2>4, <3>1, <3>4, <1>0 DEF BackPropagateHidden, Carried
    <3>6. QED
      BY <3>3, <3>5
  <2>5. CASE UNCHANGED trainVars
    BY <2>5 DEF trainVars, Carried, Layers, backVars
  <2>6. QED
    BY <2>1, <2>2, <2>3, <2>4, <2>5
<1>3. QED
  BY <1>1, <1>2

\* When a line fits, all of its values are stored.
LEMMA FittingLine ==
  ASSUME LinesFit, position \in 0 .. Len(Columns), position < Len(Columns)
  PROVE  Stored = SampleIndex /\ LineRead = position + 1
<1>1. position + 1 \in DOMAIN Columns
  BY ColumnsAssumption
<1>2. Columns[position + 1] \in Nat /\ Columns[position + 1] >= Fields
  BY <1>1, ColumnsAssumption DEF LinesFit
<1>3. Present >= Fields /\ Present \in Nat
  BY <1>2 DEF Present
<1>4. Stored = 1 .. Fields
  BY <1>3, SizesAssumption DEF Stored
<1>5. QED
  BY <1>4 DEF LinesFit, SampleIndex, LineRead

LEMMA NextFilled ==
  Typed /\ Filled /\ [TrainNext]_trainVars => Filled'
<1> SUFFICES ASSUME Typed, Filled, [TrainNext]_trainVars, LinesFit,
                    pc' \in Running, position' > 0
             PROVE  \A i \in SampleIndex' : sample'[i] # 0
  BY DEF Filled, LinesFit, Inputs, Outputs, Layers, TrainNext, TrainStep,
         ReplaceNeuralNetwork, OpenForTraining, EpochsDone, OpenFails,
         OpenForEvaluation, LoadSample, FeedFoward, LossFunctionCalculation,
         Classify, BackPropagateLast, BackPropagateHidden, BackPropagated,
         CloseFile, trainVars
<1>0. position \in 0 .. Len(Columns) /\ Len(Columns) \in Nat \ {0}
  BY ColumnsAssumption DEF Typed, TrainTypeOK, ControlTypes
<1>a. SampleIndex' = SampleIndex
  BY DEF TrainNext, TrainStep, ReplaceNeuralNetwork, OpenForTraining, EpochsDone,
         OpenFails, OpenForEvaluation, LoadSample, FeedFoward,
         LossFunctionCalculation, Classify, BackPropagateLast,
         BackPropagateHidden, BackPropagated, CloseFile, trainVars, Layers,
         SampleIndex, Inputs, Outputs
<1>1. CASE LoadSample
  <2>1. CASE position < Len(Columns)
    <3>1. Stored = SampleIndex /\ LineRead = position + 1
      BY <1>0, <2>1, FittingLine
    <3>2. sample' = [i \in SampleIndex |-> LineRead]
      BY <1>1, <3>1 DEF LoadSample
    <3>3. QED
      BY <1>0, <1>a, <3>1, <3>2
  <2>2. CASE position = Len(Columns)
    <3>1. Stored = {} /\ pc \in Running /\ position > 0
      BY <1>0, <1>1, <2>2, SizesAssumption DEF LoadSample, Stored, Present, Running
    <3>2. sample' = [i \in SampleIndex |-> sample[i]]
      BY <1>1, <3>1 DEF LoadSample
    <3>3. QED
      BY <1>a, <3>1, <3>2 DEF Filled
  <2>3. QED
    BY <1>0, <2>1, <2>2
<1>2. CASE ~LoadSample
  <2>1. CASE OpenForTraining \/ OpenForEvaluation
    BY <2>1 DEF OpenForTraining, OpenForEvaluation
  <2>2. CASE ReplaceNeuralNetwork \/ EpochsDone \/ OpenFails \/ CloseFile
    <3>1. pc' \in {"open", "idle"}
      BY <2>2 DEF ReplaceNeuralNetwork, EpochsDone, OpenFails, CloseFile, Trained
    <3>2. QED
      BY <3>1 DEF Running
  <2>3. CASE \/ FeedFoward \/ LossFunctionCalculation \/ Classify
             \/ BackPropagateLast \/ BackPropagateHidden \/ BackPropagated
             \/ UNCHANGED trainVars
    <3>1. pc \in Running /\ position' = position /\ sample' = sample
      BY <2>3
      DEF FeedFoward, LossFunctionCalculation, Classify, BackPropagateLast,
          BackPropagateHidden, BackPropagated, trainVars, fileVars, Running
    <3>2. QED
      BY <1>a, <3>1 DEF Filled
  <2>4. QED
    BY <1>2, <2>1, <2>2, <2>3 DEF TrainNext, TrainStep
<1>3. QED
  BY <1>1, <1>2

LEMMA NextInside ==
  Typed /\ Buffers /\ Filled' /\ [TrainNext]_trainVars => Inside'
<1> SUFFICES ASSUME Typed, Buffers, Filled', [TrainNext]_trainVars,
                    LinesFit, HiddenLayersAgree
             PROVE  ~outside'
  BY DEF Inside, HiddenLayersAgree, LinesFit, Inputs, Outputs, Layers, TrainNext,
         TrainStep, ReplaceNeuralNetwork, OpenForTraining, EpochsDone, OpenFails,
         OpenForEvaluation, LoadSample, FeedFoward, LossFunctionCalculation,
         Classify, BackPropagateLast, BackPropagateHidden, BackPropagated,
         CloseFile, trainVars
<1>0. /\ net \in Shapes /\ Layers \in Nat /\ Layers >= 2
      /\ net \in [1 .. Layers -> Nat \ {0}]
      /\ position \in 0 .. Len(Columns) /\ Len(Columns) \in Nat \ {0}
  BY ShapeOfNet, ColumnsAssumption DEF Typed, TrainTypeOK, ControlTypes
<1>b. ~outside /\ Carried /\ Filled
  BY DEF Buffers, Inside
<1>1. CASE LoadSample
  <2>1. SampleIndex' = SampleIndex /\ LinesFit' /\ pc' \in Running /\ position' = LineRead
    BY <1>1 DEF LoadSample, LinesFit, SampleIndex, Inputs, Outputs, Layers, Running
  <2>2. position' > 0
    BY <1>0, <2>1 DEF LineRead
  <2>3. \A i \in SampleIndex : sample'[i] # 0
    BY <2>1, <2>2 DEF Filled
  <2>4. \A i \in Stored : i \in SampleIndex
    BY DEF Stored, SampleIndex, LinesFit
  <2>5. outside' = (outside \/ (\E i \in Stored : i \notin SampleIndex)
                            \/ (\E i \in SampleIndex : sample'[i] = 0))
    BY <1>1, Zenon DEF LoadSample
  <2>6. QED
    BY <1>b, <2>3, <2>4, <2>5, Zenon
<1>2. CASE BackPropagateHidden
  <2>1. layer \in 2 .. Layers - 1 /\ pc = "back"
    BY <1>2 DEF BackPropagateHidden
  <2>2. /\ net[layer] \in Nat /\ net[layer + 1] \in Nat /\ net[Layers] \in Nat
        /\ layer + 1 = Layers \/ net[layer] = net[layer + 1]
    BY <1>0, <2>1 DEF HiddenLayersAgree
  <2>3. /\ weightslines = net[layer] /\ weightscolumn = net[layer + 1]
        /\ weights.lines = net[layer] /\ weights.columns = net[layer + 1]
        /\ deltafunctions = net[layer + 1]
        /\ deltafunctionsnumber = net[layer + 1]
    BY <1>0, <1>b, <2>1, <2>2 DEF Carried
  <2>4. weightscolumn' = net[layer]
    BY <1>2, <2>3 DEF BackPropagateHidden
  <2>5. ~(deltafunctionsnumber > deltafunctions) /\ ~(weightscolumn > deltafunctionsnumber)
    BY <2>2, <2>3
  <2>6. ~(weightslines > weights.lines) /\ ~(weightscolumn > weights.columns)
    BY <2>2, <2>3
  <2>7. ~(weightslines # net[layer]) /\ ~(weightscolumn' < net[layer])
    BY <2>2, <2>3, <2>4
  <2>8. QED
    BY <1>2, <1>b, <2>5, <2>6, <2>7, Zenon DEF BackPropagateHidden
<1>3. CASE BackPropagated
  <2>1. layer = 1 /\ pc = "back"
    BY <1>3 DEF BackPropagated
  <2>2. ~(weightslines > weights.lines)
    BY <1>0, <1>b, <2>1 DEF Carried
  <2>3. QED
    BY <1>3, <1>b, <2>2, Zenon DEF BackPropagated
<1>4. CASE ~LoadSample /\ ~BackPropagateHidden /\ ~BackPropagated
  <2>1. outside' = outside
    BY <1>4, Zenon
    DEF TrainNext, TrainStep, ReplaceNeuralNetwork, OpenForTraining, EpochsDone,
        OpenFails, OpenForEvaluation, FeedFoward, LossFunctionCalculation,
        Classify, BackPropagateLast, CloseFile, trainVars
  <2>2. QED
    BY <1>b, <2>1
<1>5. QED
  BY <1>1, <1>2, <1>3, <1>4

(***************************************************************************)
(* For networks of every number of layers, whose hidden layers have any one*)
(* size, BackPropagation stays inside of its vectors and its matrix; and   *)
(* for any network it frees every row of the matrix.                       *)
(***************************************************************************)
THEOREM StaysInside == TrainSpec => []BackPropagationStaysInside
<1>1. Typed /\ Buffers /\ [TrainNext]_trainVars => Buffers'
  <2> SUFFICES ASSUME Typed, Buffers, [TrainNext]_trainVars PROVE Buffers'
    OBVIOUS
  <2>1. Carried' /\ lost' = 0
    BY NextCarried DEF Buffers
  <2>2. Filled'
    BY NextFilled DEF Buffers
  <2>3. Inside'
    BY <2>2, NextInside
  <2>4. QED
    BY <2>1, <2>2, <2>3 DEF Buffers
<1>2. TrainSpec => [](Typed /\ Buffers)
  BY <1>1, InitTyped, InitBuffers, NextTyped, PTL DEF TrainSpec
<1>3. Buffers => BackPropagationStaysInside
  BY DEF Buffers, Inside, BackPropagationStaysInside
<1>4. QED
  BY <1>2, <1>3, PTL
-----------------------------------------------------------------------------
(***************************************************************************)
(* While training, with lines that fit and suffice: the file has been read *)
(* as far as the samples were counted, all values are of the last line     *)
(* read, and the layers that have been computed are of this sample.        *)
(***************************************************************************)
Computed == IF pc = "forward" THEN 1 .. layer - 1 ELSE 1 .. Layers
InStep ==
  training /\ LinesFit /\ Samples <= Len(Columns) =>
    /\ pc = "sample" => position = count
    /\ pc \in {"forward", "back"} =>
         /\ position = count + 1
         /\ \A i \in SampleIndex : sample[i] = position
         /\ \A l \in Computed : value[l] = now

LEMMA InitInStep == TrainInit => InStep
BY DEF TrainInit, InStep

LEMMA NextInStep == Typed /\ InStep /\ [TrainNext]_trainVars => InStep'
<1> SUFFICES ASSUME Typed, InStep, [TrainNext]_trainVars
             PROVE  InStep'
  OBVIOUS
<1>0. /\ net \in Shapes /\ Layers \in Nat /\ Layers >= 2
      /\ layer \in 1 .. Layers + 1 /\ count \in Nat /\ Samples \in Nat
      /\ position \in 0 .. Len(Columns) /\ Len(Columns) \in Nat
      /\ value \in [1 .. Layers -> Nat] /\ now \in Nat
  BY LinesAreCounted, ShapeOfNet, SizesAssumption
  DEF Typed, TrainTypeOK, ControlTypes, DataTypes
<1>a. net' = net /\ Layers' = Layers /\ SampleIndex' = SampleIndex /\ LinesFit' = LinesFit
  BY DEF TrainNext, TrainStep, ReplaceNeuralNetwork, OpenForTraining, EpochsDone,
         OpenFails, OpenForEvaluation, LoadSample, FeedFoward,
         LossFunctionCalculation, Classify, BackPropagateLast,
         BackPropagateHidden, BackPropagated, CloseFile, trainVars, Layers,
         SampleIndex, Inputs, Outputs, LinesFit
<1>1. CASE LoadSample
  <2> SUFFICES ASSUME training, LinesFit, Samples <= Len(Columns)
               PROVE  /\ pc' = "forward" /\ position' = count' + 1
                      /\ \A i \in SampleIndex : sample'[i] = position'
                      /\ \A l \in Computed' : value'[l] = now'
    BY <1>1, <1>a DEF LoadSample, InStep
  <2>1. position = count /\ position < Len(Columns)
    BY <1>0, <1>1 DEF LoadSample, LastSample, InStep
  <2>2. Stored = SampleIndex /\ LineRead = position + 1
    BY <1>0, <2>1, FittingLine
  <2>3. Computed' = 1 .. 1
    BY <1>1 DEF LoadSample, Computed
  <2>4. value'[1] = now'
    BY <1>0, <1>1 DEF LoadSample
  <2>5. QED
    BY <1>1, <2>1, <2>2, <2>3, <2>4 DEF LoadSample
<1>2. CASE FeedFoward
  <2>1. /\ pc = "forward" /\ layer \in 2 .. Layers
        /\ value' = [value EXCEPT ![layer] = value[layer - 1]]
        /\ layer' = layer + 1
        /\ UNCHANGED <<pc, training, count, position, sample, now>>
    BY <1>0, <1>2 DEF FeedFoward, fileVars, Typed, Ranges
  <2>2. Computed = 1 .. layer - 1 /\ Computed' = 1 .. layer
    BY <1>0, <2>1 DEF Computed
  <2>3. QED
    BY <1>0, <1>a, <2>1, <2>2 DEF InStep
<1>3. CASE LossFunctionCalculation
  <2>1. Computed = 1 .. Layers /\ Computed' = 1 .. Layers
    BY <1>0, <1>3, <1>a DEF LossFunctionCalculation, Computed
  <2>2. QED
    BY <1>3, <1>a, <2>1 DEF LossFunctionCalculation, fileVars, InStep
<1>4. CASE BackPropagateLast \/ BackPropagateHidden
  <2>1. /\ pc = "back" /\ pc' = "back"
        /\ UNCHANGED <<training, count, position, sample, now, value>>
    BY <1>4 DEF BackPropagateLast, BackPropagateHidden, fileVars
  <2>2. Computed' = Computed
    BY <1>a, <2>1 DEF Computed
  <2>3. QED
    BY <1>a, <2>1, <2>2 DEF InStep
<1>5. CASE BackPropagated \/ OpenForTraining
  BY <1>0, <1>5, <1>a DEF BackPropagated, OpenForTraining, fileVars, InStep
<1>6. CASE ReplaceNeuralNetwork \/ CloseFile
  <2>1. pc' \in {"open", "idle"}
    BY <1>6 DEF ReplaceNeuralNetwork, CloseFile
  <2>2. QED
    BY <2>1 DEF InStep
<1>7. CASE EpochsDone \/ OpenFails \/ OpenForEvaluation \/ Classify
  <2>1. ~training'
    BY <1>7 DEF EpochsDone, OpenFails, OpenForEvaluation, Classify, Trained
  <2>2. QED
    BY <2>1 DEF InStep
<1>8. CASE UNCHANGED trainVars
  <2>1. Computed' = Computed
    BY <1>8, <1>a DEF trainVars, Computed
  <2>2. QED
    BY <1>8, <1>a, <2>1 DEF trainVars, fileVars, InStep
<1>9. QED
  BY <1>1, <1>2, <1>3, <1>4, <1>5, <1>6, <1>7, <1>8 DEF TrainNext, TrainStep

(***************************************************************************)
(* For every network, and every data set whose lines fit it and suffice    *)
(* for an epoch: what back-propagation changes the weights by is computed, *)
(* in all layers, from one line, and epoch after epoch the lines are taken *)
(* from the first on, each of them once.                                   *)
(***************************************************************************)
THEOREM LinesInOrder == TrainSpec => []TrainsOnEachLine
<1>1. Typed /\ InStep => TrainsOnEachLine
  BY DEF Typed, Ranges, InStep, Computed, TrainsOnEachLine
<1>2. TrainSpec => [](Typed /\ InStep)
  BY InitTyped, InitInStep, NextTyped, NextInStep, PTL DEF TrainSpec
<1>3. QED
  BY <1>1, <1>2, PTL
-----------------------------------------------------------------------------
(***************************************************************************)
(* How often the weights were updated, while training and after it: in     *)
(* whole epochs, in the samples of this one, and in the layers that        *)
(* back-propagation has passed with this sample.                           *)
(***************************************************************************)
SamplesSoFar(c) == c * Samples
Counted(l) ==
  SamplesSoFar(cycle) + (IF pc \in Running THEN count ELSE 0)
                      + (IF pc = "back" /\ layer < l THEN 1 ELSE 0)
Updated ==
  /\ training => \A l \in 2 .. Layers : updates[l] = Counted(l)
  /\ CountedIsTrained

LEMMA OneEpochMore ==
  ASSUME NEW c \in Nat
  PROVE  /\ SamplesSoFar(c) \in Nat
         /\ SamplesSoFar(c + 1) = SamplesSoFar(c) + Samples
         /\ SamplesSoFar(0) = 0 /\ SamplesSoFar(Epochs) = Epochs * Samples
BY SizesAssumption DEF SamplesSoFar

LEMMA InitUpdated == TrainInit => Updated
<1> SUFFICES ASSUME TrainInit PROVE Updated
  OBVIOUS
<1>1. cycle = 0 /\ pc = "idle" /\ trainingscounter = 0
  BY DEF TrainInit
<1>2. SamplesSoFar(cycle) = 0
  BY <1>1, OneEpochMore
<1>3. \A l \in 2 .. Layers : Counted(l) = 0
  BY <1>1, <1>2 DEF Counted, Running
<1>4. Layers \in Nat /\ \A l \in 1 .. Layers : updates[l] = 0
  BY ShapeOfNet DEF TrainInit
<1>5. \A l \in 2 .. Layers : updates[l] = 0
  BY <1>4
<1>6. QED
  BY <1>1, <1>3, <1>5 DEF Updated, CountedIsTrained

LEMMA NextUpdated == Typed /\ Updated /\ [TrainNext]_trainVars => Updated'
<1> SUFFICES ASSUME Typed, Updated, [TrainNext]_trainVars PROVE Updated'
  OBVIOUS
<1>0. /\ net \in Shapes /\ Layers \in Nat /\ Layers >= 2
      /\ cycle \in Nat /\ count \in Nat /\ layer \in Nat
      /\ updates \in [1 .. Layers -> Nat]
      /\ Samples \in Nat /\ Epochs \in Nat
  BY ShapeOfNet, SizesAssumption DEF Typed, TrainTypeOK, ControlTypes, DataTypes
<1>a. Layers' = Layers
  BY DEF TrainNext, TrainStep, ReplaceNeuralNetwork, OpenForTraining, EpochsDone,
         OpenFails, OpenForEvaluation, LoadSample, FeedFoward,
         LossFunctionCalculation, Classify, BackPropagateLast,
         BackPropagateHidden, BackPropagated, CloseFile, trainVars, Layers
<1>s. SamplesSoFar(cycle) \in Nat
  BY <1>0, OneEpochMore
<1>1. CASE ReplaceNeuralNetwork
  <2>1. cycle' = 0 /\ pc' = "open" /\ trainingscounter' = 0
    BY <1>1 DEF ReplaceNeuralNetwork
  <2>2. SamplesSoFar(cycle') = 0
    BY <2>1, OneEpochMore
  <2>3. \A l \in 2 .. Layers : updates'[l] = 0
    BY <1>0, <1>1 DEF ReplaceNeuralNetwork
  <2>4. QED
    BY <1>a, <2>1, <2>2, <2>3 DEF Updated, Counted, CountedIsTrained, Running
<1>2. CASE OpenForTraining
  <2>1. /\ pc = "open" /\ pc' = "sample" /\ training /\ training' = training
        /\ cycle' = cycle /\ count' = 0
        /\ updates' = updates /\ trainingscounter' = trainingscounter
    BY <1>2 DEF OpenForTraining
  <2>2. trainingscounter # 1
    BY <2>1 DEF Typed, Ranges
  <2>3. \A l \in 2 .. Layers : updates[l] = SamplesSoFar(cycle)
    BY <1>s, <2>1 DEF Updated, Counted, Running
  <2>4. QED
    BY <1>a, <1>s, <2>1, <2>2, <2>3 DEF Updated, Counted, CountedIsTrained, Running
<1>3. CASE EpochsDone
  <2>1. /\ pc = "open" /\ training /\ cycle = Epochs
        /\ training' = FALSE /\ updates' = updates
    BY <1>0, <1>3 DEF EpochsDone, Trained, Typed, Ranges
  <2>2. \A l \in 2 .. Layers : updates[l] = SamplesSoFar(Epochs)
    BY <1>s, <2>1 DEF Updated, Counted, Running
  <2>3. \A l \in 2 .. Layers : updates[l] = Epochs * Samples
    BY <1>0, <2>2, OneEpochMore
  <2>4. QED
    BY <1>a, <2>1, <2>3 DEF Updated, CountedIsTrained
<1>4. CASE OpenFails
  BY <1>4 DEF OpenFails, Trained, Updated, CountedIsTrained
<1>5. CASE BackPropagateLast \/ BackPropagateHidden
  <2>a. pc = "back" /\ (layer = Layers \/ layer \in 2 .. Layers - 1)
    BY <1>5, Zenon DEF BackPropagateLast, BackPropagateHidden
  <2>0. pc = "back" /\ layer \in 2 .. Layers
    BY <1>0, <2>a
  <2>1. /\ pc' = "back"
        /\ training' = training /\ trainingscounter' = trainingscounter
        /\ cycle' = cycle /\ count' = count /\ layer' = layer - 1
        /\ updates' = [updates EXCEPT ![layer] = updates[layer] + 1]
    BY <1>5, <2>0 DEF BackPropagateLast, BackPropagateHidden
  <2>2. training /\ trainingscounter # 1
    BY <2>0, <2>1 DEF Typed, Ranges
  <2>3. ASSUME NEW l \in 2 .. Layers PROVE updates'[l] = Counted(l)'
    <3>1. updates[l] = SamplesSoFar(cycle) + count + (IF layer < l THEN 1 ELSE 0)
      BY <2>0, <2>1, <2>2 DEF Updated, Counted, Running
    <3>2. Counted(l)' = SamplesSoFar(cycle) + count + (IF layer - 1 < l THEN 1 ELSE 0)
      BY <2>0, <2>1 DEF Counted, Running, SamplesSoFar
    <3>3. updates'[l] = IF l = layer THEN updates[l] + 1 ELSE updates[l]
      BY <1>0, <2>0, <2>1
    <3>4. QED
      BY <1>0, <1>s, <2>0, <2>1, <3>1, <3>2, <3>3
  <2>4. QED
    BY <1>a, <2>0, <2>1, <2>2, <2>3 DEF Updated, CountedIsTrained
<1>6. CASE BackPropagated
  <2>1. /\ pc = "back" /\ pc' = "sample" /\ layer = 1
        /\ training' = training /\ trainingscounter' = trainingscounter
        /\ cycle' = cycle /\ count' = count + 1 /\ updates' = updates
    BY <1>6 DEF BackPropagated
  <2>2. training /\ trainingscounter # 1
    BY <2>1 DEF Typed, Ranges
  <2>3. ASSUME NEW l \in 2 .. Layers PROVE updates'[l] = Counted(l)'
    <3>1. updates[l] = SamplesSoFar(cycle) + count + 1
      BY <1>0, <1>s, <2>1, <2>2 DEF Updated, Counted, Running
    <3>2. Counted(l)' = SamplesSoFar(cycle) + (count + 1) + 0
      BY <2>1 DEF Counted, Running, SamplesSoFar
    <3>3. QED
      BY <1>0, <1>s, <2>1, <3>1, <3>2
  <2>4. QED
    BY <1>a, <2>1, <2>2, <2>3 DEF Updated, CountedIsTrained
<1>7. CASE CloseFile
  <2>1. /\ pc = "sample" /\ count >= LastSample
        /\ training' = training /\ trainingscounter' = trainingscounter
        /\ unopened' = unopened /\ updates' = updates
    BY <1>7 DEF CloseFile
  <2>2. CASE ~training
    BY <1>a, <2>1, <2>2 DEF Updated, CountedIsTrained
  <2>3. CASE training
    <3>1. cycle' = cycle + 1 /\ pc' = "open"
      BY <1>7, <2>3 DEF CloseFile
    <3>2. count = Samples
      BY <1>0, <2>1, <2>3 DEF Typed, Ranges, LastSample, Running
    <3>3. trainingscounter # 1
      BY <2>3 DEF Typed, Ranges
    <3>4. SamplesSoFar(cycle') = SamplesSoFar(cycle) + Samples
      BY <1>0, <3>1, OneEpochMore
    <3>5. \A l \in 2 .. Layers : updates[l] = SamplesSoFar(cycle) + Samples
      BY <1>0, <1>s, <2>1, <2>3, <3>2 DEF Updated, Counted, Running
    <3>6. QED
      BY <1>0, <1>s, <1>a, <2>1, <3>1, <3>3, <3>4, <3>5
      DEF Updated, Counted, CountedIsTrained, Running
  <2>4. QED
    BY <2>2, <2>3
<1>8. CASE LossFunctionCalculation
  <2>1. /\ pc = "forward" /\ pc' = "back" /\ training /\ layer' = Layers
        /\ training' = training /\ trainingscounter' = trainingscounter
        /\ cycle' = cycle /\ count' = count /\ updates' = updates
    BY <1>8 DEF LossFunctionCalculation
  <2>2. trainingscounter # 1
    BY <2>1 DEF Typed, Ranges
  <2>3. \A l \in 2 .. Layers : updates[l] = SamplesSoFar(cycle) + count
    BY <1>0, <1>s, <2>1 DEF Updated, Counted, Running
  <2>4. \A l \in 2 .. Layers : Counted(l)' = SamplesSoFar(cycle) + count + 0
    BY <1>0, <2>1 DEF Counted, Running, SamplesSoFar
  <2>5. QED
    BY <1>0, <1>s, <1>a, <2>1, <2>2, <2>3, <2>4 DEF Updated, CountedIsTrained
<1>9. CASE \/ OpenForEvaluation \/ LoadSample \/ FeedFoward \/ Classify
           \/ UNCHANGED trainVars
  <2>1. /\ training' = training /\ trainingscounter' = trainingscounter
        /\ unopened' = unopened /\ updates' = updates
    BY <1>9 DEF OpenForEvaluation, LoadSample, FeedFoward, Classify, trainVars
  <2>2. CASE ~training
    BY <1>a, <2>1, <2>2 DEF Updated, CountedIsTrained
  <2>3. CASE training
    <3>1. cycle' = cycle /\ count' = count
      BY <1>9, <2>3
      DEF OpenForEvaluation, LoadSample, FeedFoward, Classify, trainVars
    <3>2. \/ pc' = pc /\ layer' = layer
          \/ pc \in {"sample", "forward"} /\ pc' \in {"sample", "forward"}
      BY <1>9, <2>3
      DEF OpenForEvaluation, LoadSample, FeedFoward, Classify, trainVars
    <3>3. \A l \in 2 .. Layers : Counted(l)' = Counted(l)
      BY <3>1, <3>2 DEF Counted, SamplesSoFar, Running
    <3>4. QED
      BY <1>a, <2>1, <3>3 DEF Updated, CountedIsTrained
  <2>4. QED
    BY <2>2, <2>3
<1>10. QED
  BY <1>1, <1>2, <1>3, <1>4, <1>5, <1>6, <1>7, <1>8, <1>9 DEF TrainNext, TrainStep

(***************************************************************************)
(* For every number of epochs and samples: a model that was counted as     *)
(* trained had each of its layers updated once for each sample of each     *)
(* epoch, or the data set could not be opened.                             *)
(***************************************************************************)
THEOREM CountedWasTrained == TrainSpec => []CountedIsTrained
<1>1. TrainSpec => [](Typed /\ Updated)
  BY InitTyped, InitUpdated, NextTyped, NextUpdated, PTL DEF TrainSpec
<1>2. Updated => CountedIsTrained
  BY DEF Updated
<1>3. QED
  BY <1>1, <1>2, PTL
-----------------------------------------------------------------------------
(***************************************************************************)
(* The server's memory.                                                    *)
(***************************************************************************)
Addresses == Server!Addresses
NULL == Server!NULL
Pointers == Addresses \cup {NULL}
Kinds == {"net", "layer", "neuron", "weight", "free"}
NodeType == [kind : Kinds, size : Nat, next : Pointers, prev : Pointers,
             first : Pointers, last : Pointers]

\* A node whose list begins somewhere knows its end, and nothing is stored
\* through NULL.
Heap(h) ==
  /\ h \in [Pointers -> NodeType]
  /\ h[NULL] = Server!Freed
  /\ \A a \in Addresses : h[a].first # NULL => h[a].last # NULL

\* Induction over the numbers, for a set.
LEMMA SetInduction ==
    ASSUME NEW P, 0 \in P, \A n \in Nat : n \in P => n + 1 \in P
    PROVE  Nat \subseteq P
<1> DEFINE R == OpToRel(<, Nat)
           T == Nat \ P
<1>1. SUFFICES ASSUME T # {}
               PROVE  FALSE
  OBVIOUS
<1>2. \A x, y \in Nat : x < y => <<x, y>> \in R
  BY DEF OpToRel
<1>3. PICK m \in T : \A k \in T : <<k, m>> \notin R
  <2>1. IsWellFoundedOn(R, Nat) /\ T \subseteq Nat
    BY NatLessThanWellFounded
  <2> HIDE DEF R, T
  <2> QED
    BY <1>1, <2>1, WFMin
<1> HIDE DEF R
<1>4. m \in Nat /\ m # 0 /\ m - 1 \in Nat /\ m - 1 < m
  OBVIOUS
<1>5. m - 1 \in P
  BY <1>2, <1>3, <1>4
<1>6. (m - 1) + 1 \in P
  BY <1>4, <1>5
<1>7. QED
  BY <1>4, <1>6

LEMMA NULLIsNoAddress == NULL \notin Addresses /\ Addresses \subseteq Nat
BY MemoryAssumption DEF NULL, Addresses, Server!NULL, Server!Addresses

LEMMA NewNode ==
  ASSUME NEW kind \in Kinds, NEW size \in Nat
  PROVE  /\ Server!Node(kind, size) \in NodeType
         /\ Server!Node(kind, size).kind = kind
         /\ Server!Node(kind, size).size = size
         /\ Server!Node(kind, size).first = NULL
         /\ Server!Node(kind, size).last = NULL
         /\ Server!Node(kind, size).next = NULL
BY DEF Server!Node, NodeType, Pointers, NULL

LEMMA FreedNode ==
  /\ Server!Freed \in NodeType /\ Server!Freed.kind = "free"
  /\ Server!Freed.first = NULL /\ Server!Freed.last = NULL
  /\ Server!Freed.next = NULL /\ Server!Freed.size = 0
BY NewNode DEF Server!Freed, Kinds

LEMMA NodeIsPut ==
  ASSUME NEW h, Heap(h), NEW x \in Addresses, NEW n \in NodeType,
         n.first # NULL => n.last # NULL
  PROVE  Heap([h EXCEPT ![x] = n])
BY NULLIsNoAddress DEF Heap, Pointers

LEMMA PointersInNode ==
  ASSUME NEW n \in NodeType, NEW v \in Pointers
  PROVE  /\ [n EXCEPT !.prev = v] \in NodeType
         /\ [n EXCEPT !.next = v] \in NodeType
         /\ [n EXCEPT !.first = v] \in NodeType
         /\ [n EXCEPT !.last = v] \in NodeType
BY DEF NodeType

LEMMA OtherFields ==
  ASSUME NEW n \in NodeType, NEW v \in Pointers
  PROVE  /\ LET m == [n EXCEPT !.prev = v]
            IN /\ m.kind = n.kind /\ m.size = n.size
               /\ m.first = n.first /\ m.last = n.last
         /\ LET m == [n EXCEPT !.next = v]
            IN /\ m.kind = n.kind /\ m.size = n.size
               /\ m.first = n.first /\ m.last = n.last
         /\ LET m == [n EXCEPT !.first = v]
            IN /\ m.kind = n.kind /\ m.size = n.size
               /\ m.first = v /\ m.last = n.last
         /\ LET m == [n EXCEPT !.last = v]
            IN /\ m.kind = n.kind /\ m.size = n.size
               /\ m.first = n.first /\ m.last = v
BY DEF NodeType

\* One store into a node.
PrevStored(h, y, v)  == [h EXCEPT ![y].prev = v]
NextStored(h, y, v) == [h EXCEPT ![y].next = v]
FirstStored(h, y, v) == [h EXCEPT ![y].first = v]
LastStored(h, y, v)  == [h EXCEPT ![y].last = v]

LEMMA PointerIsStored ==
  ASSUME NEW h, h \in [Pointers -> NodeType], h[NULL] = Server!Freed,
         NEW y \in Addresses, NEW v \in Pointers
  PROVE  /\ PrevStored(h, y, v) \in [Pointers -> NodeType]
         /\ PrevStored(h, y, v)[NULL] = Server!Freed
         /\ \A a \in Pointers :
              /\ PrevStored(h, y, v)[a].kind = h[a].kind
              /\ PrevStored(h, y, v)[a].size = h[a].size
              /\ PrevStored(h, y, v)[a].first = h[a].first
              /\ PrevStored(h, y, v)[a].last = h[a].last
         /\ NextStored(h, y, v) \in [Pointers -> NodeType]
         /\ NextStored(h, y, v)[NULL] = Server!Freed
         /\ \A a \in Pointers :
              /\ NextStored(h, y, v)[a].kind = h[a].kind
              /\ NextStored(h, y, v)[a].size = h[a].size
              /\ NextStored(h, y, v)[a].first = h[a].first
              /\ NextStored(h, y, v)[a].last = h[a].last
         /\ FirstStored(h, y, v) \in [Pointers -> NodeType]
         /\ FirstStored(h, y, v)[NULL] = Server!Freed
         /\ \A a \in Pointers :
              /\ FirstStored(h, y, v)[a].kind = h[a].kind
              /\ FirstStored(h, y, v)[a].size = h[a].size
              /\ FirstStored(h, y, v)[a].first = (IF a = y THEN v ELSE h[a].first)
              /\ FirstStored(h, y, v)[a].last = h[a].last
         /\ LastStored(h, y, v) \in [Pointers -> NodeType]
         /\ LastStored(h, y, v)[NULL] = Server!Freed
         /\ \A a \in Pointers :
              /\ LastStored(h, y, v)[a].kind = h[a].kind
              /\ LastStored(h, y, v)[a].size = h[a].size
              /\ LastStored(h, y, v)[a].first = h[a].first
              /\ LastStored(h, y, v)[a].last = (IF a = y THEN v ELSE h[a].last)
<1>1. y \in Pointers /\ y # NULL /\ NULL \in Pointers /\ h[y] \in NodeType
  BY NULLIsNoAddress DEF Pointers
<1> DEFINE Put(n) == [h EXCEPT ![y] = n]
<1>2. ASSUME NEW n \in NodeType
      PROVE  /\ Put(n) \in [Pointers -> NodeType] /\ Put(n)[NULL] = Server!Freed
             /\ \A a \in Pointers : Put(n)[a] = IF a = y THEN n ELSE h[a]
  BY <1>1
<1>3. /\ PrevStored(h, y, v) = Put([h[y] EXCEPT !.prev = v])
      /\ NextStored(h, y, v) = Put([h[y] EXCEPT !.next = v])
      /\ FirstStored(h, y, v) = Put([h[y] EXCEPT !.first = v])
      /\ LastStored(h, y, v) = Put([h[y] EXCEPT !.last = v])
  BY <1>1 DEF PrevStored, NextStored, FirstStored, LastStored
<1> HIDE DEF Put
<1> DEFINE n1 == [h[y] EXCEPT !.prev = v]
           n2 == [h[y] EXCEPT !.next = v]
           n3 == [h[y] EXCEPT !.first = v]
           n4 == [h[y] EXCEPT !.last = v]
<1>4. /\ n1 \in NodeType /\ n2 \in NodeType /\ n3 \in NodeType /\ n4 \in NodeType
      /\ n1.kind = h[y].kind /\ n1.size = h[y].size
      /\ n1.first = h[y].first /\ n1.last = h[y].last
      /\ n2.kind = h[y].kind /\ n2.size = h[y].size
      /\ n2.first = h[y].first /\ n2.last = h[y].last
      /\ n3.kind = h[y].kind /\ n3.size = h[y].size
      /\ n3.first = v /\ n3.last = h[y].last
      /\ n4.kind = h[y].kind /\ n4.size = h[y].size
      /\ n4.first = h[y].first /\ n4.last = v
  BY <1>1, PointersInNode, OtherFields
<1> HIDE DEF n1, n2, n3, n4
<1>5. /\ PrevStored(h, y, v) = Put(n1) /\ NextStored(h, y, v) = Put(n2)
      /\ FirstStored(h, y, v) = Put(n3) /\ LastStored(h, y, v) = Put(n4)
  BY <1>3 DEF n1, n2, n3, n4
<1>6. ASSUME NEW n \in NodeType, NEW a \in Pointers
      PROVE  Put(n)[a] = IF a = y THEN n ELSE h[a]
  BY <1>2
<1>7. /\ PrevStored(h, y, v) \in [Pointers -> NodeType]
      /\ PrevStored(h, y, v)[NULL] = Server!Freed
      /\ NextStored(h, y, v) \in [Pointers -> NodeType]
      /\ NextStored(h, y, v)[NULL] = Server!Freed
      /\ FirstStored(h, y, v) \in [Pointers -> NodeType]
      /\ FirstStored(h, y, v)[NULL] = Server!Freed
      /\ LastStored(h, y, v) \in [Pointers -> NodeType]
      /\ LastStored(h, y, v)[NULL] = Server!Freed
  BY <1>2, <1>4, <1>5
<1>8. \A a \in Pointers :
        /\ PrevStored(h, y, v)[a] = IF a = y THEN n1 ELSE h[a]
        /\ NextStored(h, y, v)[a] = IF a = y THEN n2 ELSE h[a]
        /\ FirstStored(h, y, v)[a] = IF a = y THEN n3 ELSE h[a]
        /\ LastStored(h, y, v)[a] = IF a = y THEN n4 ELSE h[a]
  BY <1>4, <1>5, <1>6
<1> HIDE DEF PrevStored, NextStored, FirstStored, LastStored
<1>9. QED
  BY <1>1, <1>4, <1>7, <1>8

LEMMA BuiltIsHeap ==
  ASSUME NEW h, Heap(h), NEW parent \in Addresses, NEW x \in Addresses
  PROVE  /\ Heap(Server!AppendBuilt(h, parent, x))
         /\ Server!AppendBuilt(h, parent, x)[parent].last = x
         /\ \A a \in Pointers :
              /\ Server!AppendBuilt(h, parent, x)[a].kind = h[a].kind
              /\ Server!AppendBuilt(h, parent, x)[a].size = h[a].size
              /\ a # parent => Server!AppendBuilt(h, parent, x)[a].last = h[a].last
<1> DEFINE old == h[parent].last
           h1 == PrevStored(h, x, old)
           h2 == LastStored(h1, parent, x)
           begin == IF old = NULL THEN x ELSE h2[parent].first
           h3 == FirstStored(h2, parent, begin)
           h4 == NextStored(h3, old, x)
<1>1. /\ old \in Pointers /\ (old # NULL => old \in Addresses)
      /\ parent \in Pointers /\ x \in Pointers /\ x # NULL /\ parent # NULL
  BY NULLIsNoAddress DEF Heap, Pointers, NodeType
<1>2. /\ h1 \in [Pointers -> NodeType] /\ h1[NULL] = Server!Freed
      /\ \A a \in Pointers : /\ h1[a].kind = h[a].kind /\ h1[a].size = h[a].size
                             /\ h1[a].last = h[a].last /\ h1[a].first = h[a].first
  BY <1>1, PointerIsStored, SMTT(30) DEF Heap
<1> HIDE DEF h1
<1>3. /\ h2 \in [Pointers -> NodeType] /\ h2[NULL] = Server!Freed
      /\ \A a \in Pointers : /\ h2[a].kind = h[a].kind /\ h2[a].size = h[a].size
                             /\ h2[a].last = (IF a = parent THEN x ELSE h[a].last)
                             /\ h2[a].first = h[a].first
  BY <1>1, <1>2, PointerIsStored
<1> HIDE DEF h2
<1>v. begin \in Pointers
  BY <1>1, <1>3 DEF NodeType
<1> HIDE DEF begin, old
<1>4. /\ h3 \in [Pointers -> NodeType] /\ h3[NULL] = Server!Freed
      /\ \A a \in Pointers : /\ h3[a].kind = h[a].kind /\ h3[a].size = h[a].size
                             /\ h3[a].last = (IF a = parent THEN x ELSE h[a].last)
                             /\ a # parent => h3[a].first = h[a].first
  BY <1>v, <1>1, <1>3, PointerIsStored, SMTT(30)
<1> HIDE DEF h3
<1>5. CASE old = NULL
  <2>1. Server!AppendBuilt(h, parent, x) = h3
    BY <1>5 DEF Server!AppendBuilt, old, begin, h1, h2, h3, h4, NULL, PrevStored, NextStored, FirstStored, LastStored
  <2>2. QED
    BY <1>1, <1>4, <2>1 DEF Heap, Pointers
<1>6. CASE old # NULL
  <2>1. Server!AppendBuilt(h, parent, x) = h4
    BY <1>6, ZenonT(30) DEF Server!AppendBuilt, old, begin, h1, h2, h3, h4, NULL, PrevStored, NextStored, FirstStored, LastStored
  <2>2. /\ h4 \in [Pointers -> NodeType] /\ h4[NULL] = Server!Freed
        /\ \A a \in Pointers : /\ h4[a].kind = h3[a].kind /\ h4[a].size = h3[a].size
                               /\ h4[a].last = h3[a].last /\ h4[a].first = h3[a].first
    BY <1>1, <1>4, <1>6, PointerIsStored
  <2> HIDE DEF h4
  <2>3. QED
    BY <1>1, <1>4, <2>1, <2>2 DEF Heap, Pointers
<1>7. QED
  BY <1>5, <1>6

LEMMA CopiedIsHeap ==
  ASSUME NEW h, Heap(h), NEW parent \in Addresses, NEW x \in Addresses
  PROVE  Heap(Server!AppendCopied(h, parent, x))
<1> DEFINE old == IF h[parent].first = NULL THEN x ELSE h[parent].last
           h1 == FirstStored(h, parent, IF h[parent].first = NULL THEN x ELSE h[parent].first)
           h2 == NextStored(h1, x, NULL)
           h3 == PrevStored(h2, x, old)
           h4 == NextStored(h3, old, x)
           h5 == LastStored(h4, parent, x)
<1>1. /\ old \in Addresses /\ old \in Pointers
      /\ parent \in Pointers /\ x \in Pointers /\ x # NULL /\ parent # NULL
  BY NULLIsNoAddress DEF Heap, Pointers, NodeType
<1> HIDE DEF old
<1>w. (IF h[parent].first = NULL THEN x ELSE h[parent].first) \in Pointers
  BY <1>1 DEF Heap, NodeType
<1>2. /\ h1 \in [Pointers -> NodeType] /\ h1[NULL] = Server!Freed
      /\ \A a \in Pointers : /\ h1[a].last = h[a].last
                             /\ a # parent => h1[a].first = h[a].first
  BY <1>w, <1>1, PointerIsStored, SMTT(30) DEF Heap
<1> HIDE DEF h1
<1>v. NULL \in Pointers
  BY DEF Pointers
<1>3. /\ h2 \in [Pointers -> NodeType] /\ h2[NULL] = Server!Freed
      /\ \A a \in Pointers : h2[a].last = h1[a].last /\ h2[a].first = h1[a].first
  BY <1>v, <1>1, <1>2, PointerIsStored, SMTT(30)
<1> HIDE DEF h2
<1>4. /\ h3 \in [Pointers -> NodeType] /\ h3[NULL] = Server!Freed
      /\ \A a \in Pointers : h3[a].last = h2[a].last /\ h3[a].first = h2[a].first
  BY <1>1, <1>3, PointerIsStored
<1> HIDE DEF h3
<1>5. /\ h4 \in [Pointers -> NodeType] /\ h4[NULL] = Server!Freed
      /\ \A a \in Pointers : h4[a].last = h3[a].last /\ h4[a].first = h3[a].first
  BY <1>1, <1>4, PointerIsStored
<1> HIDE DEF h4
<1>6. /\ h5 \in [Pointers -> NodeType] /\ h5[NULL] = Server!Freed
      /\ \A a \in Pointers : /\ h5[a].last = (IF a = parent THEN x ELSE h4[a].last)
                             /\ h5[a].first = h4[a].first
  BY <1>1, <1>5, PointerIsStored, SMTT(30)
<1> HIDE DEF h5
<1>7. Heap(h5)
  BY <1>1, <1>2, <1>3, <1>4, <1>5, <1>6 DEF Heap, Pointers
<1>8. Server!AppendCopied(h, parent, x) = h5
  BY DEF Server!AppendCopied, h1, h2, h3, h4, h5, old, NULL, PrevStored, NextStored, FirstStored, LastStored
<1>9. QED
  BY <1>7, <1>8

LEMMA MallocIsFree ==
  ASSUME NEW h, Server!Allocated(h) # Addresses
  PROVE  /\ Server!malloc(h) \in Addresses
         /\ h[Server!malloc(h)].kind = "free"
<1> DEFINE free == Addresses \ Server!Allocated(h)
           P == {n \in Nat : \A k \in 0 .. n : k \notin free}
<1>1. free # {} /\ free \subseteq Nat
  BY NULLIsNoAddress DEF Server!Allocated, Addresses
<1>2. \E a \in free : \A b \in free : a <= b
  <2>1. SUFFICES ASSUME ~ \E a \in free : \A b \in free : a <= b
                 PROVE  FALSE
    OBVIOUS
  <2> HIDE DEF free
  <2>2. 0 \in P
    BY <1>1, <2>1
  <2>3. ASSUME NEW n \in Nat, n \in P
        PROVE  n + 1 \in P
    <3>1. \A b \in free : n + 1 <= b
      BY <1>1, <2>3
    <3>2. n + 1 \notin free
      BY <2>1, <3>1
    <3>3. \A k \in 0 .. n + 1 : k = n + 1 \/ k \in 0 .. n
      OBVIOUS
    <3>4. QED
      BY <2>3, <3>2, <3>3
  <2>4. Nat \subseteq P
    <3> HIDE DEF P
    <3> QED
      BY <2>2, <2>3, SetInduction
  <2>5. PICK a \in free : TRUE
    BY <1>1
  <2>6. a \in P /\ a \in 0 .. a
    BY <1>1, <2>4
  <2>7. QED
    BY <2>6
<1>3. Server!malloc(h) \in free
  BY <1>2, Zenon DEF Server!malloc, free, Addresses
<1>4. QED
  BY <1>3 DEF Server!Allocated, Addresses

\* The nodes seen after one more step from those of a set.
Onward(h, seen) ==
  seen \cup ((UNION {{h[a].first, h[a].next} : a \in seen}) \ {NULL})

LEMMA ReachInSteps ==
  ASSUME NEW h, NEW from
  PROVE  \E step : /\ step[0] = from \ {NULL}
                   /\ \A n \in Nat : n < Memory => step[n + 1] = Onward(h, step[n])
                   /\ Server!Reach(h, from) = step[Memory]
<1> DEFINE Steps(s, m) ==
             s = [n \in 0 .. m |-> IF n = 0 THEN from \ {NULL}
                                   ELSE Onward(h, s[n - 1])]
           P == {m \in Nat : \E s : Steps(s, m)}
<1>1. 0 \in P
  <2>1. Steps([n \in 0 .. 0 |-> from \ {NULL}], 0)
    OBVIOUS
  <2>2. QED
    BY <2>1
<1>2. ASSUME NEW m \in Nat, m \in P
      PROVE  m + 1 \in P
  <2>1. PICK f : Steps(f, m)
    BY <1>2
  <2> DEFINE g == [n \in 0 .. m + 1 |-> IF n = m + 1 THEN Onward(h, f[m]) ELSE f[n]]
  <2>2. ASSUME NEW n \in 0 .. m + 1
        PROVE  g[n] = IF n = 0 THEN from \ {NULL} ELSE Onward(h, g[n - 1])
    <3>1. CASE n = m + 1
      <4>1. n # 0 /\ n - 1 = m /\ m \in 0 .. m + 1 /\ m # m + 1
        BY <3>1
      <4>2. g[n - 1] = f[m]
        BY <4>1
      <4>3. QED
        BY <3>1, <4>1, <4>2
    <3>2. CASE n = 0
      BY <2>1, <3>2
    <3>3. CASE n # 0 /\ n # m + 1
      <4>1. n \in 0 .. m /\ n - 1 \in 0 .. m /\ n - 1 # m + 1 /\ n - 1 \in 0 .. m + 1
        BY <3>3
      <4>2. g[n] = f[n] /\ g[n - 1] = f[n - 1]
        BY <3>3, <4>1
      <4>3. QED
        BY <2>1, <3>3, <4>1, <4>2
    <3>4. QED
      BY <3>1, <3>2, <3>3
  <2>3. g = [n \in 0 .. m + 1 |-> g[n]]
    OBVIOUS
  <2>4. Steps(g, m + 1)
    <3> HIDE DEF g
    <3> QED
      BY <2>2, <2>3
  <2>5. \E s : Steps(s, m + 1)
    <3> HIDE DEF g, Steps
    <3> QED
      BY <2>4
  <2>6. QED
    BY <2>5
<1>3. Nat \subseteq P
  <2> HIDE DEF P
  <2> QED
    BY <1>1, <1>2, SetInduction
<1> DEFINE step == CHOOSE s : Steps(s, Memory)
<1>4. Steps(step, Memory)
  <2>1. \E s : Steps(s, Memory)
    BY <1>3, MemoryAssumption
  <2> HIDE DEF Steps
  <2>2. QED
    BY <2>1, Zenon
<1>5. Server!Reach(h, from) = step[Memory]
  BY Zenon DEF Server!Reach, Onward, NULL
<1> HIDE DEF step
<1>6. step[0] = from \ {NULL}
  BY <1>4, MemoryAssumption
<1>7. ASSUME NEW n \in Nat, n < Memory
      PROVE  step[n + 1] = Onward(h, step[n])
  <2>1. n + 1 \in 0 .. Memory /\ n + 1 # 0 /\ (n + 1) - 1 = n
    BY <1>7, MemoryAssumption
  <2>2. QED
    BY <1>4, <2>1
<1>8. QED
  BY <1>5, <1>6, <1>7

\* Reach is inside of any set that has the beginnings and is closed.
Closed(h, T) ==
  \A a \in T : /\ h[a].first # NULL => h[a].first \in T
               /\ h[a].next # NULL => h[a].next \in T

LEMMA ReachIsLeast ==
  ASSUME NEW h, NEW from, NEW T, from \ {NULL} \subseteq T, Closed(h, T)
  PROVE  Server!Reach(h, from) \subseteq T
<1>1. PICK step : /\ step[0] = from \ {NULL}
                  /\ \A n \in Nat : n < Memory => step[n + 1] = Onward(h, step[n])
                  /\ Server!Reach(h, from) = step[Memory]
  BY ReachInSteps
<1> DEFINE Q == {n \in Nat : n <= Memory => step[n] \subseteq T}
<1>2. 0 \in Q
  BY <1>1
<1>3. ASSUME NEW n \in Nat, n \in Q
      PROVE  n + 1 \in Q
  <2>1. SUFFICES ASSUME n + 1 <= Memory
                 PROVE  step[n + 1] \subseteq T
    OBVIOUS
  <2>2. n < Memory /\ n <= Memory
    BY <2>1, MemoryAssumption
  <2>3. step[n + 1] = Onward(h, step[n]) /\ step[n] \subseteq T
    BY <1>1, <1>3, <2>2
  <2>4. QED
    BY <2>3 DEF Onward, Closed
<1>4. Nat \subseteq Q
  <2> HIDE DEF Q
  <2> QED
    BY <1>2, <1>3, SetInduction
<1>5. QED
  BY <1>1, <1>4, MemoryAssumption

\* Whatever is reached is a node.
LEMMA ReachesAddresses ==
  ASSUME NEW h, Heap(h), NEW from, from \subseteq Pointers
  PROVE  Server!Reach(h, from) \subseteq Addresses
<1>1. from \ {NULL} \subseteq Addresses
  BY DEF Pointers
<1>2. Closed(h, Addresses)
  BY DEF Closed, Heap, Pointers, NodeType
<1>3. QED
  BY <1>1, <1>2, ReachIsLeast
-----------------------------------------------------------------------------
(***************************************************************************)
(* While a network is built, its last layer and neuron are there to be     *)
(* added to, and the layers are those of net; a copy is linked only into   *)
(* what has been allocated.                                                *)
(***************************************************************************)
Places == {"initialise", "ready", "convert", "free", "copy", "evaluate", "crashed"}

ServerTypes ==
  /\ Heap(heap)
  /\ global \in Addresses /\ sums \in Addresses /\ target \in Pointers
  /\ at \in Places
  /\ loop \in [i : Nat, j : Nat, k : Nat]
  /\ current \in [layer : Pointers, neuron : Pointers, weight : Pointers]
  /\ new \in [layer : Pointers, neuron : Pointers, weight : Pointers]
  /\ received \in 0 .. Rounds /\ forgotten \subseteq Addresses

Constructed ==
  /\ heap[target].kind = "net" /\ heap[target].size = Len(net)
  /\ loop.i <= Len(net)
  /\ loop.i > 0 => heap[heap[target].last].kind = "layer"
  /\ loop.j > 0 => /\ loop.i > 0
                   /\ heap[heap[heap[target].last].last].kind = "neuron"

Construction ==
  /\ at \in {"initialise", "convert"} => Constructed
  /\ at = "initialise" => heap[sums].kind = "net" /\ heap[sums].size = Len(net)

Copies ==
  /\ new.layer # NULL => at = "copy" /\ target # NULL
  /\ new.neuron # NULL => new.layer # NULL

MemoryInv == ServerTypes /\ Construction /\ Copies

\* What NULL points to is a node of no kind, so a node of a kind is not NULL.
LEMMA KindIsNotNULL ==
  ASSUME NEW h, Heap(h), NEW a \in Pointers, h[a].kind # "free"
  PROVE  a \in Addresses
BY FreedNode DEF Heap, Pointers

LEMMA HeapPointers ==
  ASSUME NEW h, Heap(h), NEW a \in Pointers
  PROVE  /\ h[a].next \in Pointers /\ h[a].prev \in Pointers
         /\ h[a].first \in Pointers /\ h[a].last \in Pointers
         /\ h[a].size \in Nat /\ h[a].kind \in Kinds
BY DEF Heap, NodeType

LEMMA MemoryIsTyped ==
  ASSUME MemoryInv
  PROVE  Server!MemoryTypeOK
<1>1. ServerTypes
  BY DEF MemoryInv
<1>2. /\ heap \in [Server!Addresses \cup {Server!NULL} ->
                [kind : {"net", "layer", "neuron", "weight", "free"}, size : Nat,
                 next : {Server!NULL} \cup Server!Addresses,
                 prev : {Server!NULL} \cup Server!Addresses,
                 first : {Server!NULL} \cup Server!Addresses,
                 last : {Server!NULL} \cup Server!Addresses]]
      /\ heap[Server!NULL] = Server!Freed
  <2>1. Pointers = {Server!NULL} \cup Server!Addresses
    BY DEF Pointers, NULL, Addresses
  <2>2. heap \in [Pointers -> NodeType] /\ heap[NULL] = Server!Freed
    BY <1>1 DEF ServerTypes, Heap
  <2>3. NodeType = [kind : Kinds, size : Nat,
                 next : {Server!NULL} \cup Server!Addresses,
                 prev : {Server!NULL} \cup Server!Addresses,
                 first : {Server!NULL} \cup Server!Addresses,
                 last : {Server!NULL} \cup Server!Addresses]
    BY <2>1, Zenon DEF NodeType
  <2>4. Pointers = Server!Addresses \cup {Server!NULL}
    BY DEF Pointers, NULL, Addresses
  <2>5. QED
    BY <2>2, <2>3, <2>4, Zenon DEF Kinds, NULL
<1>3. /\ {global, sums} \subseteq Server!Addresses
      /\ target \in {Server!NULL} \cup Server!Addresses
      /\ at \in Places
      /\ loop \in [i : Nat, j : Nat, k : Nat]
      /\ {current.layer, current.neuron, current.weight}
           \subseteq {Server!NULL} \cup Server!Addresses
      /\ {new.layer, new.neuron, new.weight}
           \subseteq {Server!NULL} \cup Server!Addresses
      /\ received \in 0 .. Rounds /\ forgotten \subseteq Server!Addresses
  BY <1>1 DEF ServerTypes, Pointers, NULL, Addresses
<1>4. QED
  BY <1>2, <1>3, Zenon DEF Server!MemoryTypeOK, Places

LEMMA InitMemory == Server!MemoryInit /\ net \in Shapes => MemoryInv
<1> SUFFICES ASSUME Server!MemoryInit, net \in Shapes
             PROVE  MemoryInv
  OBVIOUS
<1> DEFINE n == Server!Node("net", Len(net))
<1>1. Len(net) \in Nat /\ 1 \in Addresses /\ 2 \in Addresses /\ "net" \in Kinds
  BY ShapesAssumption, MemoryAssumption DEF Addresses, Server!Addresses, Kinds
<1>2. n \in NodeType /\ n.kind = "net" /\ n.size = Len(net) /\ n.first = NULL
  BY <1>1, NewNode
<1>3. heap = [a \in Pointers |-> IF a \in {1, 2} THEN n ELSE Server!Freed]
  BY DEF Server!MemoryInit, Pointers, NULL, Addresses
<1> HIDE DEF n
<1>4. NULL # 1 /\ NULL # 2 /\ NULL \in Pointers
  BY DEF NULL, Server!NULL, Pointers
<1>5. Heap(heap)
  BY <1>2, <1>3, <1>4, FreedNode DEF Heap, Pointers
<1>6. heap[1] = n /\ heap[2] = n
  BY <1>1, <1>3 DEF Pointers
<1>7. ServerTypes
  BY <1>1, <1>4, <1>5, SizesAssumption
     DEF ServerTypes, Server!MemoryInit, Places, Server!noloop, Server!nowhere,
         Pointers, NULL
<1>8. Construction
  BY <1>1, <1>2, <1>6
     DEF Construction, Constructed, Server!MemoryInit, Server!noloop
<1>9. Copies
  BY DEF Copies, Server!MemoryInit, Server!nowhere, NULL
<1>10. QED
  BY <1>7, <1>8, <1>9 DEF MemoryInv

\* One more node at the end of a list.
LEMMA NodeIsAdded ==
  ASSUME Heap(heap), NEW parent \in Pointers, heap[parent].kind # "free",
         NEW kind \in Kinds, NEW size \in Nat, Server!Add(parent, kind, size)
  PROVE  \E x \in Addresses :
           /\ heap[x].kind = "free"
           /\ Heap(heap')
           /\ heap'[parent].last = x /\ heap'[x].kind = kind
           /\ \A a \in Pointers : a # x =>
                /\ heap'[a].kind = heap[a].kind /\ heap'[a].size = heap[a].size
                /\ a # parent => heap'[a].last = heap[a].last
<1> DEFINE x == Server!malloc(heap)
           h == [heap EXCEPT ![x] = Server!Node(kind, size)]
<1>1. /\ Server!Allocated(heap) # Addresses
      /\ heap' = Server!AppendBuilt(h, parent, x)
  BY DEF Server!Add, Server!HasRoom, Addresses
<1>2. x \in Addresses /\ heap[x].kind = "free"
  BY <1>1, MallocIsFree
<1>3. parent \in Addresses /\ parent # x
  BY <1>2, KindIsNotNULL
<1> HIDE DEF x
<1> DEFINE n == Server!Node(kind, size)
<1>4. n \in NodeType /\ n.kind = kind /\ n.first = NULL
  BY NewNode
<1> HIDE DEF n
<1>5. Heap([heap EXCEPT ![x] = n])
  BY <1>2, <1>4, NodeIsPut
<1>6. Heap(h)
  BY <1>5 DEF n
<1>7. x \in Pointers /\ \A a \in Pointers : h[a] = IF a = x THEN n ELSE heap[a]
  BY <1>2 DEF Heap, Pointers, n
<1> HIDE DEF h
<1>8. /\ Heap(heap') /\ heap'[parent].last = x
      /\ \A a \in Pointers :
           /\ heap'[a].kind = h[a].kind /\ heap'[a].size = h[a].size
           /\ a # parent => heap'[a].last = h[a].last
  BY <1>1, <1>2, <1>3, <1>6, BuiltIsHeap, SMTT(30)
<1>9. heap'[x].kind = kind
  BY <1>4, <1>7, <1>8
<1>10. QED
  BY <1>2, <1>7, <1>8, <1>9

LEMMA LayersOfNet ==
  ASSUME net \in Shapes
  PROVE  Len(net) \in Nat /\ \A i \in 1 .. Len(net) : net[i] \in Nat
BY ShapesAssumption

LEMMA LoopGoesOn ==
  ASSUME NEW l \in [i : Nat, j : Nat, k : Nat]
  PROVE  /\ [l EXCEPT !.j = l.j + 1] \in [i : Nat, j : Nat, k : Nat]
         /\ [l EXCEPT !.k = 0] \in [i : Nat, j : Nat, k : Nat]
         /\ [l EXCEPT !.j = l.j + 1].i = l.i /\ [l EXCEPT !.k = 0].i = l.i
OBVIOUS

\* The network that is being built gets a layer, a neuron or a weight.
LEMMA BuildingKeepsInv ==
  ASSUME MemoryInv, net \in Shapes, net' = net,
         at \in {"initialise", "convert"},
         Server!AddLayer \/ Server!AddNeuron \/ Server!AddWeight,
         Server!Building
  PROVE  MemoryInv'
<1>0. /\ ServerTypes /\ Constructed /\ Heap(heap) /\ Copies
      /\ at = "initialise" => heap[sums].kind = "net" /\ heap[sums].size = Len(net)
      /\ loop.i \in Nat /\ loop.j \in Nat /\ loop.k \in Nat
      /\ target \in Pointers /\ sums \in Pointers
  BY DEF MemoryInv, Construction, ServerTypes, Pointers
<1>1. /\ global' = global /\ sums' = sums /\ at' = at /\ target' = target
      /\ current' = current /\ new' = new /\ received' = received
      /\ forgotten' = forgotten
  BY DEF Server!Building
<1>2. Len(net) \in Nat /\ \A i \in 1 .. Len(net) : net[i] \in Nat
  BY LayersOfNet
<1> DEFINE lastLayer == heap[target].last
           lastNeuron == heap[lastLayer].last
<1>3. lastLayer \in Pointers /\ lastNeuron \in Pointers
  BY <1>0, HeapPointers
<1>4. {"net", "layer", "neuron", "weight"} \subseteq Kinds
  BY DEF Kinds
<1>5. SUFFICES /\ Heap(heap') /\ loop' \in [i : Nat, j : Nat, k : Nat]
               /\ heap'[target].kind = "net" /\ heap'[target].size = Len(net)
               /\ loop'.i <= Len(net)
               /\ loop'.i > 0 => heap'[heap'[target].last].kind = "layer"
               /\ loop'.j > 0 =>
                    /\ loop'.i > 0
                    /\ heap'[heap'[heap'[target].last].last].kind = "neuron"
               /\ at = "initialise" =>
                    heap'[sums].kind = "net" /\ heap'[sums].size = Len(net)
  BY <1>0, <1>1
     DEF MemoryInv, ServerTypes, Construction, Constructed, Copies
<1>6. CASE Server!AddLayer
  <2>1. /\ Server!Add(target, "layer", net[loop.i + 1])
        /\ loop' = [i |-> loop.i + 1, j |-> 0, k |-> 0]
        /\ loop.i < heap[target].size
    BY <1>6 DEF Server!AddLayer
  <2>2. net[loop.i + 1] \in Nat
    BY <1>0, <1>2, <2>1 DEF Constructed
  <2>3. PICK x \in Addresses :
           /\ heap[x].kind = "free"
           /\ Heap(heap')
           /\ heap'[target].last = x /\ heap'[x].kind = "layer"
           /\ \A a \in Pointers : a # x =>
                /\ heap'[a].kind = heap[a].kind /\ heap'[a].size = heap[a].size
                /\ a # target => heap'[a].last = heap[a].last
    BY <1>0, <1>4, <2>1, <2>2, NodeIsAdded DEF Constructed
  <2>4. target # x /\ (at = "initialise" => sums # x)
    BY <1>0, <2>3 DEF Constructed
  <2>5. QED
    BY <1>0, <1>2, <2>1, <2>3, <2>4 DEF Constructed
<1>7. CASE Server!AddNeuron
  <2> DEFINE size == IF loop.i = 1 THEN 0 ELSE net[loop.i - 1]
  <2>1. /\ Server!Add(lastLayer, "neuron", size)
        /\ loop' = [loop EXCEPT !.j = @ + 1, !.k = 0]
        /\ loop.i > 0
    BY <1>7 DEF Server!AddNeuron, Server!LastLayer
  <2>2. size \in Nat
    BY <1>0, <1>2, <2>1 DEF Constructed
  <2> HIDE DEF size
  <2>3. heap[lastLayer].kind = "layer"
    BY <1>0, <2>1 DEF Constructed
  <2>4. PICK x \in Addresses :
           /\ heap[x].kind = "free"
           /\ Heap(heap')
           /\ heap'[lastLayer].last = x /\ heap'[x].kind = "neuron"
           /\ \A a \in Pointers : a # x =>
                /\ heap'[a].kind = heap[a].kind /\ heap'[a].size = heap[a].size
                /\ a # lastLayer => heap'[a].last = heap[a].last
    BY <1>0, <1>3, <1>4, <2>1, <2>2, <2>3, NodeIsAdded
  <2>5. /\ target # x /\ lastLayer # x /\ target # lastLayer
        /\ at = "initialise" => sums # x
    BY <1>0, <2>3, <2>4 DEF Constructed
  <2>6. heap'[target].last = lastLayer /\ heap'[lastLayer].kind = "layer"
    BY <1>0, <1>3, <2>3, <2>4, <2>5
  <2>7. loop' \in [i : Nat, j : Nat, k : Nat] /\ loop'.i = loop.i
    <3>1. loop \in [i : Nat, j : Nat, k : Nat]
      BY <1>0 DEF ServerTypes
    <3> DEFINE l == [loop EXCEPT !.j = loop.j + 1]
    <3>2. l \in [i : Nat, j : Nat, k : Nat] /\ l.i = loop.i
      BY <3>1, LoopGoesOn
    <3> HIDE DEF l
    <3>3. [l EXCEPT !.k = 0] \in [i : Nat, j : Nat, k : Nat] /\ [l EXCEPT !.k = 0].i = l.i
      BY <3>2, LoopGoesOn
    <3>4. loop' = [l EXCEPT !.k = 0]
      BY <2>1 DEF l
    <3>5. QED
      BY <3>2, <3>3, <3>4
  <2>8. QED
    BY <1>0, <2>1, <2>4, <2>5, <2>6, <2>7 DEF Constructed
<1>8. CASE Server!AddWeight
  <2>1. /\ Server!Add(lastNeuron, "weight", 0)
        /\ loop' = [loop EXCEPT !.k = @ + 1]
        /\ loop.j > 0
    BY <1>8 DEF Server!AddWeight, Server!LastNeuron, Server!LastLayer
  <2>2. heap[lastLayer].kind = "layer" /\ heap[lastNeuron].kind = "neuron" /\ loop.i > 0
    BY <1>0, <2>1 DEF Constructed
  <2>3. PICK x \in Addresses :
           /\ heap[x].kind = "free"
           /\ Heap(heap')
           /\ heap'[lastNeuron].last = x /\ heap'[x].kind = "weight"
           /\ \A a \in Pointers : a # x =>
                /\ heap'[a].kind = heap[a].kind /\ heap'[a].size = heap[a].size
                /\ a # lastNeuron => heap'[a].last = heap[a].last
    BY <1>0, <1>3, <1>4, <2>1, <2>2, NodeIsAdded
  <2>4. /\ target # x /\ lastLayer # x /\ lastNeuron # x
        /\ target # lastNeuron /\ lastLayer # lastNeuron
        /\ at = "initialise" => sums # x
    BY <1>0, <2>2, <2>3 DEF Constructed
  <2>5. heap'[target].last = lastLayer /\ heap'[lastLayer].last = lastNeuron
    BY <1>0, <1>3, <2>3, <2>4
  <2>6. heap'[lastLayer].kind = "layer" /\ heap'[lastNeuron].kind = "neuron"
    BY <1>3, <2>2, <2>3, <2>4
  <2>7. /\ loop' \in [i : Nat, j : Nat, k : Nat]
        /\ loop'.i = loop.i /\ loop'.j = loop.j
    <3>1. loop \in [i : Nat, j : Nat, k : Nat]
      BY <1>0 DEF ServerTypes
    <3>2. QED
      BY <2>1, <3>1
  <2>8. QED
    BY <1>0, <2>2, <2>3, <2>4, <2>5, <2>6, <2>7 DEF Constructed
<1>9. QED
  BY <1>6, <1>7, <1>8

\* A node is allocated, not yet linked.
LEMMA NodeIsAllocated ==
  ASSUME Heap(heap), NEW kind \in Kinds, NEW size \in Nat, Server!HasRoom,
         heap' = [heap EXCEPT ![Server!malloc(heap)] = Server!Node(kind, size)]
  PROVE  /\ Server!malloc(heap) \in Addresses /\ Heap(heap')
         /\ heap'[Server!malloc(heap)].kind = kind
         /\ heap'[Server!malloc(heap)].size = size
<1> DEFINE x == Server!malloc(heap)
<1>1. x \in Addresses
  BY MallocIsFree DEF Server!HasRoom, Addresses
<1> HIDE DEF x
<1> DEFINE n == Server!Node(kind, size)
<1>2. /\ n \in NodeType /\ n.kind = kind /\ n.size = size /\ n.first = NULL
  BY NewNode
<1> HIDE DEF n
<1>3. heap' = [heap EXCEPT ![x] = n]
  BY DEF n, x
<1>4. Heap([heap EXCEPT ![x] = n])
  BY <1>1, <1>2, NodeIsPut
<1>5. heap'[x] = n
  BY <1>1, <1>3 DEF Heap, Pointers
<1>6. QED
  BY <1>1, <1>2, <1>3, <1>4, <1>5 DEF x

LEMMA InitialisedKeepsInv ==
  ASSUME MemoryInv, net \in Shapes, net' = net, Server!Initialised
  PROVE  MemoryInv'
<1>1. CASE target = global
  BY <1>1, LayersOfNet
     DEF MemoryInv, ServerTypes, Construction, Constructed, Copies, Places,
         Server!Initialised, Server!noloop, Pointers
<1>2. CASE target # global
  BY <1>2
     DEF MemoryInv, ServerTypes, Construction, Constructed, Copies, Places,
         Server!Initialised, Server!noloop, Pointers, NULL
<1>3. QED
  BY <1>1, <1>2

LEMMA ReceiveKeepsInv ==
  ASSUME MemoryInv, net \in Shapes, net' = net, Server!ReceiveUpdate
  PROVE  MemoryInv'
<1>1. /\ at = "ready" /\ received < Rounds /\ Server!HasRoom
      /\ received' = received + 1 /\ target' = Server!malloc(heap)
      /\ heap' = [heap EXCEPT ![target'] = Server!Node("net", Len(net))]
      /\ loop' = Server!noloop /\ at' = "convert"
      /\ global' = global /\ sums' = sums /\ current' = current /\ new' = new
      /\ forgotten' = forgotten
  BY DEF Server!ReceiveUpdate
<1>2. Len(net) \in Nat /\ "net" \in Kinds
  BY LayersOfNet DEF Kinds
<1>3. /\ target' \in Addresses /\ Heap(heap')
      /\ heap'[target'].kind = "net" /\ heap'[target'].size = Len(net)
  <2>1. Heap(heap)
    BY DEF MemoryInv, ServerTypes
  <2>2. QED
    BY <1>1, <1>2, <2>1, NodeIsAllocated
<1>4. received' \in 0 .. Rounds
  BY <1>1, SizesAssumption DEF MemoryInv, ServerTypes
<1>5. ServerTypes'
  BY <1>1, <1>3, <1>4
     DEF MemoryInv, ServerTypes, Places, Server!noloop, Pointers
<1>6. Construction' /\ Copies'
  BY <1>1, <1>2, <1>3
     DEF MemoryInv, ServerTypes, Construction, Constructed, Copies, Server!noloop
<1>7. QED
  BY <1>5, <1>6 DEF MemoryInv

\* An update is summed, or its conversion fails: its nodes are forgotten.
LEMMA ForgetKeepsTypes ==
  ASSUME MemoryInv, Server!Forget
  PROVE  forgotten' \subseteq Addresses /\ target' = NULL
<1>1. {target} \subseteq Pointers /\ Heap(heap) /\ forgotten \subseteq Addresses
  BY DEF MemoryInv, ServerTypes
<1>2. Server!Reach(heap, {target}) \subseteq Addresses
  BY <1>1, ReachesAddresses
<1>3. QED
  BY <1>1, <1>2 DEF Server!Forget, NULL

LEMMA UpdateEndKeepsInv ==
  ASSUME MemoryInv, net' = net, Server!ConvertFails \/ Server!Aggregate
  PROVE  MemoryInv'
<1>1. /\ Server!Forget /\ at = "convert" /\ at' \in {"ready", "free"}
      /\ heap' = heap /\ global' = global /\ sums' = sums /\ loop' = loop
      /\ new' = new /\ received' = received
  BY DEF Server!ConvertFails, Server!Aggregate
<1>2. forgotten' \subseteq Addresses /\ target' = NULL
  BY <1>1, ForgetKeepsTypes
<1>3. Heap(heap) /\ global \in Pointers
  BY DEF MemoryInv, ServerTypes, Pointers
<1>4. current' \in [layer : Pointers, neuron : Pointers, weight : Pointers]
  <2>1. current \in [layer : Pointers, neuron : Pointers, weight : Pointers]
    BY DEF MemoryInv, ServerTypes
  <2>2. /\ heap[global].first \in Pointers
        /\ heap[heap[global].first].first \in Pointers
        /\ NULL \in Pointers
    BY <1>3, HeapPointers DEF Pointers
  <2>3. \/ current' = current
        \/ current' = [layer |-> heap[global].first,
                       neuron |-> heap[heap[global].first].first, weight |-> NULL]
    BY DEF Server!ConvertFails, Server!Aggregate, Server!nowhere, NULL
  <2>4. QED
    BY <2>1, <2>2, <2>3
<1>5. ServerTypes'
  BY <1>1, <1>2, <1>4 DEF MemoryInv, ServerTypes, Places, Pointers
<1>6. Construction' /\ Copies'
  BY <1>1 DEF MemoryInv, Construction, Copies
<1>7. QED
  BY <1>5, <1>6 DEF MemoryInv

LEMMA CursorMoves ==
  ASSUME NEW c \in [layer : Pointers, neuron : Pointers, weight : Pointers],
         NEW p \in Pointers, NEW q \in Pointers
  PROVE  /\ [c EXCEPT !.layer = p] \in [layer : Pointers, neuron : Pointers, weight : Pointers]
         /\ [c EXCEPT !.neuron = p] \in [layer : Pointers, neuron : Pointers, weight : Pointers]
         /\ [c EXCEPT !.weight = p] \in [layer : Pointers, neuron : Pointers, weight : Pointers]
         /\ [c EXCEPT !.neuron = p, !.weight = q]
              \in [layer : Pointers, neuron : Pointers, weight : Pointers]
OBVIOUS

\* freeNeuralNetwork frees nodes only: the NULL behind a list is of no kind.
LEMMA FreeKeepsInv ==
  ASSUME MemoryInv,
         \/ Server!FreeWeight \/ Server!FreeNeuron \/ Server!FreeLayer
         \/ Server!FreeNetwork \/ Server!TouchFreed
  PROVE  MemoryInv'
<1>0. /\ Heap(heap) /\ global \in Pointers /\ sums \in Pointers /\ NULL \in Pointers
      /\ current \in [layer : Pointers, neuron : Pointers, weight : Pointers]
  BY DEF MemoryInv, ServerTypes, Pointers
<1>1. /\ at = "free" /\ at' \in Places \ {"initialise", "convert"}
      /\ global' = global /\ sums' = sums /\ loop' = loop /\ new' = new
      /\ received' = received /\ forgotten' = forgotten
      /\ target' \in {target, NULL}
      /\ heap' = heap \/ \E kind \in {"weight", "neuron", "layer", "net"} : Server!FreeNode(kind)
  BY DEF Server!FreeWeight, Server!FreeNeuron, Server!FreeLayer, Server!FreeNetwork,
         Server!TouchFreed, Server!FreeNode, Places, NULL
<1>2. Server!Innermost \in Pointers
  BY <1>0 DEF Server!Innermost
<1>3. Heap(heap')
  <2>1. CASE heap' = heap
    BY <1>0, <2>1
  <2>2. ASSUME NEW kind \in {"weight", "neuron", "layer", "net"}, Server!FreeNode(kind)
        PROVE  Heap(heap')
    <3>1. /\ heap[Server!Innermost].kind = kind
          /\ heap' = [heap EXCEPT ![Server!Innermost] = Server!Freed]
      BY <2>2 DEF Server!FreeNode
    <3>2. Server!Innermost \in Addresses
      BY <1>0, <1>2, <3>1, KindIsNotNULL
    <3> HIDE DEF Server!Innermost
    <3>3. QED
      BY <1>0, <3>1, <3>2, FreedNode, NodeIsPut
  <2>3. QED
    BY <1>1, <2>1, <2>2
<1>4. Server!Successor \in Pointers
  BY <1>0, <1>2, HeapPointers DEF Server!Successor
<1>5. /\ heap[Server!Successor].first \in Pointers
      /\ heap[heap[Server!Successor].first].first \in Pointers
      /\ heap[sums].first \in Pointers
  BY <1>0, <1>4, HeapPointers
<1>6. current' \in [layer : Pointers, neuron : Pointers, weight : Pointers]
  <2>1. CASE Server!FreeWeight
    BY <1>0, <1>4, <2>1, CursorMoves DEF Server!FreeWeight
  <2>2. CASE Server!FreeNeuron
    BY <1>0, <1>4, <1>5, <2>2, CursorMoves DEF Server!FreeNeuron
  <2>3. CASE Server!FreeLayer
    BY <1>4, <1>5, <2>3 DEF Server!FreeLayer
  <2>4. CASE Server!FreeNetwork
    BY <1>0, <1>5, <2>4 DEF Server!FreeNetwork, Server!nowhere, NULL
  <2>5. CASE Server!TouchFreed
    BY <1>0, <2>5 DEF Server!TouchFreed
  <2>6. QED
    BY <2>1, <2>2, <2>3, <2>4, <2>5
<1>7. ServerTypes'
  BY <1>1, <1>3, <1>6 DEF MemoryInv, ServerTypes, Pointers
<1>8. Construction' /\ Copies'
  BY <1>1 DEF MemoryInv, Construction, Copies
<1>9. QED
  BY <1>7, <1>8 DEF MemoryInv

\* A copy begins with the network itself.
LEMMA CopyNetworkKeepsInv ==
  ASSUME MemoryInv, Server!CopyNetwork \/ Server!NetworkCopied \/ Server!PerformanceMetrics
  PROVE  MemoryInv'
<1>0. Heap(heap) /\ sums \in Pointers /\ "net" \in Kinds
  BY DEF MemoryInv, ServerTypes, Pointers, Kinds
<1>1. CASE Server!CopyNetwork
  <2>1. /\ at = "copy" /\ at' = at /\ Server!HasRoom
        /\ target' = Server!malloc(heap)
        /\ heap' = [heap EXCEPT ![target'] = Server!Node("net", heap[sums].size)]
        /\ global' = global /\ sums' = sums /\ loop' = loop /\ new' = new
        /\ received' = received /\ forgotten' = forgotten /\ current' = current
    BY <1>1 DEF Server!CopyNetwork
  <2>2. heap[sums].size \in Nat
    BY <1>0, HeapPointers
  <2>3. target' \in Addresses /\ Heap(heap')
    BY <1>0, <2>1, <2>2, NodeIsAllocated
  <2>4. ServerTypes'
    BY <2>1, <2>3 DEF MemoryInv, ServerTypes, Pointers
  <2>5. Construction' /\ Copies'
    BY <2>1, <2>3, NULLIsNoAddress DEF MemoryInv, Construction, Copies
  <2>6. QED
    BY <2>4, <2>5 DEF MemoryInv
<1>2. CASE Server!NetworkCopied
  <2>1. /\ at = "copy" /\ target # NULL /\ new.layer = NULL
        /\ global' = target /\ target' = NULL /\ at' = "evaluate"
        /\ heap' = heap /\ sums' = sums /\ loop' = loop /\ current' = current
        /\ new' = new /\ received' = received /\ forgotten' = forgotten
    BY <1>2 DEF Server!NetworkCopied, NULL
  <2>2. ServerTypes'
    BY <2>1 DEF MemoryInv, ServerTypes, Pointers, Places
  <2>3. Construction' /\ Copies'
    BY <2>1 DEF MemoryInv, Construction, Copies
  <2>4. QED
    BY <2>2, <2>3 DEF MemoryInv
<1>3. CASE Server!PerformanceMetrics
  <2>1. /\ at = "evaluate" /\ at' \in {"ready", "crashed"}
        /\ heap' = heap /\ global' = global /\ target' = target
        /\ sums' = sums /\ loop' = loop /\ current' = current
        /\ new' = new /\ received' = received /\ forgotten' = forgotten
    BY <1>3 DEF Server!PerformanceMetrics
  <2>2. ServerTypes'
    BY <2>1 DEF MemoryInv, ServerTypes, Places
  <2>3. Construction' /\ Copies'
    BY <2>1 DEF MemoryInv, Construction, Copies
  <2>4. QED
    BY <2>2, <2>3 DEF MemoryInv
<1>4. QED
  BY <1>1, <1>2, <1>3

\* Layers, neurons and weights are copied and linked.
LEMMA CopyingKeepsInv ==
  ASSUME MemoryInv,
         \/ Server!CopyLayer \/ Server!CopyNeuron \/ Server!CopyWeight
         \/ Server!NeuronCopied \/ Server!LayerCopied
  PROVE  MemoryInv'
<1> DEFINE Cursors == [layer : Pointers, neuron : Pointers, weight : Pointers]
<1>0. /\ Heap(heap) /\ NULL \in Pointers /\ target \in Pointers
      /\ current \in Cursors /\ new \in Cursors
      /\ {"layer", "neuron", "weight"} \subseteq Kinds
  BY DEF MemoryInv, ServerTypes, Pointers, Kinds
<1>1. /\ current.layer \in Pointers /\ current.neuron \in Pointers
      /\ current.weight \in Pointers
      /\ new.layer \in Pointers /\ new.neuron \in Pointers
  BY <1>0
<1>2. /\ at = "copy" /\ at' = at /\ global' = global /\ sums' = sums
      /\ target' = target /\ loop' = loop /\ received' = received
      /\ forgotten' = forgotten
  BY DEF Server!CopyLayer, Server!CopyNeuron, Server!CopyWeight,
         Server!NeuronCopied, Server!LayerCopied, Server!Copying
<1>3. SUFFICES /\ Heap(heap') /\ current' \in Cursors /\ new' \in Cursors
               /\ new'.layer # NULL => target # NULL
               /\ new'.neuron # NULL => new'.layer # NULL
  BY <1>2 DEF MemoryInv, ServerTypes, Construction, Copies
<1>4. ASSUME NEW p \in Pointers
      PROVE  /\ heap[p].first \in Pointers /\ heap[p].next \in Pointers
             /\ heap[p].size \in Nat
  BY <1>0, HeapPointers
<1>5. /\ new.layer # NULL => new.layer \in Addresses /\ target \in Addresses
      /\ new.neuron # NULL => new.neuron \in Addresses /\ new.layer # NULL
  BY <1>0, <1>1 DEF MemoryInv, Copies, Pointers
<1>6. CASE Server!CopyLayer
  <2>1. /\ target # NULL /\ Server!HasRoom
        /\ new' = [new EXCEPT !.layer = Server!malloc(heap)]
        /\ heap' = [heap EXCEPT ![new'.layer] = Server!Node("layer", heap[current.layer].size)]
        /\ current' = [current EXCEPT !.neuron = heap[current.layer].first]
    BY <1>6 DEF Server!CopyLayer, NULL
  <2>2. new'.layer = Server!malloc(heap) /\ new'.neuron = new.neuron
    BY <1>0, <2>1
  <2>3. Heap(heap') /\ new'.layer \in Addresses
    BY <1>0, <1>1, <1>4, <2>1, <2>2, NodeIsAllocated
  <2>4. current' \in Cursors
    BY <1>0, <1>1, <1>4, <2>1, CursorMoves
  <2>5. new' \in Cursors
    BY <1>0, <2>1, <2>2, <2>3, CursorMoves DEF Pointers
  <2>6. QED
    BY <2>1, <2>3, <2>4, <2>5, NULLIsNoAddress
<1>7. CASE Server!CopyNeuron
  <2>1. /\ new.layer # NULL /\ Server!HasRoom
        /\ new' = [new EXCEPT !.neuron = Server!malloc(heap)]
        /\ heap' = [heap EXCEPT ![new'.neuron] = Server!Node("neuron", heap[current.neuron].size)]
        /\ current' = [current EXCEPT !.weight = heap[current.neuron].first]
    BY <1>7 DEF Server!CopyNeuron, NULL
  <2>2. new'.neuron = Server!malloc(heap) /\ new'.layer = new.layer
    BY <1>0, <2>1
  <2>3. Heap(heap') /\ new'.neuron \in Addresses
    BY <1>0, <1>1, <1>4, <2>1, <2>2, NodeIsAllocated
  <2>4. current' \in Cursors
    BY <1>0, <1>1, <1>4, <2>1, CursorMoves
  <2>5. new' \in Cursors
    BY <1>0, <2>1, <2>2, <2>3, CursorMoves DEF Pointers
  <2>6. QED
    BY <1>5, <2>1, <2>2, <2>3, <2>4, <2>5, NULLIsNoAddress
<1>8. CASE Server!CopyWeight
  <2> DEFINE x == Server!malloc(heap)
             h == [heap EXCEPT ![x] = Server!Node("weight", 0)]
  <2>1. /\ new.neuron # NULL /\ Server!HasRoom
        /\ heap' = Server!AppendCopied(h, new.neuron, x)
        /\ current' = [current EXCEPT !.weight = heap[current.weight].next]
        /\ new' = new
    BY <1>8 DEF Server!CopyWeight, NULL
  <2>2. x \in Addresses
    BY <2>1, MallocIsFree DEF Server!HasRoom, Addresses
  <2> HIDE DEF x
  <2>3. Heap(h)
    BY <1>0, <2>2, NewNode, NodeIsPut
  <2> HIDE DEF h
  <2>4. Heap(heap')
    BY <1>5, <2>1, <2>2, <2>3, CopiedIsHeap
  <2>5. current' \in Cursors
    BY <1>0, <1>1, <1>4, <2>1, CursorMoves
  <2>6. QED
    BY <1>0, <1>5, <2>1, <2>4, <2>5, NULLIsNoAddress
<1>9. CASE Server!NeuronCopied
  <2>1. /\ new.neuron # NULL
        /\ heap' = Server!AppendCopied(heap, new.layer, new.neuron)
        /\ current' = [current EXCEPT !.neuron = heap[current.neuron].next]
        /\ new' = [new EXCEPT !.neuron = NULL]
    BY <1>9 DEF Server!NeuronCopied, NULL
  <2>2. Heap(heap')
    BY <1>0, <1>5, <2>1, CopiedIsHeap
  <2>3. current' \in Cursors
    BY <1>0, <1>1, <1>4, <2>1, CursorMoves
  <2>4. new' \in Cursors
    BY <1>0, <2>1, CursorMoves
  <2>5. new'.layer = new.layer /\ new'.neuron = NULL
    BY <1>0, <2>1
  <2>6. QED
    BY <1>5, <2>2, <2>3, <2>4, <2>5, NULLIsNoAddress
<1>10. CASE Server!LayerCopied
  <2>1. /\ new.layer # NULL /\ new.neuron = NULL
        /\ heap' = Server!AppendCopied(heap, target, new.layer)
        /\ current' = [current EXCEPT !.layer = heap[current.layer].next]
        /\ new' = [new EXCEPT !.layer = NULL]
    BY <1>10 DEF Server!LayerCopied, NULL
  <2>2. Heap(heap')
    BY <1>0, <1>5, <2>1, CopiedIsHeap
  <2>3. current' \in Cursors
    BY <1>0, <1>1, <1>4, <2>1, CursorMoves
  <2>4. new' \in Cursors
    BY <1>0, <2>1, CursorMoves
  <2>5. new'.layer = NULL /\ new'.neuron = NULL
    BY <1>0, <2>1
  <2>6. QED
    BY <2>2, <2>3, <2>4, <2>5
<1>11. QED
  BY <1>6, <1>7, <1>8, <1>9, <1>10

LEMMA MemoryStays ==
  ASSUME MemoryInv, net' = net, UNCHANGED serverVars
  PROVE  MemoryInv'
<1>1. /\ heap' = heap /\ global' = global /\ sums' = sums /\ at' = at
      /\ target' = target /\ loop' = loop /\ current' = current /\ new' = new
      /\ received' = received /\ forgotten' = forgotten
  BY DEF serverVars
<1>2. QED
  BY <1>1 DEF MemoryInv, ServerTypes, Construction, Constructed, Copies

LEMMA MemoryStepKeepsInv ==
  ASSUME MemoryInv, net \in Shapes, net' = net, Server!MemoryStep
  PROVE  MemoryInv'
<1>1. CASE Server!NewLayer \/ Server!NewNeuron \/ Server!NewWeight
  BY <1>1, BuildingKeepsInv DEF Server!NewLayer, Server!NewNeuron, Server!NewWeight
<1>2. CASE Server!ConvertLayer \/ Server!ConvertNeuron \/ Server!ConvertWeight
  BY <1>2, BuildingKeepsInv
     DEF Server!ConvertLayer, Server!ConvertNeuron, Server!ConvertWeight
<1>3. CASE Server!Initialised
  BY <1>3, InitialisedKeepsInv
<1>4. CASE Server!ConvertFails \/ Server!Aggregate
  BY <1>4, UpdateEndKeepsInv
<1>5. CASE \/ Server!FreeWeight \/ Server!FreeNeuron \/ Server!FreeLayer
           \/ Server!FreeNetwork \/ Server!TouchFreed
  BY <1>5, FreeKeepsInv
<1>6. CASE \/ Server!CopyNetwork \/ Server!NetworkCopied \/ Server!PerformanceMetrics
  BY <1>6, CopyNetworkKeepsInv
<1>7. CASE \/ Server!CopyLayer \/ Server!CopyNeuron \/ Server!CopyWeight
           \/ Server!NeuronCopied \/ Server!LayerCopied
  BY <1>7, CopyingKeepsInv
<1>8. QED
  BY <1>1, <1>2, <1>3, <1>4, <1>5, <1>6, <1>7 DEF Server!MemoryStep, Server!ConvertStep
-----------------------------------------------------------------------------
(***************************************************************************)
(* The cycle of both.                                                      *)
(***************************************************************************)
LEMMA NetIsKept == [TrainNext]_trainVars => net' = net
BY DEF TrainNext, TrainStep, trainVars, ReplaceNeuralNetwork, OpenForTraining,
       EpochsDone, OpenFails, OpenForEvaluation, LoadSample, FeedFoward,
       LossFunctionCalculation, Classify, BackPropagateLast,
       BackPropagateHidden, BackPropagated, CloseFile

LEMMA StepOfBoth ==
  ASSUME [Next]_vars
  PROVE  /\ [TrainNext]_trainVars
         /\ \/ UNCHANGED serverVars
            \/ Server!MemoryStep /\ UNCHANGED trainVars
            \/ Server!ReceiveUpdate /\ UNCHANGED trainVars
<1>1. CASE Fetch
  BY <1>1 DEF Fetch, TrainNext
<1>2. CASE Send
  BY <1>2 DEF Send
<1>3. CASE TrainStep /\ UNCHANGED serverVars
  BY <1>3 DEF TrainNext
<1>4. CASE Server!MemoryStep /\ UNCHANGED trainVars
  BY <1>4
<1>5. CASE UNCHANGED vars
  BY <1>5 DEF vars
<1>6. QED
  BY <1>1, <1>2, <1>3, <1>4, <1>5 DEF Next

LEMMA CycleTrains == Spec => TrainSpec
<1>1. Init => TrainInit
  BY DEF Init
<1>2. [Next]_vars => [TrainNext]_trainVars
  BY StepOfBoth
<1>3. QED
  BY <1>1, <1>2, PTL DEF Spec, TrainSpec

\* The server's memory and the client keep their types together, and nothing
\* is stored through NULL, as long as the memory is not full.
THEOREM CycleTypeCorrect == Spec => []TypeOK
<1>1. Init => MemoryInv
  <2>1. Init => Server!MemoryInit /\ net \in Shapes
    BY DEF Init, TrainInit
  <2>2. QED
    BY <2>1, InitMemory
<1>2. MemoryInv /\ TrainTypeOK /\ [Next]_vars => MemoryInv'
  <2> SUFFICES ASSUME MemoryInv, TrainTypeOK, [Next]_vars
               PROVE  MemoryInv'
    OBVIOUS
  <2>1. net \in Shapes
    BY DEF TrainTypeOK, ControlTypes
  <2>2. net' = net
    BY StepOfBoth, NetIsKept
  <2>3. CASE UNCHANGED serverVars
    BY <2>2, <2>3, MemoryStays
  <2>4. CASE Server!MemoryStep
    BY <2>1, <2>2, <2>4, MemoryStepKeepsInv
  <2>5. CASE Server!ReceiveUpdate
    BY <2>1, <2>2, <2>5, ReceiveKeepsInv
  <2>6. QED
    BY <2>3, <2>4, <2>5, StepOfBoth
<1>3. Spec => []TrainTypeOK
  BY CycleTrains, TypesHold, PTL
<1>4. MemoryInv /\ TrainTypeOK => TypeOK
  BY MemoryIsTyped DEF TypeOK
<1>5. QED
  BY <1>1, <1>2, <1>3, <1>4, PTL DEF Spec

\* What holds of a client's training holds of it beside the server.
THEOREM CycleTrainsSafely ==
  Spec => [](BackPropagationStaysInside /\ CountedIsTrained /\ TrainsOnEachLine)
<1>1. QED
  BY CycleTrains, StaysInside, CountedWasTrained, LinesInOrder, PTL
-----------------------------------------------------------------------------
(***************************************************************************)
(* The networks are sound.                                                 *)
(*                                                                         *)
(* A network of shape w has a site for each of its nodes: Root is itself,  *)
(* <<i, 0, 0>> its i-th layer, <<i, j, 0>> the j-th neuron of that, and    *)
(* <<i, j, k>> the k-th weight of that.                                    *)
(***************************************************************************)
Root == <<0, 0, 0>>
WeightsOf(w, i) == IF i = 1 THEN 0 ELSE w[i - 1]
InShape(w, i, j, k) ==
  \/ i = 0 /\ j = 0 /\ k = 0
  \/ i \in 1 .. Len(w) /\ j = 0 /\ k = 0
  \/ i \in 1 .. Len(w) /\ j \in 1 .. w[i] /\ k \in 0 .. WeightsOf(w, i)
Sites(w) == {p \in Nat \X Nat \X Nat : InShape(w, p[1], p[2], p[3])}

\* The n-th node of the list of a site, the length that this list has when it
\* is complete, and the kind of the site.
Child(p, n) ==
  IF p[1] = 0 THEN <<n, 0, 0>>
  ELSE IF p[2] = 0 THEN <<p[1], n, 0>> ELSE <<p[1], p[2], n>>
SizeOf(w, p) ==
  IF p[1] = 0 THEN Len(w)
  ELSE IF p[2] = 0 THEN w[p[1]]
  ELSE IF p[3] = 0 THEN WeightsOf(w, p[1]) ELSE 0
KindOf(p) ==
  IF p[1] = 0 THEN "net" ELSE IF p[2] = 0 THEN "layer"
  ELSE IF p[3] = 0 THEN "neuron" ELSE "weight"

IsShape(w) == w \in Seq(Nat \ {0}) /\ Len(w) >= 2

LEMMA ShapeFacts ==
  ASSUME NEW w, IsShape(w)
  PROVE  /\ Len(w) \in Nat /\ Len(w) >= 2
         /\ \A i \in 1 .. Len(w) : /\ w[i] \in Nat /\ w[i] > 0
                                   /\ WeightsOf(w, i) \in Nat
BY DEF IsShape, WeightsOf

LEMMA SiteIsTriple ==
  ASSUME NEW w, NEW p \in Sites(w)
  PROVE  /\ p = <<p[1], p[2], p[3]>>
         /\ p[1] \in Nat /\ p[2] \in Nat /\ p[3] \in Nat
         /\ InShape(w, p[1], p[2], p[3])
BY DEF Sites

LEMMA TripleIsSite ==
  ASSUME NEW w, NEW i \in Nat, NEW j \in Nat, NEW k \in Nat
  PROVE  /\ <<i, j, k>> \in Sites(w) <=> InShape(w, i, j, k)
         /\ <<i, j, k>>[1] = i /\ <<i, j, k>>[2] = j /\ <<i, j, k>>[3] = k
BY DEF Sites

LEMMA RootIsSite ==
  ASSUME NEW w
  PROVE  Root \in Sites(w) /\ KindOf(Root) = "net" /\ SizeOf(w, Root) = Len(w)
BY TripleIsSite DEF Root, InShape, KindOf, SizeOf

LEMMA SiteFacts ==
  ASSUME NEW w, IsShape(w), NEW p \in Sites(w)
  PROVE  /\ SizeOf(w, p) \in Nat
         /\ KindOf(p) \in Kinds /\ KindOf(p) # "free"
         /\ KindOf(p) = "net" => p = Root
<1>1. p[1] \in Nat /\ p[2] \in Nat /\ p[3] \in Nat /\ InShape(w, p[1], p[2], p[3])
  BY SiteIsTriple
<1>2. p[1] # 0 => p[1] \in 1 .. Len(w)
  BY <1>1 DEF InShape
<1>3. SizeOf(w, p) \in Nat
  BY <1>2, ShapeFacts DEF SizeOf
<1>4. KindOf(p) \in Kinds /\ KindOf(p) # "free"
  BY DEF KindOf, Kinds
<1>5. KindOf(p) = "net" => p = Root
  <2>1. SUFFICES ASSUME p[1] = 0
                 PROVE  p = Root
    BY DEF KindOf
  <2>2. p[2] = 0 /\ p[3] = 0
    BY <1>1, <2>1 DEF InShape
  <2>3. QED
    BY <2>1, <2>2, SiteIsTriple DEF Root
<1>6. QED
  BY <1>3, <1>4, <1>5

LEMMA ChildIsSite ==
  ASSUME NEW w, IsShape(w), NEW p \in Sites(w), NEW n \in 1 .. SizeOf(w, p)
  PROVE  Child(p, n) \in Sites(w) /\ Child(p, n) # Root
<1>1. /\ p[1] \in Nat /\ p[2] \in Nat /\ p[3] \in Nat /\ InShape(w, p[1], p[2], p[3])
      /\ n \in Nat /\ n # 0 /\ n <= SizeOf(w, p)
  BY SiteIsTriple, SiteFacts
<1>2. CASE p[1] = 0
  BY <1>1, <1>2, TripleIsSite, ShapeFacts DEF Child, SizeOf, InShape, Root
<1>3. CASE p[1] # 0 /\ p[2] = 0
  BY <1>1, <1>3, TripleIsSite, ShapeFacts DEF Child, SizeOf, InShape, Root
<1>4. CASE p[1] # 0 /\ p[2] # 0
  BY <1>1, <1>4, TripleIsSite, ShapeFacts DEF Child, SizeOf, InShape, Root
<1>5. QED
  BY <1>2, <1>3, <1>4

\* No two lists have a site in common, and none has one twice.
LEMMA ChildIsUnique ==
  ASSUME NEW w, IsShape(w), NEW p \in Sites(w), NEW n \in 1 .. SizeOf(w, p),
         NEW q \in Sites(w), NEW m \in 1 .. SizeOf(w, q), Child(p, n) = Child(q, m)
  PROVE  p = q /\ n = m
<1>1. /\ p[1] \in Nat /\ p[2] \in Nat /\ p[3] \in Nat /\ InShape(w, p[1], p[2], p[3])
      /\ q[1] \in Nat /\ q[2] \in Nat /\ q[3] \in Nat /\ InShape(w, q[1], q[2], q[3])
      /\ p = <<p[1], p[2], p[3]>> /\ q = <<q[1], q[2], q[3]>>
      /\ n \in Nat /\ n # 0 /\ n <= SizeOf(w, p)
      /\ m \in Nat /\ m # 0 /\ m <= SizeOf(w, q)
  BY SiteIsTriple, SiteFacts
<1>2. \A i1, j1, k1, i2, j2, k2 : <<i1, j1, k1>> = <<i2, j2, k2>> => i1 = i2 /\ j1 = j2 /\ k1 = k2
  OBVIOUS
<1>3. p[1] = q[1] /\ p[2] = q[2] /\ n = m
  BY <1>1, <1>2 DEF Child, InShape, SizeOf
<1>4. p[3] = q[3]
  BY <1>1, <1>3 DEF InShape, SizeOf
<1>5. QED
  BY <1>1, <1>3, <1>4

LEMMA SiteHasParent ==
  ASSUME NEW w, IsShape(w), NEW q \in Sites(w), q # Root
  PROVE  \E p \in Sites(w) : \E n \in 1 .. SizeOf(w, p) : q = Child(p, n)
<1>1. /\ q[1] \in Nat /\ q[2] \in Nat /\ q[3] \in Nat /\ InShape(w, q[1], q[2], q[3])
      /\ q = <<q[1], q[2], q[3]>> /\ q[1] \in 1 .. Len(w)
  BY SiteIsTriple DEF InShape, Root
<1>2. CASE q[2] = 0
  <2>1. q = Child(Root, q[1])
    BY <1>1, <1>2 DEF Child, Root, InShape
  <2>2. QED
    BY <1>1, <2>1, RootIsSite
<1>3. CASE q[2] # 0 /\ q[3] = 0
  <2> DEFINE p == <<q[1], 0, 0>>
  <2>1. p \in Sites(w) /\ p[1] = q[1] /\ p[2] = 0 /\ p[3] = 0
    BY <1>1, <1>3, TripleIsSite DEF InShape
  <2> HIDE DEF p
  <2>2. q = Child(p, q[2]) /\ q[2] \in 1 .. SizeOf(w, p)
    BY <1>1, <1>3, <2>1 DEF Child, SizeOf, InShape
  <2>3. QED
    BY <2>1, <2>2
<1>4. CASE q[2] # 0 /\ q[3] # 0
  <2> DEFINE p == <<q[1], q[2], 0>>
  <2>0. InShape(w, q[1], q[2], 0)
    BY <1>1, <1>4, ShapeFacts DEF InShape
  <2>1. p \in Sites(w) /\ p[1] = q[1] /\ p[2] = q[2] /\ p[3] = 0
    BY <1>1, <2>0, TripleIsSite
  <2> HIDE DEF p
  <2>2. q = Child(p, q[3]) /\ q[3] \in 1 .. SizeOf(w, p)
    BY <1>1, <1>4, <2>1 DEF Child, SizeOf, InShape
  <2>3. QED
    BY <2>1, <2>2
<1>5. QED
  BY <1>2, <1>3, <1>4
-----------------------------------------------------------------------------
(***************************************************************************)
(* The heap h has, at the addresses f of a set C of sites, nodes of a      *)
(* network: the first c[p] of the list of site p are linked.  A list of    *)
(* one may end in a loop, which is how copies begin.                       *)
(***************************************************************************)
Lays(w, h, C, f, c, p) ==
  /\ h[f[p]].kind = KindOf(p) /\ h[f[p]].size = SizeOf(w, p)
  /\ c[p] <= SizeOf(w, p)
  /\ h[f[p]].first = IF c[p] = 0 THEN NULL ELSE f[Child(p, 1)]
  /\ h[f[p]].last = IF c[p] = 0 THEN NULL ELSE f[Child(p, c[p])]

Links(h, C, f, c, p, n) ==
  /\ Child(p, n) \in C
  /\ n < c[p] => h[f[Child(p, n)]].next = f[Child(p, n + 1)]
  /\ n = c[p] => \/ h[f[Child(p, n)]].next = NULL
                 \/ n = 1 /\ h[f[Child(p, n)]].next = f[Child(p, n)]
  /\ n > 1 => h[f[Child(p, n)]].prev = f[Child(p, n - 1)]

Layout(w, C, f, c) ==
  /\ C \subseteq Sites(w) /\ Root \in C
  /\ f \in [C -> Addresses] /\ c \in [C -> Nat]
  /\ \A p, q \in C : f[p] = f[q] => p = q

Laid(w, h, C, f, c) ==
  /\ Layout(w, C, f, c)
  /\ h[f[Root]].next = NULL
  /\ \A p \in C : Lays(w, h, C, f, c, p)
  /\ \A p \in C : \A n \in 1 .. c[p] : Links(h, C, f, c, p, n)

At(f) == {f[p] : p \in DOMAIN f}

\* What happens elsewhere in the heap does not matter.
LEMMA LaidElsewhere ==
  ASSUME NEW w, NEW h, NEW C, NEW f, NEW c, Laid(w, h, C, f, c),
         NEW g, \A a \in At(f) : g[a] = h[a]
  PROVE  Laid(w, g, C, f, c)
<1>1. \A p \in C : g[f[p]] = h[f[p]]
  BY DEF At, Laid, Layout
<1>2. \A p \in C : Lays(w, g, C, f, c, p)
  BY <1>1 DEF Laid, Lays
<1>3. ASSUME NEW p \in C, NEW n \in 1 .. c[p]
      PROVE  Links(g, C, f, c, p, n)
  <2>1. Links(h, C, f, c, p, n)
    BY DEF Laid
  <2>2. g[f[Child(p, n)]] = h[f[Child(p, n)]]
    BY <1>1, <2>1 DEF Links
  <2>3. QED
    BY <2>1, <2>2 DEF Links
<1>4. Root \in C
  BY DEF Laid, Layout
<1>5. QED
  BY <1>1, <1>2, <1>3, <1>4 DEF Laid

\* A node is allocated for one more site.
With(C, f, q, x) == [r \in C \cup {q} |-> IF r = q THEN x ELSE f[r]]

LEMMA WithFacts ==
  ASSUME NEW w, NEW C, NEW f, NEW c, Layout(w, C, f, c),
         NEW q \in Sites(w), q \notin C, NEW x \in Addresses, x \notin At(f)
  PROVE  /\ Layout(w, C \cup {q}, With(C, f, q, x), With(C, c, q, 0))
         /\ \A r \in C : r # q /\ With(C, f, q, x)[r] = f[r] /\ With(C, c, q, 0)[r] = c[r]
         /\ With(C, f, q, x)[q] = x /\ With(C, c, q, 0)[q] = 0
         /\ At(With(C, f, q, x)) = At(f) \cup {x}
<1> DEFINE f2 == With(C, f, q, x)
           c2 == With(C, c, q, 0)
<1>1. /\ f2 \in [C \cup {q} -> Addresses] /\ c2 \in [C \cup {q} -> Nat]
      /\ \A r \in C : r # q /\ f2[r] = f[r] /\ c2[r] = c[r]
      /\ f2[q] = x /\ c2[q] = 0
  BY DEF With, Layout
<1> HIDE DEF f2, c2
<1>2. \A r \in C : f[r] # x
  BY DEF At, Layout
<1>3. \A p, r \in C \cup {q} : f2[p] = f2[r] => p = r
  BY <1>1, <1>2 DEF Layout
<1>4. At(f2) = At(f) \cup {x}
  BY <1>1 DEF At, Layout
<1>5. Layout(w, C \cup {q}, f2, c2)
  BY <1>1, <1>3 DEF Layout
<1>6. QED
  BY <1>1, <1>4, <1>5 DEF f2, c2

LEMMA LaidWith ==
  ASSUME NEW w, NEW h, NEW C, NEW f, NEW c, Laid(w, h, C, f, c), IsShape(w),
         NEW q \in Sites(w), q \notin C, NEW x \in Addresses, x \notin At(f),
         NEW g, g[x] = Server!Node(KindOf(q), SizeOf(w, q)),
         \A a \in At(f) : g[a] = h[a]
  PROVE  Laid(w, g, C \cup {q}, With(C, f, q, x), With(C, c, q, 0))
<1> DEFINE f2 == With(C, f, q, x)
           c2 == With(C, c, q, 0)
           D == C \cup {q}
<1>1. /\ Layout(w, D, f2, c2)
      /\ \A r \in C : r # q /\ f2[r] = f[r] /\ c2[r] = c[r]
      /\ f2[q] = x /\ c2[q] = 0
  <2>1. Layout(w, C, f, c)
    BY DEF Laid
  <2>2. QED
    BY <2>1, WithFacts, SMTT(30)
<1> HIDE DEF f2, c2
<1>2. \A p \in C : g[f2[p]] = h[f[p]]
  BY <1>1 DEF At, Laid, Layout
<1>3. Root \in C /\ g[f2[Root]].next = NULL
  BY <1>2 DEF Laid, Layout
<1>4. Lays(w, g, D, f2, c2, q)
  <2>1. /\ Server!Node(KindOf(q), SizeOf(w, q)).kind = KindOf(q)
        /\ Server!Node(KindOf(q), SizeOf(w, q)).size = SizeOf(w, q)
        /\ Server!Node(KindOf(q), SizeOf(w, q)).first = NULL
        /\ Server!Node(KindOf(q), SizeOf(w, q)).last = NULL
        /\ SizeOf(w, q) \in Nat
    BY SiteFacts, NewNode
  <2>2. QED
    BY <1>1, <2>1 DEF Lays
<1>5. ASSUME NEW p \in C
      PROVE  Lays(w, g, D, f2, c2, p) /\ \A n \in 1 .. c2[p] : Links(g, D, f2, c2, p, n)
  <2>1. Lays(w, h, C, f, c, p) /\ c[p] \in Nat
    BY DEF Laid, Layout
  <2>2. c[p] # 0 => Child(p, 1) \in C /\ Child(p, c[p]) \in C
    BY <2>1 DEF Laid, Links
  <2>3. Lays(w, g, D, f2, c2, p)
    BY <1>1, <1>2, <2>1, <2>2 DEF Lays
  <2>4. ASSUME NEW n \in 1 .. c2[p]
        PROVE  Links(g, D, f2, c2, p, n)
    <3>1. c2[p] = c[p] /\ Links(h, C, f, c, p, n) /\ n \in 1 .. c[p]
      BY <1>1 DEF Laid
    <3>2. n < c[p] => Child(p, n + 1) \in C
      <4>1. n < c[p] => n + 1 \in 1 .. c[p]
        BY <2>1, <3>1
      <4>2. QED
        BY <4>1 DEF Laid, Links
    <3>3. n > 1 => Child(p, n - 1) \in C
      <4>1. n > 1 => n - 1 \in 1 .. c[p]
        BY <2>1, <3>1
      <4>2. QED
        BY <4>1 DEF Laid, Links
    <3>4. Child(p, n) \in C /\ g[f2[Child(p, n)]] = h[f[Child(p, n)]]
      BY <1>2, <3>1 DEF Links
    <3>5. QED
      BY <1>1, <3>1, <3>2, <3>3, <3>4 DEF Links
  <2>5. QED
    BY <2>3, <2>4
<1>6. QED
  BY <1>1, <1>3, <1>4, <1>5 DEF Laid, f2, c2
-----------------------------------------------------------------------------
\* What a store into one node leaves alone, and what it does to its links.
LEMMA LinksOfNode ==
  ASSUME NEW n \in NodeType, NEW v \in Pointers
  PROVE  /\ [n EXCEPT !.prev = v].prev = v /\ [n EXCEPT !.prev = v].next = n.next
         /\ [n EXCEPT !.next = v].prev = n.prev /\ [n EXCEPT !.next = v].next = v
         /\ [n EXCEPT !.first = v].prev = n.prev /\ [n EXCEPT !.first = v].next = n.next
         /\ [n EXCEPT !.last = v].prev = n.prev /\ [n EXCEPT !.last = v].next = n.next
BY DEF NodeType

LEMMA LinkIsStored ==
  ASSUME NEW h, h \in [Pointers -> NodeType], NEW y \in Addresses, NEW v \in Pointers
  PROVE  \A a \in Pointers :
           /\ a # y => /\ PrevStored(h, y, v)[a] = h[a]
                       /\ NextStored(h, y, v)[a] = h[a]
                       /\ FirstStored(h, y, v)[a] = h[a]
                       /\ LastStored(h, y, v)[a] = h[a]
           /\ PrevStored(h, y, v)[a].prev = (IF a = y THEN v ELSE h[a].prev)
           /\ PrevStored(h, y, v)[a].next = h[a].next
           /\ NextStored(h, y, v)[a].prev = h[a].prev
           /\ NextStored(h, y, v)[a].next = (IF a = y THEN v ELSE h[a].next)
           /\ FirstStored(h, y, v)[a].prev = h[a].prev
           /\ FirstStored(h, y, v)[a].next = h[a].next
           /\ LastStored(h, y, v)[a].prev = h[a].prev
           /\ LastStored(h, y, v)[a].next = h[a].next
<1>1. y \in Pointers /\ h[y] \in NodeType
  BY DEF Pointers
<1> DEFINE n1 == [h[y] EXCEPT !.prev = v]
           n2 == [h[y] EXCEPT !.next = v]
           n3 == [h[y] EXCEPT !.first = v]
           n4 == [h[y] EXCEPT !.last = v]
<1>2. /\ n1.prev = v /\ n1.next = h[y].next
      /\ n2.prev = h[y].prev /\ n2.next = v
      /\ n3.prev = h[y].prev /\ n3.next = h[y].next
      /\ n4.prev = h[y].prev /\ n4.next = h[y].next
  BY <1>1, LinksOfNode
<1> HIDE DEF n1, n2, n3, n4
<1>3. \A a \in Pointers :
        /\ PrevStored(h, y, v)[a] = IF a = y THEN n1 ELSE h[a]
        /\ NextStored(h, y, v)[a] = IF a = y THEN n2 ELSE h[a]
        /\ FirstStored(h, y, v)[a] = IF a = y THEN n3 ELSE h[a]
        /\ LastStored(h, y, v)[a] = IF a = y THEN n4 ELSE h[a]
  BY <1>1 DEF PrevStored, NextStored, FirstStored, LastStored, n1, n2, n3, n4
<1>4. QED
  BY <1>2, <1>3

LEMMA PrevIsStored ==
  ASSUME NEW h, h \in [Pointers -> NodeType], h[NULL] = Server!Freed,
         NEW y \in Addresses, NEW v \in Pointers
  PROVE  /\ PrevStored(h, y, v) \in [Pointers -> NodeType] /\ PrevStored(h, y, v)[NULL] = Server!Freed
         /\ \A a \in Pointers :
              /\ a # y => PrevStored(h, y, v)[a] = h[a]
              /\ PrevStored(h, y, v)[a].kind = h[a].kind
              /\ PrevStored(h, y, v)[a].size = h[a].size
              /\ PrevStored(h, y, v)[a].first = h[a].first
              /\ PrevStored(h, y, v)[a].last = h[a].last
              /\ PrevStored(h, y, v)[a].prev = (IF a = y THEN v ELSE h[a].prev)
              /\ PrevStored(h, y, v)[a].next = h[a].next
BY PointerIsStored, LinkIsStored

LEMMA NextIsStored ==
  ASSUME NEW h, h \in [Pointers -> NodeType], h[NULL] = Server!Freed,
         NEW y \in Addresses, NEW v \in Pointers
  PROVE  /\ NextStored(h, y, v) \in [Pointers -> NodeType] /\ NextStored(h, y, v)[NULL] = Server!Freed
         /\ \A a \in Pointers :
              /\ a # y => NextStored(h, y, v)[a] = h[a]
              /\ NextStored(h, y, v)[a].kind = h[a].kind
              /\ NextStored(h, y, v)[a].size = h[a].size
              /\ NextStored(h, y, v)[a].first = h[a].first
              /\ NextStored(h, y, v)[a].last = h[a].last
              /\ NextStored(h, y, v)[a].prev = h[a].prev
              /\ NextStored(h, y, v)[a].next = (IF a = y THEN v ELSE h[a].next)
BY PointerIsStored, LinkIsStored

LEMMA FirstIsStored ==
  ASSUME NEW h, h \in [Pointers -> NodeType], h[NULL] = Server!Freed,
         NEW y \in Addresses, NEW v \in Pointers
  PROVE  /\ FirstStored(h, y, v) \in [Pointers -> NodeType] /\ FirstStored(h, y, v)[NULL] = Server!Freed
         /\ \A a \in Pointers :
              /\ a # y => FirstStored(h, y, v)[a] = h[a]
              /\ FirstStored(h, y, v)[a].kind = h[a].kind
              /\ FirstStored(h, y, v)[a].size = h[a].size
              /\ FirstStored(h, y, v)[a].first = (IF a = y THEN v ELSE h[a].first)
              /\ FirstStored(h, y, v)[a].last = h[a].last
              /\ FirstStored(h, y, v)[a].prev = h[a].prev
              /\ FirstStored(h, y, v)[a].next = h[a].next
BY PointerIsStored, LinkIsStored

LEMMA LastIsStored ==
  ASSUME NEW h, h \in [Pointers -> NodeType], h[NULL] = Server!Freed,
         NEW y \in Addresses, NEW v \in Pointers
  PROVE  /\ LastStored(h, y, v) \in [Pointers -> NodeType] /\ LastStored(h, y, v)[NULL] = Server!Freed
         /\ \A a \in Pointers :
              /\ a # y => LastStored(h, y, v)[a] = h[a]
              /\ LastStored(h, y, v)[a].kind = h[a].kind
              /\ LastStored(h, y, v)[a].size = h[a].size
              /\ LastStored(h, y, v)[a].first = h[a].first
              /\ LastStored(h, y, v)[a].last = (IF a = y THEN v ELSE h[a].last)
              /\ LastStored(h, y, v)[a].prev = h[a].prev
              /\ LastStored(h, y, v)[a].next = h[a].next
BY PointerIsStored, LinkIsStored

\* AppendBuilt, field by field.
LEMMA BuiltFields ==
  ASSUME NEW h, Heap(h), NEW parent \in Addresses, NEW x \in Addresses,
         NEW old, old = h[parent].last, NEW g, g = Server!AppendBuilt(h, parent, x)
  PROVE  \A a \in Pointers :
           /\ a # parent /\ a # x /\ a # old => g[a] = h[a]
           /\ g[a].kind = h[a].kind /\ g[a].size = h[a].size
           /\ g[a].prev = (IF a = x THEN old ELSE h[a].prev)
           /\ g[a].next = (IF old # NULL /\ a = old THEN x ELSE h[a].next)
           /\ g[a].first = (IF a = parent /\ old = NULL THEN x ELSE h[a].first)
           /\ g[a].last = (IF a = parent THEN x ELSE h[a].last)
<1> DEFINE h1 == PrevStored(h, x, old)
           h2 == LastStored(h1, parent, x)
           begin == IF old = NULL THEN x ELSE h2[parent].first
           h3 == FirstStored(h2, parent, begin)
           h4 == NextStored(h3, old, x)
<1>1. /\ old \in Pointers /\ (old # NULL => old \in Addresses)
      /\ parent \in Pointers /\ x \in Pointers /\ x # NULL /\ parent # NULL
  BY NULLIsNoAddress DEF Heap, Pointers, NodeType
<1>2. /\ h1 \in [Pointers -> NodeType] /\ h1[NULL] = Server!Freed
      /\ \A a \in Pointers :
           /\ a # x => h1[a] = h[a]
           /\ h1[a].kind = h[a].kind /\ h1[a].size = h[a].size
           /\ h1[a].last = h[a].last /\ h1[a].first = h[a].first
           /\ h1[a].prev = (IF a = x THEN old ELSE h[a].prev) /\ h1[a].next = h[a].next
  BY <1>1, PrevIsStored DEF Heap
<1> HIDE DEF h1
<1>3. /\ h2 \in [Pointers -> NodeType] /\ h2[NULL] = Server!Freed
      /\ \A a \in Pointers :
           /\ a # parent => h2[a] = h1[a]
           /\ h2[a].kind = h1[a].kind /\ h2[a].size = h1[a].size
           /\ h2[a].last = (IF a = parent THEN x ELSE h1[a].last)
           /\ h2[a].first = h1[a].first
           /\ h2[a].prev = h1[a].prev /\ h2[a].next = h1[a].next
  BY <1>1, <1>2, LastIsStored
<1> HIDE DEF h2
<1>v. begin \in Pointers /\ begin = IF old = NULL THEN x ELSE h[parent].first
  BY <1>1, <1>2, <1>3 DEF NodeType
<1> HIDE DEF begin
<1>4. /\ h3 \in [Pointers -> NodeType] /\ h3[NULL] = Server!Freed
      /\ \A a \in Pointers :
           /\ a # parent => h3[a] = h2[a]
           /\ h3[a].kind = h2[a].kind /\ h3[a].size = h2[a].size
           /\ h3[a].last = h2[a].last
           /\ h3[a].first = (IF a = parent THEN begin ELSE h2[a].first)
           /\ h3[a].prev = h2[a].prev /\ h3[a].next = h2[a].next
  BY <1>v, <1>1, <1>3, FirstIsStored
<1> HIDE DEF h3
<1>5. CASE old = NULL
  <2>1. g = h3
    BY <1>5 DEF Server!AppendBuilt, begin, h1, h2, h3, h4, NULL, PrevStored, NextStored, FirstStored, LastStored
  <2>2. QED
    BY <1>1, <1>2, <1>3, <1>v, <1>4, <1>5, <2>1
<1>6. CASE old # NULL
  <2>1. g = h4
    BY <1>6, ZenonT(30) DEF Server!AppendBuilt, begin, h1, h2, h3, h4, NULL, PrevStored, NextStored, FirstStored, LastStored
  <2>2. \A a \in Pointers :
           /\ a # old => h4[a] = h3[a]
           /\ h4[a].kind = h3[a].kind /\ h4[a].size = h3[a].size
           /\ h4[a].last = h3[a].last /\ h4[a].first = h3[a].first
           /\ h4[a].prev = h3[a].prev
           /\ h4[a].next = (IF a = old THEN x ELSE h3[a].next)
    BY <1>1, <1>4, <1>6, NextIsStored
  <2> HIDE DEF h4
  <2>3. QED
    BY <1>1, <1>2, <1>3, <1>v, <1>4, <1>6, <2>1, <2>2
<1>7. QED
  BY <1>5, <1>6

\* AppendCopied, field by field.
LEMMA CopiedFields ==
  ASSUME NEW h, Heap(h), NEW parent \in Addresses, NEW x \in Addresses,
         NEW old, old = IF h[parent].first = NULL THEN x ELSE h[parent].last,
         NEW g, g = Server!AppendCopied(h, parent, x)
  PROVE  \A a \in Pointers :
           /\ a # parent /\ a # x /\ a # old => g[a] = h[a]
           /\ g[a].kind = h[a].kind /\ g[a].size = h[a].size
           /\ g[a].prev = (IF a = x THEN old ELSE h[a].prev)
           /\ g[a].next = (IF a = old THEN x ELSE IF a = x THEN NULL ELSE h[a].next)
           /\ g[a].first = (IF a = parent /\ h[a].first = NULL THEN x ELSE h[a].first)
           /\ g[a].last = (IF a = parent THEN x ELSE h[a].last)
<1> DEFINE begin == IF h[parent].first = NULL THEN x ELSE h[parent].first
           h1 == FirstStored(h, parent, begin)
           h2 == NextStored(h1, x, NULL)
           h3 == PrevStored(h2, x, old)
           h4 == NextStored(h3, old, x)
           h5 == LastStored(h4, parent, x)
<1>1. /\ old \in Addresses /\ old \in Pointers /\ NULL \in Pointers
      /\ parent \in Pointers /\ x \in Pointers /\ x # NULL /\ parent # NULL
  BY NULLIsNoAddress DEF Heap, Pointers, NodeType
<1>w. begin \in Pointers
  BY <1>1 DEF Heap, NodeType
<1>b. begin = IF h[parent].first = NULL THEN x ELSE h[parent].first
  OBVIOUS
<1> HIDE DEF begin
<1>2. /\ h1 \in [Pointers -> NodeType] /\ h1[NULL] = Server!Freed
      /\ \A a \in Pointers :
           /\ a # parent => h1[a] = h[a]
           /\ h1[a].kind = h[a].kind /\ h1[a].size = h[a].size
           /\ h1[a].last = h[a].last
           /\ h1[a].first = (IF a = parent THEN begin ELSE h[a].first)
           /\ h1[a].prev = h[a].prev /\ h1[a].next = h[a].next
  BY <1>w, <1>1, FirstIsStored DEF Heap
<1> HIDE DEF h1
<1>3. /\ h2 \in [Pointers -> NodeType] /\ h2[NULL] = Server!Freed
      /\ \A a \in Pointers :
           /\ a # x => h2[a] = h1[a]
           /\ h2[a].kind = h1[a].kind /\ h2[a].size = h1[a].size
           /\ h2[a].last = h1[a].last /\ h2[a].first = h1[a].first
           /\ h2[a].prev = h1[a].prev
           /\ h2[a].next = (IF a = x THEN NULL ELSE h1[a].next)
  BY <1>1, <1>2, NextIsStored
<1> HIDE DEF h2
<1>4. /\ h3 \in [Pointers -> NodeType] /\ h3[NULL] = Server!Freed
      /\ \A a \in Pointers :
           /\ a # x => h3[a] = h2[a]
           /\ h3[a].kind = h2[a].kind /\ h3[a].size = h2[a].size
           /\ h3[a].last = h2[a].last /\ h3[a].first = h2[a].first
           /\ h3[a].prev = (IF a = x THEN old ELSE h2[a].prev)
           /\ h3[a].next = h2[a].next
  BY <1>1, <1>3, PrevIsStored
<1> HIDE DEF h3
<1>5. /\ h4 \in [Pointers -> NodeType] /\ h4[NULL] = Server!Freed
      /\ \A a \in Pointers :
           /\ a # old => h4[a] = h3[a]
           /\ h4[a].kind = h3[a].kind /\ h4[a].size = h3[a].size
           /\ h4[a].last = h3[a].last /\ h4[a].first = h3[a].first
           /\ h4[a].prev = h3[a].prev
           /\ h4[a].next = (IF a = old THEN x ELSE h3[a].next)
  BY <1>1, <1>4, NextIsStored
<1> HIDE DEF h4
<1>6. \A a \in Pointers :
           /\ a # parent => h5[a] = h4[a]
           /\ h5[a].kind = h4[a].kind /\ h5[a].size = h4[a].size
           /\ h5[a].last = (IF a = parent THEN x ELSE h4[a].last)
           /\ h5[a].first = h4[a].first
           /\ h5[a].prev = h4[a].prev /\ h5[a].next = h4[a].next
  BY <1>1, <1>5, LastIsStored
<1> HIDE DEF h5
<1>8. g = h5
  BY DEF Server!AppendCopied, h1, h2, h3, h4, h5, begin, NULL, PrevStored, NextStored, FirstStored, LastStored
<1>9. QED
  BY <1>1, <1>b, <1>2, <1>3, <1>4, <1>5, <1>6, <1>8
-----------------------------------------------------------------------------
\* One more node is linked at the end of the list of site p.
More(c, p) == [c EXCEPT ![p] = c[p] + 1]

LEMMA LinkedMore ==
  ASSUME NEW w, IsShape(w), NEW h, NEW C, NEW f, NEW c, Laid(w, h, C, f, c),
         NEW p \in C, c[p] < SizeOf(w, p), NEW q \in C, q = Child(p, c[p] + 1),
         NEW g,
         \A r \in C :
           /\ g[f[r]].kind = h[f[r]].kind /\ g[f[r]].size = h[f[r]].size
           /\ r # q => g[f[r]].prev = h[f[r]].prev
           /\ r # q /\ (c[p] # 0 => r # Child(p, c[p])) => g[f[r]].next = h[f[r]].next
           /\ r # p \/ c[p] # 0 => g[f[r]].first = h[f[r]].first
           /\ r # p => g[f[r]].last = h[f[r]].last,
         c[p] # 0 => /\ g[f[q]].prev = f[Child(p, c[p])]
                     /\ g[f[Child(p, c[p])]].next = f[q],
         \/ g[f[q]].next = NULL
         \/ c[p] = 0 /\ g[f[q]].next = f[q],
         c[p] = 0 => g[f[p]].first = f[q],
         g[f[p]].last = f[q]
  PROVE  Laid(w, g, C, f, More(c, p))
<1> DEFINE d == More(c, p)
           m == c[p]
<1>1. /\ C \subseteq Sites(w) /\ Root \in C
      /\ f \in [C -> Addresses] /\ c \in [C -> Nat]
      /\ \A r, s \in C : f[r] = f[s] => r = s
  BY DEF Laid, Layout
<1>2. /\ d \in [C -> Nat] /\ d[p] = m + 1 /\ \A r \in C : r # p => d[r] = c[r]
      /\ m \in Nat
  BY <1>1 DEF More
<1> HIDE DEF d
<1>3. Layout(w, C, f, d)
  BY <1>1, <1>2 DEF Layout
<1>4. /\ \A r \in C : Lays(w, h, C, f, c, r)
      /\ \A r \in C : \A n \in 1 .. c[r] : Links(h, C, f, c, r, n)
      /\ h[f[Root]].next = NULL
  BY DEF Laid
<1>5. SizeOf(w, p) \in Nat /\ m + 1 \in 1 .. SizeOf(w, p)
  BY <1>1, <1>2, SiteFacts
<1>6. ASSUME NEW r \in C, NEW n \in 1 .. c[r]
      PROVE  /\ n \in 1 .. SizeOf(w, r) /\ Child(r, n) \in C /\ Child(r, n) # Root
             /\ Child(r, n) # q
             /\ m # 0 /\ Child(r, n) = Child(p, m) => r = p /\ n = m
  <2>1. c[r] \in Nat /\ c[r] <= SizeOf(w, r) /\ SizeOf(w, r) \in Nat /\ Child(r, n) \in C
    BY <1>1, <1>4, SiteFacts DEF Lays, Links
  <2>2. n \in 1 .. SizeOf(w, r)
    BY <2>1
  <2>3. Child(r, n) # q
    <3>1. SUFFICES ASSUME Child(r, n) = Child(p, m + 1)
                   PROVE  FALSE
      OBVIOUS
    <3>2. r = p /\ n = m + 1
      BY <1>1, <1>5, <2>2, <3>1, ChildIsUnique
    <3>3. QED
      BY <1>2, <3>2
  <2>4. m # 0 => m \in 1 .. SizeOf(w, p)
    BY <1>2, <1>5
  <2>5. QED
    BY <1>1, <2>1, <2>2, <2>3, <2>4, ChildIsUnique, ChildIsSite
<1>7. m # 0 => Child(p, m) \in C /\ Child(p, m) # Root
  BY <1>2, <1>6
<1>8. g[f[Root]].next = NULL
  <2>1. q # Root
    BY <1>1, <1>5, ChildIsSite
  <2>2. QED
    BY <1>1, <1>4, <1>7, <2>1
<1>9. ASSUME NEW r \in C
      PROVE  Lays(w, g, C, f, d, r)
  <2>1. Lays(w, h, C, f, c, r)
    BY <1>4
  <2>2. CASE r = p
    <3>1. d[r] # 0 /\ d[r] <= SizeOf(w, r)
      BY <1>2, <1>5, <2>2
    <3>2. g[f[r]].first = f[Child(r, 1)]
      <4>1. CASE m = 0
        BY <2>2, <4>1
      <4>2. CASE m # 0
        BY <2>1, <2>2, <4>2 DEF Lays
      <4>3. QED
        BY <4>1, <4>2
    <3>3. g[f[r]].last = f[Child(r, d[r])]
      BY <1>2, <2>2
    <3>4. QED
      BY <2>1, <3>1, <3>2, <3>3 DEF Lays
  <2>3. CASE r # p
    BY <1>2, <2>1, <2>3 DEF Lays
  <2>4. QED
    BY <2>2, <2>3
<1>10. ASSUME NEW r \in C, NEW n \in 1 .. d[r]
       PROVE  Links(g, C, f, d, r, n)
  <2>1. CASE r = p /\ n = m + 1
    <3>1. Child(r, n) = q /\ n = d[r]
      BY <1>2, <2>1
    <3>2. n > 1 => m # 0 /\ n - 1 = m
      BY <1>2, <2>1
    <3>3. m = 0 => n = 1
      BY <2>1
    <3>4. ~(n < d[r])
      BY <1>2, <3>1
    <3>5. m # 0 => Child(r, n - 1) = Child(p, m)
      <4>1. m # 0 => n - 1 = m
        BY <1>2, <2>1
      <4>2. QED
        BY <2>1, <4>1
    <3>6. n > 1 => g[f[Child(r, n)]].prev = f[Child(r, n - 1)]
      BY <3>1, <3>2, <3>5
    <3>7. QED
      BY <3>1, <3>3, <3>4, <3>6 DEF Links
  <2>2. CASE n \in 1 .. c[r]
    <3> DEFINE s == Child(r, n)
    <3>1. /\ s \in C /\ s # q /\ Links(h, C, f, c, r, n)
          /\ m # 0 /\ s = Child(p, m) => r = p /\ n = m
      BY <1>4, <1>6, <2>2
    <3>2. g[f[s]].prev = h[f[s]].prev
      BY <3>1
    <3>3. CASE r = p /\ n = m
      <4>1. g[f[s]].next = f[q] /\ n # d[r] /\ q = Child(r, n + 1)
        BY <1>2, <2>2, <3>3
      <4>2. QED
        BY <3>1, <3>2, <4>1 DEF Links
    <3>4. CASE ~(r = p /\ n = m)
      <4>1. g[f[s]].next = h[f[s]].next
        BY <3>1, <3>4
      <4>a. c[r] \in Nat /\ n \in Nat /\ n <= c[r]
        BY <1>1, <2>2
      <4>b. r = p => n # m /\ c[r] = m /\ d[r] = m + 1
        BY <1>2, <3>4
      <4>c. r # p => d[r] = c[r]
        BY <1>2
      <4>2. (n < d[r] => n < c[r]) /\ (n = d[r] => n = c[r])
        BY <4>a, <4>b, <4>c
      <4>3. QED
        BY <3>1, <3>2, <4>1, <4>2 DEF Links
    <3>5. QED
      BY <3>3, <3>4
  <2>3. c[r] \in Nat
    BY <1>1
  <2>4. r = p => c[r] = m /\ d[r] = m + 1
    BY <1>2
  <2>5. r # p => d[r] = c[r]
    BY <1>2
  <2>6. n \in 1 .. c[r] \/ (r = p /\ n = m + 1)
    BY <2>3, <2>4, <2>5
  <2>7. QED
    BY <2>1, <2>2, <2>6
<1>11. QED
  BY <1>3, <1>8, <1>9, <1>10 DEF Laid, d

\* Both ways of linking do that.
LEMMA LinkFacts ==
  ASSUME NEW w, IsShape(w), NEW h, NEW C, NEW f, NEW c, Laid(w, h, C, f, c),
         NEW p \in C, c[p] < SizeOf(w, p), NEW q \in C, q = Child(p, c[p] + 1)
  PROVE  /\ f[p] \in Addresses /\ f[q] \in Addresses /\ f[p] \in At(f) /\ f[q] \in At(f)
         /\ \A r \in C : f[r] \in Pointers /\ f[r] \in Addresses
                         /\ (f[r] = f[p] => r = p) /\ (f[r] = f[q] => r = q)
         /\ c[p] = 0 => h[f[p]].first = NULL /\ h[f[p]].last = NULL
         /\ c[p] # 0 => /\ h[f[p]].first # NULL /\ Child(p, c[p]) \in C
                        /\ h[f[p]].last = f[Child(p, c[p])]
                        /\ Child(p, c[p]) # q
                        /\ \A r \in C : f[r] = f[Child(p, c[p])] => r = Child(p, c[p])
<1>1. /\ C \subseteq Sites(w) /\ f \in [C -> Addresses] /\ c \in [C -> Nat]
      /\ \A r, s \in C : f[r] = f[s] => r = s
      /\ Lays(w, h, C, f, c, p) /\ \A n \in 1 .. c[p] : Links(h, C, f, c, p, n)
  BY DEF Laid, Layout
<1>2. c[p] \in Nat /\ SizeOf(w, p) \in Nat
  BY <1>1, SiteFacts
<1>3. c[p] # 0 => Child(p, c[p]) \in C /\ Child(p, 1) \in C
  BY <1>1, <1>2 DEF Links
<1>4. c[p] # 0 => Child(p, c[p]) # q
  <2>1. SUFFICES ASSUME c[p] # 0, Child(p, c[p]) = Child(p, c[p] + 1)
                 PROVE  FALSE
    OBVIOUS
  <2>2. c[p] \in 1 .. SizeOf(w, p) /\ c[p] + 1 \in 1 .. SizeOf(w, p)
    BY <1>2, <2>1
  <2>3. QED
    BY <1>1, <1>2, <2>1, <2>2, ChildIsUnique
<1>5. QED
  BY <1>1, <1>3, <1>4, NULLIsNoAddress DEF Lays, At, Pointers

LEMMA LinkedBuilt ==
  ASSUME NEW w, IsShape(w), NEW h, Heap(h), NEW C, NEW f, NEW c, Laid(w, h, C, f, c),
         NEW p \in C, c[p] < SizeOf(w, p), NEW q \in C, q = Child(p, c[p] + 1),
         h[f[q]].next = NULL, NEW g, g = Server!AppendBuilt(h, f[p], f[q])
  PROVE  /\ Laid(w, g, C, f, More(c, p))
         /\ \A a \in Pointers \ At(f) : g[a] = h[a]
<1> DEFINE old == h[f[p]].last
<1>1. \A a \in Pointers :
           /\ a # f[p] /\ a # f[q] /\ a # old => g[a] = h[a]
           /\ g[a].kind = h[a].kind /\ g[a].size = h[a].size
           /\ g[a].prev = (IF a = f[q] THEN old ELSE h[a].prev)
           /\ g[a].next = (IF old # NULL /\ a = old THEN f[q] ELSE h[a].next)
           /\ g[a].first = (IF a = f[p] /\ old = NULL THEN f[q] ELSE h[a].first)
           /\ g[a].last = (IF a = f[p] THEN f[q] ELSE h[a].last)
  <2>1. f[p] \in Addresses /\ f[q] \in Addresses
    BY LinkFacts
  <2>2. QED
    BY <2>1, BuiltFields
<1>2. old = IF c[p] = 0 THEN NULL ELSE f[Child(p, c[p])]
  BY LinkFacts
<1> HIDE DEF old
<1>3. Laid(w, g, C, f, More(c, p))
  <2>1. /\ \A r \in C :
           /\ g[f[r]].kind = h[f[r]].kind /\ g[f[r]].size = h[f[r]].size
           /\ r # q => g[f[r]].prev = h[f[r]].prev
           /\ r # p => g[f[r]].last = h[f[r]].last
        /\ g[f[p]].last = f[q]
    BY <1>1, LinkFacts
  <2>2. CASE c[p] = 0
    <3>1. /\ \A r \in C : /\ g[f[r]].next = h[f[r]].next
                          /\ r # p => g[f[r]].first = h[f[r]].first
          /\ g[f[p]].first = f[q] /\ g[f[q]].next = NULL
      BY <1>1, <1>2, <2>2, LinkFacts, SMTT(30)
    <3>2. QED
      BY <2>1, <2>2, <3>1, LinkedMore
  <2>3. CASE c[p] # 0
    <3>1. /\ Child(p, c[p]) \in C /\ Child(p, c[p]) # q
          /\ \A r \in C : f[r] \in Pointers /\ f[r] # NULL
                          /\ (f[r] = f[Child(p, c[p])] => r = Child(p, c[p]))
      BY <2>3, LinkFacts, NULLIsNoAddress
    <3>2. /\ \A r \in C : /\ r # Child(p, c[p]) => g[f[r]].next = h[f[r]].next
                          /\ g[f[r]].first = h[f[r]].first
          /\ g[f[q]].prev = f[Child(p, c[p])] /\ g[f[Child(p, c[p])]].next = f[q]
          /\ g[f[q]].next = NULL
      BY <1>1, <1>2, <2>3, <3>1
    <3>3. QED
      BY <2>1, <2>3, <3>2, LinkedMore, SMTT(30)
  <2>4. QED
    BY <2>2, <2>3
<1>4. ASSUME NEW a \in Pointers \ At(f)
      PROVE  g[a] = h[a]
  <2>1. a # f[p] /\ a # f[q]
    BY LinkFacts
  <2>2. c[p] # 0 => a # old
    <3>1. c[p] # 0 => Child(p, c[p]) \in C /\ old = f[Child(p, c[p])]
      BY <1>2, LinkFacts
    <3>2. QED
      BY <3>1 DEF At, Laid, Layout
  <2>3. CASE c[p] = 0
    <3>1. Lays(w, h, C, f, c, p) /\ old = NULL
      BY <1>2, <2>3 DEF Laid
    <3>2. CASE a = NULL
      <4>1. Heap(g) /\ g[NULL] = h[NULL]
        <5>1. f[p] \in Addresses /\ f[q] \in Addresses
          BY LinkFacts
        <5>2. QED
          BY <5>1, BuiltIsHeap DEF Heap
      <4>2. QED
        BY <3>2, <4>1
    <3>3. CASE a # NULL
      BY <1>1, <2>1, <3>1, <3>3
    <3>4. QED
      BY <3>2, <3>3
  <2>4. QED
    BY <1>1, <2>1, <2>2, <2>3
<1>5. QED
  BY <1>3, <1>4

LEMMA LinkedCopied ==
  ASSUME NEW w, IsShape(w), NEW h, Heap(h), NEW C, NEW f, NEW c, Laid(w, h, C, f, c),
         NEW p \in C, c[p] < SizeOf(w, p), NEW q \in C, q = Child(p, c[p] + 1),
         NEW g, g = Server!AppendCopied(h, f[p], f[q])
  PROVE  /\ Laid(w, g, C, f, More(c, p))
         /\ \A a \in Pointers \ At(f) : g[a] = h[a]
<1> DEFINE old == IF h[f[p]].first = NULL THEN f[q] ELSE h[f[p]].last
<1>1. \A a \in Pointers :
           /\ a # f[p] /\ a # f[q] /\ a # old => g[a] = h[a]
           /\ g[a].kind = h[a].kind /\ g[a].size = h[a].size
           /\ g[a].prev = (IF a = f[q] THEN old ELSE h[a].prev)
           /\ g[a].next = (IF a = old THEN f[q] ELSE IF a = f[q] THEN NULL ELSE h[a].next)
           /\ g[a].first = (IF a = f[p] /\ h[f[p]].first = NULL THEN f[q] ELSE h[a].first)
           /\ g[a].last = (IF a = f[p] THEN f[q] ELSE h[a].last)
  <2>1. f[p] \in Addresses /\ f[q] \in Addresses
    BY LinkFacts
  <2>2. QED
    BY <2>1, CopiedFields
<1>2. old = IF c[p] = 0 THEN f[q] ELSE f[Child(p, c[p])]
  BY LinkFacts
<1> HIDE DEF old
<1>3. Laid(w, g, C, f, More(c, p))
  <2>1. /\ \A r \in C :
           /\ g[f[r]].kind = h[f[r]].kind /\ g[f[r]].size = h[f[r]].size
           /\ r # q => g[f[r]].prev = h[f[r]].prev
           /\ r # p => g[f[r]].last = h[f[r]].last
        /\ g[f[p]].last = f[q]
    BY <1>1, LinkFacts
  <2>2. CASE c[p] = 0
    <3>1. /\ \A r \in C : /\ r # q => g[f[r]].next = h[f[r]].next
                          /\ r # p => g[f[r]].first = h[f[r]].first
          /\ g[f[p]].first = f[q] /\ g[f[q]].next = f[q]
      BY <1>1, <1>2, <2>2, LinkFacts, SMTT(30)
    <3>2. QED
      BY <2>1, <2>2, <3>1, LinkedMore
  <2>3. CASE c[p] # 0
    <3>1. /\ Child(p, c[p]) \in C /\ Child(p, c[p]) # q /\ h[f[p]].first # NULL
          /\ \A r \in C : f[r] \in Pointers /\ f[r] # NULL
                          /\ (f[r] = f[Child(p, c[p])] => r = Child(p, c[p]))
                          /\ (f[r] = f[q] => r = q)
      BY <2>3, LinkFacts, NULLIsNoAddress
    <3>2. /\ \A r \in C : /\ r # q /\ r # Child(p, c[p]) => g[f[r]].next = h[f[r]].next
                          /\ g[f[r]].first = h[f[r]].first
          /\ g[f[q]].prev = f[Child(p, c[p])] /\ g[f[Child(p, c[p])]].next = f[q]
          /\ g[f[q]].next = NULL
      BY <1>1, <1>2, <2>3, <3>1
    <3>3. QED
      BY <2>1, <2>3, <3>2, LinkedMore, SMTT(30)
  <2>4. QED
    BY <2>2, <2>3
<1>4. ASSUME NEW a \in Pointers \ At(f)
      PROVE  g[a] = h[a]
  <2>1. a # f[p] /\ a # f[q]
    BY LinkFacts
  <2>2. c[p] # 0 => a # old
    <3>1. c[p] # 0 => Child(p, c[p]) \in C /\ old = f[Child(p, c[p])]
      BY <1>2, LinkFacts
    <3>2. QED
      BY <3>1 DEF At, Laid, Layout
  <2>3. c[p] = 0 => a # old
    BY <1>2, <2>1
  <2>4. QED
    BY <1>1, <2>1, <2>2, <2>3
<1>5. QED
  BY <1>3, <1>4
-----------------------------------------------------------------------------
(***************************************************************************)
(* Reach is closed: there are only Memory nodes, so that one of Memory + 1 *)
(* steps finds nothing new.                                                *)
(***************************************************************************)
LEMMA NodesAreFinite == IsFiniteSet(Addresses) /\ Cardinality(Addresses) = Memory
<1>1. Addresses = 1 .. Memory /\ Memory \in Nat /\ Memory >= 1
  BY MemoryAssumption DEF Addresses, Server!Addresses
<1>2. 1 \in Int /\ Memory \in Int
  BY <1>1
<1>3. IsFiniteSet(1 .. Memory) /\ Cardinality(1 .. Memory) = IF 1 > Memory THEN 0 ELSE Memory - 1 + 1
  BY <1>2, FS_Interval
<1>4. QED
  BY <1>1, <1>3

LEMMA ReachIsClosed ==
  ASSUME NEW h, Heap(h), NEW from, from \subseteq Pointers
  PROVE  /\ Closed(h, Server!Reach(h, from))
         /\ from \ {NULL} \subseteq Server!Reach(h, from)
<1>1. PICK step : /\ step[0] = from \ {NULL}
                  /\ \A n \in Nat : n < Memory => step[n + 1] = Onward(h, step[n])
                  /\ Server!Reach(h, from) = step[Memory]
  BY ReachInSteps
<1> DEFINE Done(s) == Onward(h, s) = s
           Q == {n \in Nat : n <= Memory =>
                   /\ step[n] \subseteq Addresses /\ from \ {NULL} \subseteq step[n]
                   /\ Done(step[n]) \/ Cardinality(step[n]) >= n + 1}
<1>n. Memory \in Nat
  BY MemoryAssumption
<1>a. \A a \in Addresses : h[a].first \in Pointers /\ h[a].next \in Pointers
  BY DEF Heap, Pointers, NodeType
<1>c. ASSUME NEW S, S \subseteq Addresses
      PROVE  IsFiniteSet(S) /\ Cardinality(S) \in Nat /\ Cardinality(S) <= Memory
  BY <1>c, NodesAreFinite, FS_Subset, FS_CardinalityType
<1>2. 0 \in Q
  <2>1. step[0] = from \ {NULL} /\ step[0] \subseteq Addresses
    BY <1>1 DEF Pointers
  <2>2. Done(step[0]) \/ step[0] # {}
    BY DEF Onward
  <2>3. step[0] # {} => Cardinality(step[0]) >= 0 + 1
    <3>1. IsFiniteSet(step[0]) /\ Cardinality(step[0]) \in Nat
      BY <1>c, <2>1
    <3>2. step[0] # {} => Cardinality(step[0]) # 0
      BY <3>1, FS_EmptySet
    <3>3. QED
      BY <3>1, <3>2
  <2>4. QED
    BY <2>1, <2>2, <2>3
<1>3. ASSUME NEW n \in Nat, n \in Q
      PROVE  n + 1 \in Q
  <2>1. SUFFICES ASSUME n + 1 <= Memory
                 PROVE  /\ step[n + 1] \subseteq Addresses /\ from \ {NULL} \subseteq step[n + 1]
                        /\ Done(step[n + 1]) \/ Cardinality(step[n + 1]) >= (n + 1) + 1
    OBVIOUS
  <2>2. n < Memory /\ n <= Memory
    BY <1>n, <2>1
  <2>3. /\ step[n + 1] = Onward(h, step[n]) /\ step[n] \subseteq Addresses
        /\ from \ {NULL} \subseteq step[n]
        /\ Done(step[n]) \/ Cardinality(step[n]) >= n + 1
    BY <1>1, <1>3, <2>2
  <2>4. step[n] \subseteq step[n + 1]
    BY <2>3 DEF Onward
  <2>5. step[n + 1] \subseteq Addresses
    BY <1>a, <2>3 DEF Onward, Pointers
  <2>6. CASE Done(step[n])
    BY <2>3, <2>4, <2>5, <2>6
  <2>7. CASE ~Done(step[n])
    <3>1. PICK x \in step[n + 1] : x \notin step[n]
      BY <2>3, <2>4, <2>7
    <3>2. Cardinality(step[n] \cup {x}) = Cardinality(step[n]) + 1
      <4>1. IsFiniteSet(step[n])
        BY <1>c, <2>3
      <4>2. QED
        BY <3>1, <4>1, FS_AddElement
    <3>3. Cardinality(step[n] \cup {x}) <= Cardinality(step[n + 1])
      <4>1. IsFiniteSet(step[n + 1]) /\ step[n] \cup {x} \in SUBSET step[n + 1]
        BY <1>c, <2>4, <2>5, <3>1
      <4>2. QED
        BY <4>1, FS_Subset
    <3>4. Cardinality(step[n]) \in Nat /\ Cardinality(step[n + 1]) \in Nat
      BY <1>c, <2>3, <2>5
    <3>5. Cardinality(step[n + 1]) >= (n + 1) + 1
      BY <2>3, <2>7, <3>2, <3>3, <3>4
    <3>6. QED
      BY <2>3, <2>4, <2>5, <3>5
  <2>8. QED
    BY <2>6, <2>7
<1>4. Nat \subseteq Q
  <2> HIDE DEF Q
  <2> QED
    BY <1>2, <1>3, SetInduction
<1> DEFINE S == step[Memory]
<1>5. /\ S \subseteq Addresses /\ from \ {NULL} \subseteq S
      /\ Done(S) \/ Cardinality(S) >= Memory + 1
  BY <1>n, <1>4
<1> HIDE DEF S
<1>6. Done(S)
  <2>1. Cardinality(S) \in Nat /\ Cardinality(S) <= Memory
    BY <1>c, <1>5
  <2>2. QED
    BY <1>n, <1>5, <2>1
<1>7. Closed(h, S)
  BY <1>6 DEF Closed, Onward
<1>8. QED
  BY <1>1, <1>5, <1>7 DEF S
-----------------------------------------------------------------------------
(***************************************************************************)
(* What can be reached from a network of which all nodes are linked.       *)
(***************************************************************************)
Joined(C, c) == \A q \in C : q # Root => \E p \in C : \E n \in 1 .. c[p] : q = Child(p, n)

LEMMA LayoutIsClosed ==
  ASSUME NEW w, NEW h, NEW C, NEW f, NEW c, Laid(w, h, C, f, c), Joined(C, c)
  PROVE  Closed(h, At(f))
<1>1. /\ Root \in C /\ f \in [C -> Addresses] /\ c \in [C -> Nat]
      /\ h[f[Root]].next = NULL
      /\ \A p \in C : Lays(w, h, C, f, c, p)
      /\ \A p \in C : \A n \in 1 .. c[p] : Links(h, C, f, c, p, n)
  BY DEF Laid, Layout
<1>2. SUFFICES ASSUME NEW p \in C
               PROVE  /\ h[f[p]].first # NULL => h[f[p]].first \in At(f)
                      /\ h[f[p]].next # NULL => h[f[p]].next \in At(f)
  BY <1>1 DEF Closed, At
<1>3. \A r \in C : f[r] \in At(f)
  BY <1>1 DEF At
<1>4. h[f[p]].first # NULL => h[f[p]].first \in At(f)
  <2>1. SUFFICES ASSUME h[f[p]].first # NULL
                 PROVE  h[f[p]].first \in At(f)
    OBVIOUS
  <2>2. c[p] # 0 /\ c[p] \in Nat /\ h[f[p]].first = f[Child(p, 1)]
    BY <1>1, <2>1 DEF Lays
  <2>3. 1 \in 1 .. c[p]
    BY <2>2
  <2>4. Child(p, 1) \in C
    BY <1>1, <2>3 DEF Links
  <2>5. QED
    BY <1>3, <2>2, <2>4
<1>5. h[f[p]].next # NULL => h[f[p]].next \in At(f)
  <2>1. CASE p = Root
    BY <1>1, <2>1
  <2>2. CASE p # Root
    <3>1. PICK r \in C : \E n \in 1 .. c[r] : p = Child(r, n)
      BY <2>2 DEF Joined
    <3>2. PICK n \in 1 .. c[r] : p = Child(r, n)
      BY <3>1
    <3>3. c[r] \in Nat /\ n \in Nat /\ n <= c[r] /\ Links(h, C, f, c, r, n)
      BY <1>1
    <3>4. CASE n < c[r]
      <4>1. n + 1 \in 1 .. c[r]
        BY <3>3, <3>4
      <4>2. Child(r, n + 1) \in C /\ h[f[p]].next = f[Child(r, n + 1)]
        BY <1>1, <3>2, <3>3, <3>4, <4>1 DEF Links
      <4>3. QED
        BY <1>3, <4>2
    <3>5. CASE n = c[r]
      <4>1. h[f[p]].next = NULL \/ h[f[p]].next = f[p]
        BY <3>2, <3>3, <3>5 DEF Links
      <4>2. QED
        BY <1>3, <4>1
    <3>6. QED
      BY <3>3, <3>4, <3>5
  <2>3. QED
    BY <2>1, <2>2
<1>6. QED
  BY <1>4, <1>5

LEMMA ListIsReached ==
  ASSUME NEW w, NEW h, NEW C, NEW f, NEW c, Laid(w, h, C, f, c),
         NEW T, Closed(h, T), NEW p \in C, f[p] \in T
  PROVE  \A n \in 1 .. c[p] : f[Child(p, n)] \in T
<1>1. /\ f \in [C -> Addresses] /\ c[p] \in Nat
      /\ Lays(w, h, C, f, c, p)
      /\ \A n \in 1 .. c[p] : Links(h, C, f, c, p, n)
  BY DEF Laid, Layout
<1>2. \A n \in 1 .. c[p] : Child(p, n) \in C /\ f[Child(p, n)] # NULL
  BY <1>1, NULLIsNoAddress DEF Links
<1> DEFINE P == {n \in Nat : n \in 1 .. c[p] => f[Child(p, n)] \in T}
<1>3. 0 \in P
  OBVIOUS
<1>4. ASSUME NEW n \in Nat, n \in P
      PROVE  n + 1 \in P
  <2>1. SUFFICES ASSUME n + 1 \in 1 .. c[p]
                 PROVE  f[Child(p, n + 1)] \in T
    OBVIOUS
  <2>2. CASE n = 0
    <3>1. c[p] # 0
      BY <1>1, <2>1
    <3>2. h[f[p]].first = f[Child(p, 1)] /\ n + 1 = 1
      BY <1>1, <2>2, <3>1 DEF Lays
    <3>3. QED
      BY <1>2, <2>1, <3>2 DEF Closed
  <2>3. CASE n # 0
    <3>1. n \in 1 .. c[p] /\ n < c[p]
      BY <1>1, <2>1, <2>3
    <3>2. h[f[Child(p, n)]].next = f[Child(p, n + 1)] /\ f[Child(p, n)] \in T
      BY <1>1, <1>4, <3>1 DEF Links
    <3>3. QED
      BY <1>2, <2>1, <3>2 DEF Closed
  <2>4. QED
    BY <2>2, <2>3
<1>5. Nat \subseteq P
  <2> HIDE DEF P
  <2> QED
    BY <1>3, <1>4, SetInduction
<1>6. QED
  BY <1>1, <1>5

LEMMA LayoutIsReached ==
  ASSUME NEW w, IsShape(w), NEW h, NEW C, NEW f, NEW c, Laid(w, h, C, f, c), Joined(C, c),
         NEW T, Closed(h, T), f[Root] \in T
  PROVE  At(f) \subseteq T
<1>1. /\ C \subseteq Sites(w) /\ Root \in C /\ f \in [C -> Addresses]
      /\ \A p \in C : Lays(w, h, C, f, c, p) /\ c[p] \in Nat
  BY DEF Laid, Layout
<1>2. ASSUME NEW q \in C, q # Root
      PROVE  \E p \in C : /\ f[p] \in T => f[q] \in T
                          /\ \E n \in 1 .. c[p] : q = Child(p, n)
                          /\ SizeOf(w, p) \in Nat /\ SizeOf(w, p) # 0
  <2>1. PICK p \in C : \E n \in 1 .. c[p] : q = Child(p, n)
    BY <1>2 DEF Joined
  <2>2. f[p] \in T => f[q] \in T
    BY <2>1, ListIsReached
  <2>3. c[p] \in Nat /\ c[p] # 0 /\ c[p] <= SizeOf(w, p) /\ SizeOf(w, p) \in Nat
    BY <1>1, <2>1, SiteFacts DEF Lays
  <2>4. QED
    BY <2>1, <2>2, <2>3
<1>t. \A i, j, k : <<i, j, k>>[1] = i /\ <<i, j, k>>[2] = j /\ <<i, j, k>>[3] = k
  OBVIOUS
<1>s. \A p \in C : /\ p[1] \in Nat /\ p[2] \in Nat /\ p[3] \in Nat
                   /\ InShape(w, p[1], p[2], p[3]) /\ p = <<p[1], p[2], p[3]>>
  BY <1>1, SiteIsTriple
<1>3. ASSUME NEW q \in C, q[2] = 0
      PROVE  f[q] \in T
  <2>1. SUFFICES ASSUME q # Root
                 PROVE  f[q] \in T
    OBVIOUS
  <2>2. PICK p \in C : /\ f[p] \in T => f[q] \in T
                       /\ \E n \in 1 .. c[p] : q = Child(p, n)
    BY <1>2, <2>1
  <2>3. p[1] = 0
    BY <1>1, <1>3, <1>s, <1>t, <2>2 DEF Child
  <2>4. p = Root
    BY <1>s, <2>3 DEF InShape, Root
  <2>5. QED
    BY <2>2, <2>4
<1>4. ASSUME NEW q \in C, q[3] = 0
      PROVE  f[q] \in T
  <2>1. SUFFICES ASSUME q # Root
                 PROVE  f[q] \in T
    OBVIOUS
  <2>2. PICK p \in C : /\ f[p] \in T => f[q] \in T
                       /\ \E n \in 1 .. c[p] : q = Child(p, n)
    BY <1>2, <2>1
  <2>3. p[2] = 0
    BY <1>1, <1>4, <1>s, <1>t, <2>2 DEF Child, InShape
  <2>4. QED
    BY <1>3, <2>2, <2>3
<1>5. ASSUME NEW q \in C
      PROVE  f[q] \in T
  <2>1. SUFFICES ASSUME q # Root
                 PROVE  f[q] \in T
    OBVIOUS
  <2>2. PICK p \in C : /\ f[p] \in T => f[q] \in T
                       /\ SizeOf(w, p) # 0
    BY <1>2, <2>1
  <2>3. p[3] = 0
    BY <1>s, <2>2 DEF SizeOf, InShape
  <2>4. QED
    BY <1>4, <2>2, <2>3
<1>6. QED
  BY <1>1, <1>5 DEF At

LEMMA ReachOfLayout ==
  ASSUME NEW w, IsShape(w), NEW h, Heap(h), NEW C, NEW f, NEW c,
         Laid(w, h, C, f, c), Joined(C, c)
  PROVE  Server!Reach(h, {f[Root]}) = At(f)
<1>1. f[Root] \in Addresses /\ f[Root] \in At(f) /\ {f[Root]} \subseteq Pointers
      /\ f[Root] # NULL
  BY NULLIsNoAddress DEF Laid, Layout, At, Pointers
<1>2. Server!Reach(h, {f[Root]}) \subseteq At(f)
  BY <1>1, LayoutIsClosed, ReachIsLeast
<1>3. Closed(h, Server!Reach(h, {f[Root]})) /\ f[Root] \in Server!Reach(h, {f[Root]})
  BY <1>1, ReachIsClosed
<1>4. At(f) \subseteq Server!Reach(h, {f[Root]})
  BY <1>3, LayoutIsReached
<1>5. QED
  BY <1>2, <1>4

LEMMA ReachOfTwo ==
  ASSUME NEW w, IsShape(w), NEW h, Heap(h), NEW C, NEW f, NEW c,
         Laid(w, h, C, f, c), Joined(C, c),
         NEW D, NEW e, NEW d, Laid(w, h, D, e, d), Joined(D, d)
  PROVE  Server!Reach(h, {f[Root], e[Root]}) = At(f) \cup At(e)
<1> DEFINE from == {f[Root], e[Root]}
<1>1. /\ f[Root] \in At(f) /\ e[Root] \in At(e) /\ from \subseteq Pointers
      /\ f[Root] # NULL /\ e[Root] # NULL
  BY NULLIsNoAddress DEF Laid, Layout, At, Pointers
<1>2. Closed(h, At(f) \cup At(e))
  <2>1. Closed(h, At(f)) /\ Closed(h, At(e))
    BY LayoutIsClosed
  <2>2. QED
    BY <2>1 DEF Closed
<1>3. Server!Reach(h, from) \subseteq At(f) \cup At(e)
  BY <1>1, <1>2, ReachIsLeast
<1>4. /\ Closed(h, Server!Reach(h, from))
      /\ f[Root] \in Server!Reach(h, from) /\ e[Root] \in Server!Reach(h, from)
  BY <1>1, ReachIsClosed
<1>5. At(f) \subseteq Server!Reach(h, from) /\ At(e) \subseteq Server!Reach(h, from)
  BY <1>4, LayoutIsReached
<1>6. QED
  BY <1>3, <1>5
-----------------------------------------------------------------------------
(***************************************************************************)
(* A network with all of its nodes, in which no list has just one: copies  *)
(* of a list of one are rings.                                             *)
(***************************************************************************)
Full(w) == [p \in Sites(w) |-> SizeOf(w, p)]
Whole(w, h, f, r) == Laid(w, h, Sites(w), f, Full(w)) /\ f[Root] = r
NoneOfOne(w) == \A i \in 1 .. Len(w) : w[i] # 1

LEMMA NoListOfOne ==
  ASSUME NEW w, IsShape(w), NoneOfOne(w), NEW p \in Sites(w)
  PROVE  SizeOf(w, p) # 1
<1>1. /\ p[1] \in Nat /\ p[2] \in Nat /\ p[3] \in Nat
      /\ InShape(w, p[1], p[2], p[3])
  BY SiteIsTriple
<1>2. Len(w) \in Nat /\ Len(w) >= 2
  BY ShapeFacts
<1>3. QED
  BY <1>1, <1>2 DEF SizeOf, InShape, WeightsOf, NoneOfOne

LEMMA WholeFacts ==
  ASSUME NEW w, IsShape(w), NoneOfOne(w), NEW h, NEW f, NEW r, Whole(w, h, f, r),
         NEW p \in Sites(w)
  PROVE  /\ f[p] \in Addresses /\ f[p] \in At(f)
         /\ h[f[p]].kind = KindOf(p) /\ h[f[p]].size = SizeOf(w, p)
         /\ SizeOf(w, p) \in Nat
         /\ h[f[p]].first = IF SizeOf(w, p) = 0 THEN NULL ELSE f[Child(p, 1)]
         /\ h[f[p]].last = IF SizeOf(w, p) = 0 THEN NULL ELSE f[Child(p, SizeOf(w, p))]
         /\ \A n \in 1 .. SizeOf(w, p) :
              /\ Child(p, n) \in Sites(w) /\ Child(p, n) # Root
              /\ h[f[Child(p, n)]].next =
                   IF n = SizeOf(w, p) THEN NULL ELSE f[Child(p, n + 1)]
              /\ n > 1 => h[f[Child(p, n)]].prev = f[Child(p, n - 1)]
<1>1. /\ f \in [Sites(w) -> Addresses] /\ Full(w)[p] = SizeOf(w, p)
      /\ Lays(w, h, Sites(w), f, Full(w), p)
      /\ \A n \in 1 .. SizeOf(w, p) : Links(h, Sites(w), f, Full(w), p, n)
  BY DEF Whole, Laid, Layout, Full
<1>2. SizeOf(w, p) \in Nat /\ SizeOf(w, p) # 1
  BY SiteFacts, NoListOfOne
<1>3. ASSUME NEW n \in 1 .. SizeOf(w, p)
      PROVE  /\ Child(p, n) \in Sites(w) /\ Child(p, n) # Root
             /\ h[f[Child(p, n)]].next =
                  IF n = SizeOf(w, p) THEN NULL ELSE f[Child(p, n + 1)]
             /\ n > 1 => h[f[Child(p, n)]].prev = f[Child(p, n - 1)]
  <2>1. Links(h, Sites(w), f, Full(w), p, n)
    BY <1>1
  <2>2. n < SizeOf(w, p) \/ n = SizeOf(w, p)
    BY <1>2
  <2>3. QED
    BY <1>1, <1>2, <2>1, <2>2, ChildIsSite DEF Links
<1>4. QED
  BY <1>1, <1>2, <1>3 DEF Lays, At

LEMMA WholeIsJoined ==
  ASSUME NEW w, IsShape(w)
  PROVE  Joined(Sites(w), Full(w))
<1>1. ASSUME NEW q \in Sites(w), q # Root
      PROVE  \E p \in Sites(w) : \E n \in 1 .. Full(w)[p] : q = Child(p, n)
  <2>1. PICK p \in Sites(w) : \E n \in 1 .. SizeOf(w, p) : q = Child(p, n)
    BY <1>1, SiteHasParent
  <2>2. Full(w)[p] = SizeOf(w, p)
    BY DEF Full
  <2>3. QED
    BY <2>1, <2>2
<1>2. QED
  BY <1>1 DEF Joined

\* Children finds the sites of a list, in their order.
LEMMA ChildrenOfWhole ==
  ASSUME NEW w, IsShape(w), NoneOfOne(w), NEW h, NEW f, NEW r, Whole(w, h, f, r),
         NEW p \in Sites(w)
  PROVE  Server!Children(h, f[p]) = [i \in 1 .. SizeOf(w, p) |-> f[Child(p, i)]]
<1> DEFINE n == SizeOf(w, p)
           Lists(s) == s = [i \in 1 .. h[f[p]].size |->
                             IF i = 1 THEN h[f[p]].first ELSE h[s[i - 1]].next]
           list == [i \in 1 .. n |-> f[Child(p, i)]]
           child == CHOOSE s : Lists(s)
<1>1. /\ h[f[p]].size = n /\ n \in Nat
      /\ n # 0 => h[f[p]].first = f[Child(p, 1)]
      /\ \A i \in 1 .. n : i < n => h[f[Child(p, i)]].next = f[Child(p, i + 1)]
  BY WholeFacts
<1> HIDE DEF n
<1>2. Lists(list)
  <2>1. ASSUME NEW i \in 1 .. n
        PROVE  list[i] = IF i = 1 THEN h[f[p]].first ELSE h[list[i - 1]].next
    <3>1. CASE i = 1
      BY <1>1, <3>1
    <3>2. CASE i # 1
      <4>1. i - 1 \in 1 .. n /\ i - 1 < n /\ (i - 1) + 1 = i
        BY <1>1, <3>2
      <4>2. h[f[Child(p, i - 1)]].next = f[Child(p, i)] /\ list[i - 1] = f[Child(p, i - 1)]
        BY <1>1, <4>1
      <4>3. QED
        BY <3>2, <4>2
    <3>3. QED
      BY <3>1, <3>2
  <2>2. list = [i \in 1 .. n |-> list[i]]
    OBVIOUS
  <2> HIDE DEF list
  <2>3. QED
    BY <1>1, <2>1, <2>2
<1>3. Lists(child)
  <2>1. \E s : Lists(s)
    <3> HIDE DEF Lists, list
    <3> QED
      BY <1>2
  <2> HIDE DEF Lists
  <2>2. QED
    BY <2>1, Zenon
<1>4. Server!Children(h, f[p]) = child
  BY Zenon DEF Server!Children
<1> HIDE DEF child
<1> DEFINE P == {m \in Nat : m \in 1 .. n => child[m] = f[Child(p, m)]}
<1>5. 0 \in P
  OBVIOUS
<1>6. ASSUME NEW m \in Nat, m \in P
      PROVE  m + 1 \in P
  <2>1. SUFFICES ASSUME m + 1 \in 1 .. n
                 PROVE  child[m + 1] = f[Child(p, m + 1)]
    OBVIOUS
  <2>2. child[m + 1] = IF m + 1 = 1 THEN h[f[p]].first ELSE h[child[(m + 1) - 1]].next
    BY <1>1, <1>3, <2>1
  <2>3. CASE m = 0
    BY <1>1, <2>1, <2>2, <2>3
  <2>4. CASE m # 0
    <3>1. m \in 1 .. n /\ m < n /\ (m + 1) - 1 = m /\ m + 1 # 1
      BY <1>1, <2>1, <2>4
    <3>2. child[m] = f[Child(p, m)]
      BY <1>6, <3>1
    <3>3. QED
      BY <1>1, <2>2, <3>1, <3>2
  <2>5. QED
    BY <2>3, <2>4
<1>7. Nat \subseteq P
  <2> HIDE DEF P
  <2> QED
    BY <1>5, <1>6, SetInduction
<1>8. \A m \in 1 .. n : child[m] = f[Child(p, m)]
  BY <1>1, <1>7
<1>9. child = list
  BY <1>1, <1>3, <1>8
<1>10. QED
  BY <1>4, <1>9 DEF n

LEMMA RootSite ==
  ASSUME NEW w
  PROVE  /\ Root \in Sites(w) /\ SizeOf(w, Root) = Len(w) /\ KindOf(Root) = "net"
         /\ \A n : Child(Root, n) = <<n, 0, 0>>
<1>1. \A n : Child(Root, n) = <<n, 0, 0>>
  BY DEF Child, Root
<1>2. QED
  BY <1>1, RootIsSite

LEMMA LayerSite ==
  ASSUME NEW w, IsShape(w), NEW i \in 1 .. Len(w)
  PROVE  /\ <<i, 0, 0>> \in Sites(w) /\ SizeOf(w, <<i, 0, 0>>) = w[i]
         /\ KindOf(<<i, 0, 0>>) = "layer"
         /\ \A n : Child(<<i, 0, 0>>, n) = <<i, n, 0>>
<1>1. i \in Nat /\ i # 0
  BY ShapeFacts
<1>2. InShape(w, i, 0, 0)
  BY DEF InShape
<1>3. QED
  BY <1>1, <1>2, TripleIsSite DEF SizeOf, KindOf, Child

LEMMA NeuronSite ==
  ASSUME NEW w, IsShape(w), NEW i \in 1 .. Len(w), NEW j \in 1 .. w[i]
  PROVE  /\ <<i, j, 0>> \in Sites(w) /\ SizeOf(w, <<i, j, 0>>) = WeightsOf(w, i)
         /\ KindOf(<<i, j, 0>>) = "neuron"
         /\ \A n : Child(<<i, j, 0>>, n) = <<i, j, n>>
<1>1. i \in Nat /\ i # 0 /\ j \in Nat /\ j # 0
  BY ShapeFacts
<1>2. InShape(w, i, j, 0)
  BY ShapeFacts DEF InShape
<1>3. QED
  BY <1>1, <1>2, TripleIsSite DEF SizeOf, KindOf, Child

LEMMA WeightSite ==
  ASSUME NEW w, IsShape(w), NEW i \in 1 .. Len(w), NEW j \in 1 .. w[i],
         NEW k \in 1 .. WeightsOf(w, i)
  PROVE  /\ <<i, j, k>> \in Sites(w) /\ SizeOf(w, <<i, j, k>>) = 0
         /\ KindOf(<<i, j, k>>) = "weight"
<1>1. i \in Nat /\ i # 0 /\ j \in Nat /\ j # 0 /\ k \in Nat /\ k # 0
  BY ShapeFacts
<1>2. InShape(w, i, j, k)
  BY ShapeFacts DEF InShape
<1>3. QED
  BY <1>1, <1>2, TripleIsSite DEF SizeOf, KindOf

LEMMA ListOfWhole ==
  ASSUME IsShape(net), NoneOfOne(net), Heap(heap), NEW f, NEW r, Whole(net, heap, f, r),
         NEW p \in Sites(net), NEW kind, NEW n, n = SizeOf(net, p),
         \A i \in 1 .. n : KindOf(Child(p, i)) = kind
  PROVE  Server!ListIsSound(f[p], kind, n)
<1> DEFINE node == Server!Children(heap, f[p])
<1>1. node = [i \in 1 .. n |-> f[Child(p, i)]]
  BY ChildrenOfWhole
<1> HIDE DEF node
<1>2. /\ heap[f[p]].size = n /\ n \in Nat
      /\ heap[f[p]].last = IF n = 0 THEN NULL ELSE f[Child(p, n)]
      /\ \A i \in 1 .. n :
           /\ Child(p, i) \in Sites(net)
           /\ heap[f[Child(p, i)]].next = IF i = n THEN NULL ELSE f[Child(p, i + 1)]
           /\ i > 1 => heap[f[Child(p, i)]].prev = f[Child(p, i - 1)]
  BY WholeFacts
<1>3. \A i \in 1 .. n : heap[node[i]].kind = kind
  BY <1>1, <1>2, WholeFacts
<1>4. ASSUME NEW i \in 2 .. n
      PROVE  node[i] # node[i - 1] /\ heap[node[i]].prev = node[i - 1]
  <2>1. i \in 1 .. n /\ i - 1 \in 1 .. n /\ i > 1 /\ i # i - 1
    BY <1>2
  <2>2. node[i] = f[Child(p, i)] /\ node[i - 1] = f[Child(p, i - 1)]
    BY <1>1, <2>1
  <2>3. Child(p, i) # Child(p, i - 1)
    BY <2>1, ChildIsUnique
  <2>4. f[Child(p, i)] # f[Child(p, i - 1)]
    BY <1>2, <2>1, <2>3 DEF Whole, Laid, Layout
  <2>5. QED
    BY <1>2, <2>1, <2>2, <2>4
<1>5. heap[f[p]].last = IF n = 0 THEN Server!NULL ELSE node[n]
  BY <1>1, <1>2 DEF NULL
<1>6. heap[heap[f[p]].last].next = Server!NULL
  <2>1. CASE n = 0
    BY <1>2, <2>1, FreedNode DEF Heap, NULL
  <2>2. CASE n # 0
    BY <1>2, <2>2 DEF NULL
  <2>3. QED
    BY <2>1, <2>2
<1>7. QED
  BY <1>2, <1>3, <1>4, <1>5, <1>6 DEF Server!ListIsSound, node

LEMMA WholeIsSound ==
  ASSUME IsShape(net), NoneOfOne(net), Heap(heap), NEW f, NEW r, Whole(net, heap, f, r)
  PROVE  Server!NetworkIsSound(r) /\ Server!Walkable(r)
<1>c. \A p \in Sites(net) :
        Server!Children(heap, f[p]) = [i \in 1 .. SizeOf(net, p) |-> f[Child(p, i)]]
  BY ChildrenOfWhole
<1> DEFINE layers == Server!Children(heap, r)
           neurons(i) == Server!Children(heap, f[<<i, 0, 0>>])
           weights_(i, j) == Server!Children(heap, f[<<i, j, 0>>])
<1>1. f[Root] = r
  BY DEF Whole
<1>k. \A p \in Sites(net) : /\ heap[f[p]].kind = KindOf(p)
                            /\ heap[f[p]].size = SizeOf(net, p)
  BY WholeFacts
<1>2. /\ layers = [i \in 1 .. Len(net) |-> f[<<i, 0, 0>>]]
      /\ Server!ListIsSound(r, "layer", Len(net))
  <2>1. /\ Root \in Sites(net) /\ SizeOf(net, Root) = Len(net)
        /\ \A n : Child(Root, n) = <<n, 0, 0>>
        /\ \A n \in 1 .. Len(net) : KindOf(<<n, 0, 0>>) = "layer"
    BY RootSite, LayerSite, NeuronSite, WeightSite
  <2>2. Server!Children(heap, f[Root]) = [i \in 1 .. SizeOf(net, Root) |-> f[Child(Root, i)]]
    BY <1>c, <2>1
  <2>3. Server!ListIsSound(f[Root], "layer", Len(net))
    BY <2>1, ListOfWhole
  <2>4. QED
    BY <1>1, <2>1, <2>2, <2>3
<1>3. ASSUME NEW i \in 1 .. Len(net)
      PROVE  /\ neurons(i) = [j \in 1 .. net[i] |-> f[<<i, j, 0>>]]
             /\ Server!ListIsSound(f[<<i, 0, 0>>], "neuron", net[i])
  <2> DEFINE p == <<i, 0, 0>>
  <2>1. /\ p \in Sites(net) /\ SizeOf(net, p) = net[i]
        /\ \A n : Child(p, n) = <<i, n, 0>>
        /\ \A n \in 1 .. net[i] : KindOf(<<i, n, 0>>) = "neuron"
    BY RootSite, LayerSite, NeuronSite, WeightSite
  <2> HIDE DEF p
  <2>2. Server!Children(heap, f[p]) = [j \in 1 .. SizeOf(net, p) |-> f[Child(p, j)]]
    BY <1>c, <2>1
  <2>3. Server!ListIsSound(f[p], "neuron", net[i])
    BY <2>1, ListOfWhole
  <2>4. QED
    BY <2>1, <2>2, <2>3 DEF p
<1>4. ASSUME NEW i \in 1 .. Len(net), NEW j \in 1 .. net[i]
      PROVE  /\ weights_(i, j) = [k \in 1 .. WeightsOf(net, i) |-> f[<<i, j, k>>]]
             /\ Server!ListIsSound(f[<<i, j, 0>>], "weight", WeightsOf(net, i))
  <2> DEFINE p == <<i, j, 0>>
  <2>1. /\ p \in Sites(net) /\ SizeOf(net, p) = WeightsOf(net, i)
        /\ \A n : Child(p, n) = <<i, j, n>>
        /\ \A n \in 1 .. WeightsOf(net, i) : KindOf(<<i, j, n>>) = "weight"
    BY RootSite, LayerSite, NeuronSite, WeightSite
  <2> HIDE DEF p
  <2>2. Server!Children(heap, f[p]) = [k \in 1 .. SizeOf(net, p) |-> f[Child(p, k)]]
    BY <1>c, <2>1
  <2>3. Server!ListIsSound(f[p], "weight", WeightsOf(net, i))
    BY <2>1, ListOfWhole
  <2>4. QED
    BY <2>1, <2>2, <2>3 DEF p
<1>8. Server!NetworkIsSound(r)
  <2> HIDE DEF layers, neurons
  <2>1. \A i \in 1 .. Len(net) : /\ layers[i] = f[<<i, 0, 0>>]
                                 /\ \A j \in 1 .. net[i] : neurons(i)[j] = f[<<i, j, 0>>]
    BY <1>2, <1>3
  <2>2. \A i \in 1 .. Len(net) :
          /\ Server!ListIsSound(layers[i], "neuron", net[i])
          /\ \A j \in 1 .. net[i] :
               Server!ListIsSound(Server!Children(heap, layers[i])[j], "weight",
                                  IF i = 1 THEN 0 ELSE net[i - 1])
    <3>1. ASSUME NEW i \in 1 .. Len(net)
          PROVE  /\ Server!ListIsSound(layers[i], "neuron", net[i])
                 /\ \A j \in 1 .. net[i] :
                      Server!ListIsSound(Server!Children(heap, layers[i])[j], "weight",
                                         WeightsOf(net, i))
      <4>1. Server!Children(heap, layers[i]) = neurons(i)
        BY <2>1 DEF neurons
      <4>2. QED
        BY <1>3, <1>4, <2>1, <4>1, ZenonT(30)
    <3>2. QED
      BY <3>1 DEF WeightsOf
  <2>3. QED
    BY <1>2, <2>2 DEF Server!NetworkIsSound, layers
<1>9. Server!Walkable(r)
  <2> HIDE DEF layers, neurons, weights_
  <2>1. DOMAIN layers = 1 .. Len(net) /\ \A i \in 1 .. Len(net) : layers[i] = f[<<i, 0, 0>>]
    BY <1>2
  <2>2. ASSUME NEW i \in 1 .. Len(net)
        PROVE  /\ heap[f[<<i, 0, 0>>]].kind = "layer"
               /\ i > 1 => heap[f[<<i, 0, 0>>]].prev = f[<<i - 1, 0, 0>>]
    <3>1. /\ Root \in Sites(net) /\ SizeOf(net, Root) = Len(net)
          /\ Child(Root, i) = <<i, 0, 0>> /\ Child(Root, i - 1) = <<i - 1, 0, 0>>
      BY RootSite
    <3>2. heap[f[<<i, 0, 0>>]].kind = "layer"
      BY <1>k, LayerSite
    <3>3. i > 1 => heap[f[Child(Root, i)]].prev = f[Child(Root, i - 1)]
      BY <3>1, WholeFacts, SMTT(30)
    <3>4. QED
      BY <3>1, <3>2, <3>3
  <2>3. ASSUME NEW i \in 1 .. Len(net), NEW j \in 1 .. net[i]
        PROVE  /\ neurons(i)[j] = f[<<i, j, 0>>]
               /\ heap[f[<<i, j, 0>>]].kind = "neuron"
               /\ heap[f[<<i, j, 0>>]].size = WeightsOf(net, i)
    <3>1. neurons(i)[j] = f[<<i, j, 0>>]
      BY <1>3
    <3>2. QED
      BY <1>k, <3>1, NeuronSite
  <2>4. ASSUME NEW i \in 1 .. Len(net), NEW j \in 1 .. net[i], NEW k \in 1 .. WeightsOf(net, i)
        PROVE  heap[weights_(i, j)[k]].kind = "weight"
    <3>1. weights_(i, j)[k] = f[<<i, j, k>>]
      BY <1>4
    <3>2. heap[f[<<i, j, k>>]].kind = "weight"
      BY <1>k, WeightSite
    <3>3. QED
      BY <3>1, <3>2
  <2>5. ASSUME NEW i \in 1 .. Len(net), i > 1
        PROVE  heap[layers[i - 1]].size = WeightsOf(net, i) /\ layers[i - 1] = f[<<i - 1, 0, 0>>]
    <3>1. i - 1 \in 1 .. Len(net) /\ i # 1
      BY <2>5, ShapeFacts
    <3>2. heap[f[<<i - 1, 0, 0>>]].size = net[i - 1]
      BY <1>k, <3>1, LayerSite
    <3>3. QED
      BY <2>1, <3>1, <3>2 DEF WeightsOf
  <2>6. ASSUME NEW i \in DOMAIN layers
        PROVE  LET ns == Server!Children(heap, layers[i])
               IN /\ heap[layers[i]].kind = "layer"
                  /\ i > 1 => heap[layers[i]].prev = layers[i - 1]
                  /\ \A j \in DOMAIN ns :
                       /\ heap[ns[j]].kind = "neuron"
                       /\ heap[ns[j]].size = (IF i = 1 THEN 0 ELSE heap[layers[i - 1]].size)
                       /\ \A v \in {Server!Children(heap, ns[j])[k] :
                                      k \in 1 .. heap[ns[j]].size} :
                            heap[v].kind = "weight"
    <3>0. i \in 1 .. Len(net)
      BY <2>1
    <3>1. Server!Children(heap, layers[i]) = neurons(i) /\ DOMAIN neurons(i) = 1 .. net[i]
      BY <1>3, <2>1, <3>0 DEF neurons
    <3>2. heap[layers[i]].kind = "layer" /\ (i > 1 => heap[layers[i]].prev = layers[i - 1])
      BY <2>1, <2>2, <2>5, <3>0
    <3>3. ASSUME NEW j \in 1 .. net[i]
          PROVE  /\ heap[neurons(i)[j]].kind = "neuron"
                 /\ heap[neurons(i)[j]].size = (IF i = 1 THEN 0 ELSE heap[layers[i - 1]].size)
                 /\ \A v \in {Server!Children(heap, neurons(i)[j])[k] :
                                k \in 1 .. heap[neurons(i)[j]].size} :
                      heap[v].kind = "weight"
      <4>1. /\ heap[neurons(i)[j]].kind = "neuron"
            /\ heap[neurons(i)[j]].size = WeightsOf(net, i)
            /\ Server!Children(heap, neurons(i)[j]) = weights_(i, j)
        BY <2>3, <3>0 DEF weights_
      <4>2. WeightsOf(net, i) = (IF i = 1 THEN 0 ELSE heap[layers[i - 1]].size)
        <5>1. i = 1 \/ i > 1
          BY <3>0, ShapeFacts
        <5>2. QED
          BY <2>5, <3>0, <5>1 DEF WeightsOf
      <4>3. QED
        BY <2>4, <3>0, <4>1, <4>2
    <3>4. QED
      BY <3>1, <3>2, <3>3
  <2>7. QED
    BY <2>6 DEF Server!Walkable, layers
<1>10. QED
  BY <1>8, <1>9
-----------------------------------------------------------------------------
(***************************************************************************)
(* A network that is being built or copied has its nodes up to the k-th    *)
(* weight of the j-th neuron of the i-th layer.  Of these, a layers, b     *)
(* neurons of the last layer and d weights of its last neuron are linked.  *)
(***************************************************************************)
PosOK(w, i, j, k) ==
  /\ i \in 0 .. Len(w)
  /\ i = 0 => j = 0
  /\ i > 0 => j \in 0 .. w[i]
  /\ j = 0 => k = 0
  /\ j > 0 => k \in 0 .. WeightsOf(w, i)
UpTo(w, i, j, k) ==
  {p \in Sites(w) : \/ p[1] < i
                    \/ p[1] = i /\ (p[2] < j \/ (p[2] = j /\ p[3] <= k))}
Count(w, i, j, a, b, d, p) ==
  IF p[1] = 0 THEN a
  ELSE IF p[1] = i /\ p[2] = 0 THEN b
  ELSE IF p[1] = i /\ p[2] = j /\ p[3] = 0 THEN d ELSE SizeOf(w, p)
Counts(w, i, j, k, a, b, d) == [p \in UpTo(w, i, j, k) |-> Count(w, i, j, a, b, d, p)]

Part(w, h, f, r, i, j, k, a, b, d) ==
  /\ PosOK(w, i, j, k) /\ f[Root] = r
  /\ Laid(w, h, UpTo(w, i, j, k), f, Counts(w, i, j, k, a, b, d))

LEMMA PosFacts ==
  ASSUME NEW w, IsShape(w), NEW i, NEW j, NEW k, PosOK(w, i, j, k)
  PROVE  /\ i \in Nat /\ j \in Nat /\ k \in Nat /\ Len(w) \in Nat
         /\ i <= Len(w)
         /\ i > 0 => i \in 1 .. Len(w) /\ w[i] \in Nat /\ w[i] > 0
                     /\ WeightsOf(w, i) \in Nat /\ j <= w[i]
                     /\ k <= WeightsOf(w, i)
         /\ j > 0 => i > 0
         /\ k > 0 => j > 0
BY ShapeFacts DEF PosOK

LEMMA SiteBounds ==
  ASSUME NEW w, IsShape(w), NEW p \in Sites(w)
  PROVE  /\ p[1] \in Nat /\ p[2] \in Nat /\ p[3] \in Nat
         /\ p = <<p[1], p[2], p[3]>>
         /\ p[1] = 0 => p[2] = 0 /\ p[3] = 0
         /\ p[1] > 0 => p[1] <= Len(w) /\ p[2] <= w[p[1]] /\ p[3] <= WeightsOf(w, p[1])
         /\ p[2] = 0 => p[3] = 0
<1>1. /\ p = <<p[1], p[2], p[3]>>
      /\ p[1] \in Nat /\ p[2] \in Nat /\ p[3] \in Nat
      /\ InShape(w, p[1], p[2], p[3])
  BY SiteIsTriple
<1>2. p[1] > 0 => /\ p[1] <= Len(w) /\ p[2] <= w[p[1]] /\ p[3] <= WeightsOf(w, p[1])
  BY <1>1, ShapeFacts DEF InShape
<1>3. QED
  BY <1>1, <1>2, ShapeFacts DEF InShape

\* The next node: a layer, a neuron or a weight.
LEMMA LayerIsNext ==
  ASSUME NEW w, IsShape(w), NEW i, NEW j, NEW k, PosOK(w, i, j, k), i < Len(w),
         i > 0 => j = w[i] /\ k = WeightsOf(w, i), NEW q, q = <<i + 1, 0, 0>>
  PROVE  /\ q \in Sites(w) /\ q \notin UpTo(w, i, j, k) /\ PosOK(w, i + 1, 0, 0)
         /\ UpTo(w, i + 1, 0, 0) = UpTo(w, i, j, k) \cup {q}
         /\ \A p \in UpTo(w, i, j, k) :
              Count(w, i + 1, 0, i, 0, 0, p) = Count(w, i, j, i, j, k, p)
         /\ Count(w, i + 1, 0, i, 0, 0, q) = 0
<1>0. /\ i \in Nat /\ j \in Nat /\ k \in Nat /\ Len(w) \in Nat /\ i + 1 \in 1 .. Len(w)
      /\ i = 0 => j = 0 /\ k = 0
  BY PosFacts
<1>1. /\ q \in Sites(w) /\ q[1] = i + 1 /\ q[2] = 0 /\ q[3] = 0
  BY <1>0, LayerSite
<1>2. PosOK(w, i + 1, 0, 0)
  BY <1>0, ShapeFacts DEF PosOK
<1>3. ASSUME NEW p \in Sites(w)
      PROVE  /\ p \in UpTo(w, i, j, k) <=> p[1] <= i
             /\ p \in UpTo(w, i + 1, 0, 0) <=> p[1] <= i \/ p = q
  <2>1. p[1] = i => p[2] <= j /\ p[3] <= k
    BY <1>0, SiteBounds
  <2>2. p = q <=> p[1] = i + 1 /\ p[2] = 0 /\ p[3] = 0
    BY <1>1, SiteBounds
  <2>3. QED
    BY <1>0, <2>1, <2>2, SiteBounds DEF UpTo
<1>4. /\ UpTo(w, i + 1, 0, 0) = UpTo(w, i, j, k) \cup {q} /\ q \notin UpTo(w, i, j, k)
  <2>1. UpTo(w, i + 1, 0, 0) \subseteq Sites(w) /\ UpTo(w, i, j, k) \subseteq Sites(w)
    BY DEF UpTo
  <2>2. ~(q[1] <= i)
    BY <1>0, <1>1
  <2>3. QED
    BY <1>1, <1>3, <2>1, <2>2
<1>5. ASSUME NEW p \in UpTo(w, i, j, k)
      PROVE  Count(w, i + 1, 0, i, 0, 0, p) = Count(w, i, j, i, j, k, p)
  <2>1. /\ p \in Sites(w) /\ p[1] \in Nat /\ p[1] <= i /\ p[1] # i + 1
    BY <1>0, <1>3, SiteBounds DEF UpTo
  <2>2. p[1] = i /\ p[1] # 0 /\ p[2] = 0 => SizeOf(w, p) = j
    BY <1>0, <2>1 DEF SizeOf
  <2>3. p[1] = i /\ p[1] # 0 /\ p[2] # 0 /\ p[3] = 0 => SizeOf(w, p) = k
    BY <1>0, <2>1 DEF SizeOf
  <2>4. QED
    BY <2>1, <2>2, <2>3 DEF Count
<1>6. Count(w, i + 1, 0, i, 0, 0, q) = 0
  BY <1>0, <1>1 DEF Count
<1>7. QED
  BY <1>1, <1>2, <1>4, <1>5, <1>6

LEMMA NeuronIsNext ==
  ASSUME NEW w, IsShape(w), NEW i, NEW j, NEW k, PosOK(w, i, j, k), i > 0, j < w[i],
         j > 0 => k = WeightsOf(w, i), NEW a, NEW q, q = <<i, j + 1, 0>>
  PROVE  /\ q \in Sites(w) /\ q \notin UpTo(w, i, j, k) /\ PosOK(w, i, j + 1, 0)
         /\ UpTo(w, i, j + 1, 0) = UpTo(w, i, j, k) \cup {q}
         /\ \A p \in UpTo(w, i, j, k) :
              Count(w, i, j + 1, a, j, 0, p) = Count(w, i, j, a, j, k, p)
         /\ Count(w, i, j + 1, a, j, 0, q) = 0
<1>0. /\ i \in Nat /\ j \in Nat /\ k \in Nat /\ Len(w) \in Nat /\ i \in 1 .. Len(w)
      /\ j + 1 \in 1 .. w[i] /\ WeightsOf(w, i) \in Nat
      /\ j = 0 => k = 0
  BY PosFacts
<1>1. /\ q \in Sites(w) /\ q[1] = i /\ q[2] = j + 1 /\ q[3] = 0
  BY <1>0, NeuronSite
<1>2. PosOK(w, i, j + 1, 0)
  BY <1>0, ShapeFacts DEF PosOK
<1>3. ASSUME NEW p \in Sites(w)
      PROVE  /\ p \in UpTo(w, i, j, k) <=> p[1] < i \/ (p[1] = i /\ p[2] <= j)
             /\ p \in UpTo(w, i, j + 1, 0) <=> p[1] < i \/ (p[1] = i /\ p[2] <= j) \/ p = q
  <2>1. p[1] = i /\ p[2] = j => p[3] <= k
    BY <1>0, SiteBounds
  <2>2. p = q <=> p[1] = i /\ p[2] = j + 1 /\ p[3] = 0
    BY <1>1, SiteBounds
  <2>3. p[1] \in Nat /\ p[2] \in Nat /\ p[3] \in Nat
    BY SiteBounds
  <2>o. /\ p[2] <= j <=> p[2] < j \/ p[2] = j
        /\ p[2] < j + 1 <=> p[2] <= j
        /\ p[3] <= 0 <=> p[3] = 0
    BY <1>0, <2>3, SMTT(30)
  <2>4. p \in UpTo(w, i, j, k) <=> p[1] < i \/ (p[1] = i /\ p[2] <= j)
    BY <2>1, <2>o, Zenon DEF UpTo
  <2>5. p \in UpTo(w, i, j + 1, 0) <=>
          p[1] < i \/ (p[1] = i /\ (p[2] < j + 1 \/ (p[2] = j + 1 /\ p[3] <= 0)))
    BY DEF UpTo
  <2>6. QED
    BY <2>2, <2>o, <2>4, <2>5, Zenon
<1>4. /\ UpTo(w, i, j + 1, 0) = UpTo(w, i, j, k) \cup {q} /\ q \notin UpTo(w, i, j, k)
  <2>1. UpTo(w, i, j + 1, 0) \subseteq Sites(w) /\ UpTo(w, i, j, k) \subseteq Sites(w)
    BY DEF UpTo
  <2>2. ~(q[1] < i) /\ ~(q[2] <= j)
    BY <1>0, <1>1
  <2>3. QED
    BY <1>1, <1>3, <2>1, <2>2
<1>5. ASSUME NEW p \in UpTo(w, i, j, k)
      PROVE  Count(w, i, j + 1, a, j, 0, p) = Count(w, i, j, a, j, k, p)
  <2>1. /\ p \in Sites(w) /\ p[1] \in Nat /\ p[2] \in Nat
        /\ p[1] < i \/ (p[1] = i /\ p[2] <= j)
    BY <1>0, <1>3, SiteBounds DEF UpTo
  <2>2. ~(p[1] = i /\ p[2] = j + 1)
    BY <1>0, <2>1
  <2>3. p[1] = i /\ p[2] = j /\ p[2] # 0 /\ p[3] = 0 => SizeOf(w, p) = k
    BY <1>0, <2>1 DEF SizeOf
  <2>4. QED
    BY <2>1, <2>2, <2>3 DEF Count
<1>6. Count(w, i, j + 1, a, j, 0, q) = 0
  BY <1>0, <1>1 DEF Count
<1>7. QED
  BY <1>1, <1>2, <1>4, <1>5, <1>6

LEMMA WeightIsNext ==
  ASSUME NEW w, IsShape(w), NEW i, NEW j, NEW k, PosOK(w, i, j, k), j > 0,
         k < WeightsOf(w, i), NEW q, q = <<i, j, k + 1>>
  PROVE  /\ q \in Sites(w) /\ q \notin UpTo(w, i, j, k) /\ PosOK(w, i, j, k + 1)
         /\ UpTo(w, i, j, k + 1) = UpTo(w, i, j, k) \cup {q}
         /\ \A a, b : Count(w, i, j, a, b, k, q) = 0
<1>0. /\ i \in Nat /\ j \in Nat /\ k \in Nat /\ Len(w) \in Nat /\ i \in 1 .. Len(w)
      /\ j \in 1 .. w[i] /\ WeightsOf(w, i) \in Nat /\ k + 1 \in 1 .. WeightsOf(w, i)
  BY PosFacts
<1>1. /\ q \in Sites(w) /\ SizeOf(w, q) = 0 /\ q[1] = i /\ q[2] = j /\ q[3] = k + 1
  BY <1>0, WeightSite
<1>2. PosOK(w, i, j, k + 1)
  BY <1>0, ShapeFacts DEF PosOK
<1>3. ASSUME NEW p \in Sites(w)
      PROVE  p \in UpTo(w, i, j, k + 1) <=> p \in UpTo(w, i, j, k) \/ p = q
  <2>1. p = q <=> p[1] = i /\ p[2] = j /\ p[3] = k + 1
    BY <1>1, SiteBounds
  <2>2. p[1] \in Nat /\ p[2] \in Nat /\ p[3] \in Nat
    BY SiteBounds
  <2>3. p \in UpTo(w, i, j, k + 1) <=>
          p[1] < i \/ (p[1] = i /\ (p[2] < j \/ (p[2] = j /\ p[3] <= k + 1)))
    BY DEF UpTo
  <2>4. p \in UpTo(w, i, j, k) <=>
          p[1] < i \/ (p[1] = i /\ (p[2] < j \/ (p[2] = j /\ p[3] <= k)))
    BY DEF UpTo
  <2>5. p[3] <= k + 1 <=> p[3] <= k \/ p[3] = k + 1
    BY <1>0, <2>2
  <2>6. QED
    BY <2>1, <2>3, <2>4, <2>5, Zenon
<1>4. /\ UpTo(w, i, j, k + 1) = UpTo(w, i, j, k) \cup {q} /\ q \notin UpTo(w, i, j, k)
  <2>1. UpTo(w, i, j, k + 1) \subseteq Sites(w) /\ UpTo(w, i, j, k) \subseteq Sites(w)
    BY DEF UpTo
  <2>2. q \notin UpTo(w, i, j, k)
    BY <1>0, <1>1 DEF UpTo
  <2>3. QED
    BY <1>1, <1>3, <2>1, <2>2
<1>5. \A a, b : Count(w, i, j, a, b, k, q) = 0
  BY <1>0, <1>1 DEF Count
<1>6. QED
  BY <1>1, <1>2, <1>4, <1>5

\* The node to be linked next, and the list that it is for.
LEMMA LayerIsLinked ==
  ASSUME NEW w, IsShape(w), NEW i, NEW j, NEW k, PosOK(w, i, j, k), i > 0,
         NEW b, NEW d, NEW q, q = <<i, 0, 0>>
  PROVE  /\ Root \in UpTo(w, i, j, k) /\ q \in UpTo(w, i, j, k)
         /\ Count(w, i, j, i - 1, b, d, Root) = i - 1 /\ i - 1 < SizeOf(w, Root)
         /\ q = Child(Root, (i - 1) + 1)
         /\ \A p \in UpTo(w, i, j, k) :
              Count(w, i, j, i, b, d, p) = IF p = Root THEN (i - 1) + 1
                                           ELSE Count(w, i, j, i - 1, b, d, p)
<1>0. /\ i \in Nat /\ j \in Nat /\ k \in Nat /\ Len(w) \in Nat /\ i \in 1 .. Len(w)
  BY PosFacts
<1>1. q \in Sites(w) /\ q[1] = i /\ q[2] = 0 /\ q[3] = 0
  BY <1>0, LayerSite
<1>2. Root \in Sites(w) /\ Root[1] = 0 /\ SizeOf(w, Root) = Len(w)
  BY RootSite DEF Root
<1>3. q = Child(Root, i) /\ (i - 1) + 1 = i
  BY <1>0, RootSite
<1>4. \A p \in Sites(w) : p[1] = 0 <=> p = Root
  BY SiteBounds DEF Root
<1>5. Root \in UpTo(w, i, j, k) /\ q \in UpTo(w, i, j, k)
  BY <1>0, <1>1, <1>2 DEF UpTo
<1>6. \A p \in UpTo(w, i, j, k) : p \in Sites(w)
  BY DEF UpTo
<1>7. \A p \in UpTo(w, i, j, k) :
        Count(w, i, j, i, b, d, p) = IF p = Root THEN i
                                     ELSE Count(w, i, j, i - 1, b, d, p)
  BY <1>4, <1>6 DEF Count
<1>8. Count(w, i, j, i - 1, b, d, Root) = i - 1 /\ i - 1 < SizeOf(w, Root)
  BY <1>0, <1>2 DEF Count
<1>9. QED
  BY <1>3, <1>5, <1>7, <1>8

LEMMA NeuronIsLinked ==
  ASSUME NEW w, IsShape(w), NEW i, NEW j, NEW k, PosOK(w, i, j, k), i > 0, j > 0,
         NEW a, NEW d, NEW r, r = <<i, 0, 0>>, NEW q, q = <<i, j, 0>>
  PROVE  /\ r \in UpTo(w, i, j, k) /\ q \in UpTo(w, i, j, k)
         /\ Count(w, i, j, a, j - 1, d, r) = j - 1 /\ j - 1 < SizeOf(w, r)
         /\ q = Child(r, (j - 1) + 1)
         /\ \A p \in UpTo(w, i, j, k) :
              Count(w, i, j, a, j, d, p) = IF p = r THEN (j - 1) + 1
                                           ELSE Count(w, i, j, a, j - 1, d, p)
<1>0. /\ i \in Nat /\ j \in Nat /\ k \in Nat /\ Len(w) \in Nat /\ i \in 1 .. Len(w)
      /\ j \in 1 .. w[i] /\ w[i] \in Nat
  BY PosFacts
<1>1. q \in Sites(w) /\ q[1] = i /\ q[2] = j /\ q[3] = 0
  BY <1>0, NeuronSite
<1>2. r \in Sites(w) /\ r[1] = i /\ r[2] = 0 /\ r[3] = 0 /\ SizeOf(w, r) = w[i]
  BY <1>0, LayerSite
<1>3. q = Child(r, j) /\ (j - 1) + 1 = j
  BY <1>0, LayerSite
<1>4. \A p \in Sites(w) : p = r <=> p[1] = i /\ p[2] = 0
  BY <1>0, <1>2, SiteBounds
<1>5. r \in UpTo(w, i, j, k) /\ q \in UpTo(w, i, j, k)
  BY <1>0, <1>1, <1>2 DEF UpTo
<1>6. \A p \in UpTo(w, i, j, k) : p \in Sites(w)
  BY DEF UpTo
<1>7. \A p \in UpTo(w, i, j, k) :
        Count(w, i, j, a, j, d, p) = IF p = r THEN j
                                     ELSE Count(w, i, j, a, j - 1, d, p)
  BY <1>0, <1>4, <1>6 DEF Count
<1>8. Count(w, i, j, a, j - 1, d, r) = j - 1 /\ j - 1 < SizeOf(w, r)
  BY <1>0, <1>2 DEF Count
<1>9. QED
  BY <1>3, <1>5, <1>7, <1>8

LEMMA WeightIsLinked ==
  ASSUME NEW w, IsShape(w), NEW i, NEW j, NEW k, PosOK(w, i, j, k), j > 0, k > 0,
         NEW a, NEW b, NEW r, r = <<i, j, 0>>, NEW q, q = <<i, j, k>>
  PROVE  /\ r \in UpTo(w, i, j, k) /\ q \in UpTo(w, i, j, k)
         /\ Count(w, i, j, a, b, k - 1, r) = k - 1 /\ k - 1 < SizeOf(w, r)
         /\ q = Child(r, (k - 1) + 1)
         /\ \A p \in UpTo(w, i, j, k) :
              Count(w, i, j, a, b, k, p) = IF p = r THEN (k - 1) + 1
                                           ELSE Count(w, i, j, a, b, k - 1, p)
<1>0. /\ i \in Nat /\ j \in Nat /\ k \in Nat /\ Len(w) \in Nat /\ i \in 1 .. Len(w)
      /\ j \in 1 .. w[i] /\ w[i] \in Nat /\ k \in 1 .. WeightsOf(w, i)
      /\ WeightsOf(w, i) \in Nat
  BY PosFacts
<1>1. q \in Sites(w) /\ q[1] = i /\ q[2] = j /\ q[3] = k
  BY <1>0, WeightSite
<1>2. r \in Sites(w) /\ r[1] = i /\ r[2] = j /\ r[3] = 0 /\ SizeOf(w, r) = WeightsOf(w, i)
  BY <1>0, NeuronSite
<1>3. q = Child(r, k) /\ (k - 1) + 1 = k
  BY <1>0, NeuronSite
<1>4. \A p \in Sites(w) : p = r <=> p[1] = i /\ p[2] = j /\ p[3] = 0
  BY <1>0, <1>2, SiteBounds
<1>5. r \in UpTo(w, i, j, k) /\ q \in UpTo(w, i, j, k)
  BY <1>0, <1>1, <1>2 DEF UpTo
<1>6. \A p \in UpTo(w, i, j, k) : p \in Sites(w)
  BY DEF UpTo
<1>7. \A p \in UpTo(w, i, j, k) :
        Count(w, i, j, a, b, k, p) = IF p = r THEN k
                                     ELSE Count(w, i, j, a, b, k - 1, p)
  BY <1>0, <1>4, <1>6 DEF Count
<1>8. Count(w, i, j, a, b, k - 1, r) = k - 1 /\ k - 1 < SizeOf(w, r)
  BY <1>0, <1>2 DEF Count
<1>9. QED
  BY <1>3, <1>5, <1>7, <1>8
-----------------------------------------------------------------------------
(***************************************************************************)
(* The two things that building and copying do with a part of a network:   *)
(* a node is allocated for the next site, and a node is linked.            *)
(***************************************************************************)
LEMMA NoSiteIsFree ==
  ASSUME NEW w, IsShape(w), NEW h, NEW C, NEW f, NEW c, Laid(w, h, C, f, c)
  PROVE  At(f) \subseteq Server!Allocated(h) /\ At(f) \subseteq Addresses
<1>1. ASSUME NEW p \in C
      PROVE  f[p] \in Addresses /\ h[f[p]].kind # "free"
  <2>1. p \in Sites(w) /\ f[p] \in Addresses /\ h[f[p]].kind = KindOf(p)
    BY DEF Laid, Layout, Lays
  <2>2. QED
    BY <2>1, SiteFacts
<1>2. \A a \in At(f) : a \in Addresses /\ h[a].kind # "free"
  BY <1>1 DEF At, Laid, Layout
<1>3. QED
  BY <1>2 DEF Server!Allocated, Addresses

Fresh(h, g, f, f2, q, x) ==
  /\ f2[q] = x /\ At(f2) = At(f) \cup {x}
  /\ \A p \in DOMAIN f : f2[p] = f[p]
  /\ Heap(g) /\ g[x].next = NULL
  /\ \A y \in Pointers : y # x => g[y] = h[y]

Puts(h, g, x, n) == g = [h EXCEPT ![x] = n]

LEMMA SiteIsAllocated ==
  ASSUME NEW w, IsShape(w), NEW h, Heap(h), NEW C, NEW f, NEW c, Laid(w, h, C, f, c),
         NEW q \in Sites(w), q \notin C, NEW x \in Addresses, h[x].kind = "free",
         NEW g, Puts(h, g, x, Server!Node(KindOf(q), SizeOf(w, q)))
  PROVE  \E f2 : /\ Laid(w, g, C \cup {q}, f2, With(C, c, q, 0))
                 /\ Fresh(h, g, f, f2, q, x) /\ f2[Root] = f[Root]
<1> DEFINE n == Server!Node(KindOf(q), SizeOf(w, q))
           f2 == With(C, f, q, x)
<1>1. n \in NodeType /\ n.next = NULL /\ n.first = NULL
  BY SiteFacts, NewNode
<1>n. n = Server!Node(KindOf(q), SizeOf(w, q))
  OBVIOUS
<1> HIDE DEF n
<1>2. Heap(g)
  BY <1>1, <1>n, NodeIsPut DEF Puts
<1>3. x \in Pointers /\ g[x] = n /\ \A y \in Pointers : y # x => g[y] = h[y]
  BY <1>n DEF Heap, Pointers, Puts
<1>4. x \notin At(f) /\ At(f) \subseteq Pointers /\ DOMAIN f = C /\ Root \in C
  <2>1. At(f) \subseteq Server!Allocated(h) /\ At(f) \subseteq Addresses
    BY NoSiteIsFree
  <2>2. QED
    BY <2>1 DEF Server!Allocated, Pointers, Laid, Layout
<1>5. \A y \in At(f) : g[y] = h[y]
  BY <1>3, <1>4
<1>6. /\ \A p \in C : f2[p] = f[p]
      /\ f2[q] = x /\ At(f2) = At(f) \cup {x}
  BY <1>4 DEF With, At
<1>7. Laid(w, g, C \cup {q}, f2, With(C, c, q, 0))
  BY <1>3, <1>4, <1>5, <1>n, LaidWith
<1> HIDE DEF f2
<1>8. Fresh(h, g, f, f2, q, x) /\ f2[Root] = f[Root]
  BY <1>1, <1>2, <1>3, <1>4, <1>6 DEF Fresh
<1>9. QED
  BY <1>7, <1>8

LEMMA CountsWith ==
  ASSUME NEW w, NEW i, NEW j, NEW k, NEW a, NEW b, NEW d,
         NEW i2, NEW j2, NEW k2, NEW a2, NEW b2, NEW d2, NEW q,
         UpTo(w, i2, j2, k2) = UpTo(w, i, j, k) \cup {q}, q \notin UpTo(w, i, j, k),
         \A p \in UpTo(w, i, j, k) :
           Count(w, i2, j2, a2, b2, d2, p) = Count(w, i, j, a, b, d, p),
         Count(w, i2, j2, a2, b2, d2, q) = 0
  PROVE  Counts(w, i2, j2, k2, a2, b2, d2)
           = With(UpTo(w, i, j, k), Counts(w, i, j, k, a, b, d), q, 0)
<1> DEFINE C == UpTo(w, i, j, k)
           c == Counts(w, i, j, k, a, b, d)
           c2 == Counts(w, i2, j2, k2, a2, b2, d2)
<1>1. c = [p \in C |-> Count(w, i, j, a, b, d, p)]
  BY DEF Counts
<1>2. c2 = [p \in C \cup {q} |-> Count(w, i2, j2, a2, b2, d2, p)]
  BY DEF Counts
<1> HIDE DEF C, c, c2
<1>3. \A p \in C \cup {q} :
        Count(w, i2, j2, a2, b2, d2, p) = IF p = q THEN 0 ELSE c[p]
  BY <1>1 DEF C
<1>4. c2 = With(C, c, q, 0)
  BY <1>2, <1>3 DEF With
<1>5. QED
  BY <1>4 DEF C, c, c2

LinksIn(h, g, parent, x) ==
  \/ g = Server!AppendBuilt(h, parent, x) /\ h[x].next = NULL
  \/ g = Server!AppendCopied(h, parent, x)
Linking(w, i, j, k, a, b, d, a2, b2, d2, p, q, n) ==
  /\ p \in UpTo(w, i, j, k) /\ q \in UpTo(w, i, j, k)
  /\ Count(w, i, j, a, b, d, p) = n /\ n < SizeOf(w, p) /\ q = Child(p, n + 1)
  /\ \A s \in UpTo(w, i, j, k) :
       Count(w, i, j, a2, b2, d2, s) = IF s = p THEN n + 1
                                       ELSE Count(w, i, j, a, b, d, s)

\* From h to g only nodes of f have changed.
Outside(h, g, f) == Heap(g) /\ \A y \in Pointers \ At(f) : g[y] = h[y]

LEMMA PartIsLinked ==
  ASSUME NEW w, IsShape(w), NEW h, Heap(h), NEW f, NEW r, NEW i, NEW j, NEW k,
         NEW a, NEW b, NEW d, Part(w, h, f, r, i, j, k, a, b, d),
         NEW p, NEW q, NEW n, NEW a2, NEW b2, NEW d2,
         Linking(w, i, j, k, a, b, d, a2, b2, d2, p, q, n),
         NEW g, LinksIn(h, g, f[p], f[q])
  PROVE  Part(w, g, f, r, i, j, k, a2, b2, d2) /\ Outside(h, g, f)
<1> DEFINE C == UpTo(w, i, j, k)
           c == Counts(w, i, j, k, a, b, d)
           c2 == Counts(w, i, j, k, a2, b2, d2)
<1>0. /\ p \in C /\ q \in C /\ Count(w, i, j, a, b, d, p) = n
      /\ n < SizeOf(w, p) /\ q = Child(p, n + 1)
      /\ \A s \in C : Count(w, i, j, a2, b2, d2, s) = IF s = p THEN n + 1
                                                    ELSE Count(w, i, j, a, b, d, s)
  BY DEF Linking
<1>1. Laid(w, h, C, f, c) /\ f[Root] = r /\ PosOK(w, i, j, k)
      /\ f[p] \in Addresses /\ f[q] \in Addresses
  BY <1>0 DEF Part, Laid, Layout
<1>2. c2 = More(c, p) /\ c[p] = n
  <2>1. c = [s \in C |-> Count(w, i, j, a, b, d, s)]
    BY DEF Counts
  <2>2. c2 = [s \in C |-> Count(w, i, j, a2, b2, d2, s)]
    BY DEF Counts
  <2>3. \A s \in C : Count(w, i, j, a2, b2, d2, s) = IF s = p THEN c[p] + 1 ELSE c[s]
    BY <1>0, <2>1
  <2> HIDE DEF C, c, c2
  <2>4. c2 = More(c, p)
    BY <2>1, <2>2, <2>3 DEF More
  <2>5. QED
    BY <1>0, <2>1, <2>4 DEF C
<1> HIDE DEF c, c2
<1>3. Laid(w, g, C, f, c2) /\ \A y \in Pointers \ At(f) : g[y] = h[y]
  <2> HIDE DEF C
  <2>1. p \in C /\ q \in C /\ n < SizeOf(w, p) /\ q = Child(p, n + 1)
    BY <1>0
  <2>2. CASE g = Server!AppendBuilt(h, f[p], f[q]) /\ h[f[q]].next = NULL
    BY <1>1, <1>2, <2>1, <2>2, LinkedBuilt
  <2>3. CASE g = Server!AppendCopied(h, f[p], f[q])
    BY <1>1, <1>2, <2>1, <2>3, LinkedCopied
  <2>4. QED
    BY <2>2, <2>3 DEF LinksIn
<1>4. Heap(g)
  <2>1. /\ Heap(Server!AppendBuilt(h, f[p], f[q]))
        /\ Heap(Server!AppendCopied(h, f[p], f[q]))
    BY <1>1, BuiltIsHeap, CopiedIsHeap
  <2>2. \/ g = Server!AppendBuilt(h, f[p], f[q])
        \/ g = Server!AppendCopied(h, f[p], f[q])
    BY DEF LinksIn
  <2>3. QED
    BY <2>1, <2>2
<1>5. QED
  BY <1>1, <1>3, <1>4 DEF Part, Outside, c2

LEMMA PartIsAllocated ==
  ASSUME NEW w, IsShape(w), NEW h, Heap(h), NEW f, NEW r, NEW i, NEW j, NEW k,
         NEW a, NEW b, NEW d, Part(w, h, f, r, i, j, k, a, b, d),
         NEW i2, NEW j2, NEW k2, NEW a2, NEW b2, NEW d2, PosOK(w, i2, j2, k2),
         NEW q \in Sites(w), q \notin UpTo(w, i, j, k),
         UpTo(w, i2, j2, k2) = UpTo(w, i, j, k) \cup {q},
         \A p \in UpTo(w, i, j, k) :
           Count(w, i2, j2, a2, b2, d2, p) = Count(w, i, j, a, b, d, p),
         Count(w, i2, j2, a2, b2, d2, q) = 0,
         NEW x \in Addresses, h[x].kind = "free",
         NEW g, Puts(h, g, x, Server!Node(KindOf(q), SizeOf(w, q)))
  PROVE  \E f2 : /\ Part(w, g, f2, r, i2, j2, k2, a2, b2, d2)
                 /\ Fresh(h, g, f, f2, q, x)
<1> DEFINE C == UpTo(w, i, j, k)
           c == Counts(w, i, j, k, a, b, d)
<1>1. Laid(w, h, C, f, c) /\ f[Root] = r
  BY DEF Part
<1>2. Counts(w, i2, j2, k2, a2, b2, d2) = With(C, c, q, 0) /\ UpTo(w, i2, j2, k2) = C \cup {q}
  BY CountsWith
<1>3. q \notin C
  OBVIOUS
<1> HIDE DEF C, c
<1>4. PICK f2 : /\ Laid(w, g, C \cup {q}, f2, With(C, c, q, 0))
                /\ Fresh(h, g, f, f2, q, x) /\ f2[Root] = f[Root]
  BY <1>1, <1>3, SiteIsAllocated
<1>5. Part(w, g, f2, r, i2, j2, k2, a2, b2, d2)
  BY <1>1, <1>2, <1>4 DEF Part
<1>6. QED
  BY <1>4, <1>5

LEMMA LayerAllocated ==
  ASSUME NEW w, IsShape(w), NEW h, Heap(h), NEW f, NEW r, NEW i, NEW j, NEW k,
         Part(w, h, f, r, i, j, k, i, j, k), i < Len(w),
         i > 0 => j = w[i] /\ k = WeightsOf(w, i), NEW x \in Addresses, h[x].kind = "free",
         NEW g, g = [h EXCEPT ![x] = Server!Node("layer", w[i + 1])]
  PROVE  \E f2 : /\ Part(w, g, f2, r, i + 1, 0, 0, i, 0, 0)
                 /\ Fresh(h, g, f, f2, <<i + 1, 0, 0>>, x)
<1> DEFINE q == <<i + 1, 0, 0>>
<1>1. PosOK(w, i, j, k) /\ i \in Nat /\ i + 1 \in 1 .. Len(w)
  BY PosFacts DEF Part
<1>2. q \in Sites(w) /\ KindOf(q) = "layer" /\ SizeOf(w, q) = w[i + 1]
  BY <1>1, LayerSite
<1>3. /\ q \notin UpTo(w, i, j, k) /\ PosOK(w, i + 1, 0, 0)
      /\ UpTo(w, i + 1, 0, 0) = UpTo(w, i, j, k) \cup {q}
      /\ \A p \in UpTo(w, i, j, k) :
           Count(w, i + 1, 0, i, 0, 0, p) = Count(w, i, j, i, j, k, p)
      /\ Count(w, i + 1, 0, i, 0, 0, q) = 0
  BY <1>1, LayerIsNext
<1> HIDE DEF q
<1>4. Puts(h, g, x, Server!Node(KindOf(q), SizeOf(w, q)))
  BY <1>2 DEF Puts
<1>5. \E f2 : /\ Part(w, g, f2, r, i + 1, 0, 0, i, 0, 0)
              /\ Fresh(h, g, f, f2, q, x)
  BY <1>2, <1>3, <1>4, SMTT(60), PartIsAllocated
<1>6. QED
  BY <1>5 DEF q

LEMMA NeuronAllocated ==
  ASSUME NEW w, IsShape(w), NEW h, Heap(h), NEW f, NEW r, NEW i, NEW j, NEW k, NEW a,
         Part(w, h, f, r, i, j, k, a, j, k), i > 0, j < w[i],
         j > 0 => k = WeightsOf(w, i), NEW x \in Addresses, h[x].kind = "free",
         NEW g, g = [h EXCEPT ![x] = Server!Node("neuron", WeightsOf(w, i))]
  PROVE  \E f2 : /\ Part(w, g, f2, r, i, j + 1, 0, a, j, 0)
                 /\ Fresh(h, g, f, f2, <<i, j + 1, 0>>, x)
<1> DEFINE q == <<i, j + 1, 0>>
<1>1. PosOK(w, i, j, k) /\ i \in 1 .. Len(w) /\ j + 1 \in 1 .. w[i]
  BY PosFacts DEF Part
<1>2. q \in Sites(w) /\ KindOf(q) = "neuron" /\ SizeOf(w, q) = WeightsOf(w, i)
  BY <1>1, NeuronSite
<1>3. /\ q \notin UpTo(w, i, j, k) /\ PosOK(w, i, j + 1, 0)
      /\ UpTo(w, i, j + 1, 0) = UpTo(w, i, j, k) \cup {q}
      /\ \A p \in UpTo(w, i, j, k) :
           Count(w, i, j + 1, a, j, 0, p) = Count(w, i, j, a, j, k, p)
      /\ Count(w, i, j + 1, a, j, 0, q) = 0
  BY <1>1, NeuronIsNext, SMTT(30)
<1> HIDE DEF q
<1>4. Puts(h, g, x, Server!Node(KindOf(q), SizeOf(w, q)))
  BY <1>2 DEF Puts
<1>5. \E f2 : /\ Part(w, g, f2, r, i, j + 1, 0, a, j, 0)
              /\ Fresh(h, g, f, f2, q, x)
  BY <1>2, <1>3, <1>4, SMTT(60), PartIsAllocated
<1>6. QED
  BY <1>5 DEF q

LEMMA WeightAllocated ==
  ASSUME NEW w, IsShape(w), NEW h, Heap(h), NEW f, NEW r, NEW i, NEW j, NEW k,
         NEW a, NEW b,
         Part(w, h, f, r, i, j, k, a, b, k), j > 0, k < WeightsOf(w, i),
         NEW x \in Addresses, h[x].kind = "free",
         NEW g, g = [h EXCEPT ![x] = Server!Node("weight", 0)]
  PROVE  \E f2 : /\ Part(w, g, f2, r, i, j, k + 1, a, b, k)
                 /\ Fresh(h, g, f, f2, <<i, j, k + 1>>, x)
<1> DEFINE q == <<i, j, k + 1>>
<1>1. PosOK(w, i, j, k) /\ i \in 1 .. Len(w) /\ j \in 1 .. w[i]
      /\ k + 1 \in 1 .. WeightsOf(w, i)
  BY PosFacts DEF Part
<1>2. q \in Sites(w) /\ KindOf(q) = "weight" /\ SizeOf(w, q) = 0
  BY <1>1, WeightSite
<1>q. q = <<i, j, k + 1>>
  OBVIOUS
<1> HIDE DEF q
<1>3. /\ q \notin UpTo(w, i, j, k) /\ PosOK(w, i, j, k + 1)
      /\ UpTo(w, i, j, k + 1) = UpTo(w, i, j, k) \cup {q}
      /\ Count(w, i, j, a, b, k, q) = 0
  BY <1>1, <1>q, SMTT(60), WeightIsNext
<1>4. Puts(h, g, x, Server!Node(KindOf(q), SizeOf(w, q)))
  BY <1>2 DEF Puts
<1>5. \E f2 : /\ Part(w, g, f2, r, i, j, k + 1, a, b, k)
              /\ Fresh(h, g, f, f2, q, x)
  BY <1>2, <1>3, <1>4, SMTT(60), PartIsAllocated
<1>6. QED
  BY <1>5, <1>q

LEMMA LayerLinked ==
  ASSUME NEW w, IsShape(w), NEW h, Heap(h), NEW f, NEW r, NEW i, NEW j, NEW k,
         NEW b, NEW d, NEW m, m = i - 1, Part(w, h, f, r, i, j, k, m, b, d), i > 0,
         NEW g, LinksIn(h, g, r, f[<<i, 0, 0>>])
  PROVE  Part(w, g, f, r, i, j, k, i, b, d) /\ Outside(h, g, f)
<1> DEFINE q == <<i, 0, 0>>
           p == Root
<1>1. PosOK(w, i, j, k) /\ r = f[p]
  BY DEF Part
<1>2. Linking(w, i, j, k, m, b, d, i, b, d, p, q, m)
  BY <1>1, SMTT(60), LayerIsLinked DEF Linking
<1>3. LinksIn(h, g, f[p], f[q])
  BY <1>1
<1> HIDE DEF p, q
<1>4. QED
  BY <1>2, <1>3, PartIsLinked

LEMMA NeuronLinked ==
  ASSUME NEW w, IsShape(w), NEW h, Heap(h), NEW f, NEW r, NEW i, NEW j, NEW k,
         NEW a, NEW d, NEW m, m = j - 1, Part(w, h, f, r, i, j, k, a, m, d), i > 0, j > 0,
         NEW g, LinksIn(h, g, f[<<i, 0, 0>>], f[<<i, j, 0>>])
  PROVE  Part(w, g, f, r, i, j, k, a, j, d) /\ Outside(h, g, f)
<1> DEFINE q == <<i, j, 0>>
           p == <<i, 0, 0>>
<1>1. PosOK(w, i, j, k)
  BY DEF Part
<1>2. Linking(w, i, j, k, a, m, d, a, j, d, p, q, m)
  BY <1>1, SMTT(60), NeuronIsLinked DEF Linking
<1>3. LinksIn(h, g, f[p], f[q])
  OBVIOUS
<1> HIDE DEF p, q
<1>4. QED
  BY <1>2, <1>3, PartIsLinked

LEMMA WeightLinked ==
  ASSUME NEW w, IsShape(w), NEW h, Heap(h), NEW f, NEW r, NEW i, NEW j, NEW k,
         NEW a, NEW b, NEW m, m = k - 1, Part(w, h, f, r, i, j, k, a, b, m), j > 0, k > 0,
         NEW g, LinksIn(h, g, f[<<i, j, 0>>], f[<<i, j, k>>])
  PROVE  Part(w, g, f, r, i, j, k, a, b, k) /\ Outside(h, g, f)
<1> DEFINE q == <<i, j, k>>
           p == <<i, j, 0>>
<1>1. PosOK(w, i, j, k)
  BY DEF Part
<1>2. Linking(w, i, j, k, a, b, m, a, b, k, p, q, m)
  BY <1>1, SMTT(60), WeightIsLinked DEF Linking
<1>3. LinksIn(h, g, f[p], f[q])
  OBVIOUS
<1> HIDE DEF p, q
<1>4. QED
  BY <1>2, <1>3, PartIsLinked
-----------------------------------------------------------------------------
\* What a part has at the ends of its lists.
Ends(w, h, f, r, i, j, a, b) ==
  /\ r = f[Root] /\ r \in Addresses
  /\ h[r].size = Len(w) /\ h[r].last = IF a = 0 THEN NULL ELSE f[<<a, 0, 0>>]
  /\ i > 0 => LET l == f[<<i, 0, 0>>]
              IN /\ l \in Addresses /\ h[l].size = w[i]
                 /\ h[l].last = IF b = 0 THEN NULL ELSE f[<<i, b, 0>>]
  /\ j > 0 => LET u == f[<<i, j, 0>>]
              IN u \in Addresses /\ h[u].size = WeightsOf(w, i)

LEMMA PartEnds ==
  ASSUME NEW w, IsShape(w), NEW h, NEW f, NEW r, NEW i, NEW j, NEW k,
         NEW a, NEW b, NEW d, Part(w, h, f, r, i, j, k, a, b, d)
  PROVE  Ends(w, h, f, r, i, j, a, b)
<1> DEFINE C == UpTo(w, i, j, k)
           c == Counts(w, i, j, k, a, b, d)
<1>1. /\ PosOK(w, i, j, k) /\ f[Root] = r /\ f \in [C -> Addresses] /\ Root \in C
      /\ \A p \in C : Lays(w, h, C, f, c, p)
  BY DEF Part, Laid, Layout
<1>2. \A p \in C : /\ f[p] \in Addresses /\ h[f[p]].size = SizeOf(w, p)
                   /\ h[f[p]].last = IF c[p] = 0 THEN NULL ELSE f[Child(p, c[p])]
                   /\ c[p] = Count(w, i, j, a, b, d, p)
  BY <1>1 DEF Lays, Counts
<1> HIDE DEF c
<1>3. /\ r = f[Root] /\ r \in Addresses
      /\ h[r].size = Len(w) /\ h[r].last = IF a = 0 THEN NULL ELSE f[<<a, 0, 0>>]
  <2>1. SizeOf(w, Root) = Len(w) /\ Child(Root, a) = <<a, 0, 0>> /\ Root[1] = 0
    BY RootSite DEF Root
  <2>2. c[Root] = a
    BY <1>1, <1>2, <2>1 DEF Count
  <2>3. QED
    BY <1>1, <1>2, <2>1, <2>2
<1>4. ASSUME i > 0
      PROVE  LET l == f[<<i, 0, 0>>]
             IN /\ l \in Addresses /\ h[l].size = w[i]
                /\ h[l].last = IF b = 0 THEN NULL ELSE f[<<i, b, 0>>]
  <2> DEFINE q == <<i, 0, 0>>
  <2>0. i \in 1 .. Len(w) /\ i \in Nat /\ j \in Nat /\ k \in Nat
    BY <1>1, <1>4, PosFacts
  <2>1. /\ q \in Sites(w) /\ SizeOf(w, q) = w[i] /\ Child(q, b) = <<i, b, 0>>
        /\ q[1] = i /\ q[2] = 0 /\ q[3] = 0
    BY <2>0, LayerSite
  <2>2. q \in C
    BY <2>0, <2>1 DEF UpTo
  <2> HIDE DEF q
  <2>3. c[q] = b
    BY <1>2, <1>4, <2>0, <2>1, <2>2 DEF Count
  <2>4. /\ f[q] \in Addresses /\ h[f[q]].size = w[i]
        /\ h[f[q]].last = IF b = 0 THEN NULL ELSE f[<<i, b, 0>>]
    BY <1>2, <2>1, <2>2, <2>3
  <2>5. QED
    BY <2>4 DEF q
<1>5. ASSUME j > 0
      PROVE  LET u == f[<<i, j, 0>>]
             IN u \in Addresses /\ h[u].size = WeightsOf(w, i)
  <2> DEFINE q == <<i, j, 0>>
  <2>0. /\ i \in 1 .. Len(w) /\ j \in 1 .. w[i] /\ i \in Nat /\ j \in Nat /\ k \in Nat
    BY <1>1, <1>5, PosFacts
  <2>1. /\ q \in Sites(w) /\ SizeOf(w, q) = WeightsOf(w, i)
        /\ q[1] = i /\ q[2] = j /\ q[3] = 0
    BY <2>0, NeuronSite
  <2>2. q \in C
    BY <2>0, <2>1 DEF UpTo
  <2> HIDE DEF q
  <2>4. f[q] \in Addresses /\ h[f[q]].size = WeightsOf(w, i)
    BY <1>2, <2>1, <2>2
  <2>5. QED
    BY <2>4 DEF q
<1>6. QED
  BY <1>3, <1>4, <1>5 DEF Ends

\* A node was allocated for a network, and nothing outside of it has changed.
Grown(h, g, f, f2) ==
  \E x \in Addresses :
    h[x].kind = "free" /\ At(f2) = At(f) \cup {x} /\ Outside(h, g, f2)

LEMMA FreshIsGrown ==
  ASSUME NEW h, NEW g, NEW f, NEW f2, NEW q, NEW x \in Addresses, h[x].kind = "free",
         Fresh(h, g, f, f2, q, x)
  PROVE  Grown(h, g, f, f2)
BY DEF Fresh, Grown, Outside

LEMMA LinkedIsGrown ==
  ASSUME NEW h, NEW g, NEW g2, NEW f, NEW f2, Grown(h, g, f, f2), Outside(g, g2, f2)
  PROVE  Grown(h, g2, f, f2)
BY DEF Grown, Outside

LEMMA LayerIsLaid ==
  ASSUME NEW w, IsShape(w), NEW h, NEW f, NEW r, NEW i, NEW j, NEW k,
         NEW a, NEW b, NEW d, Part(w, h, f, r, i, j, k, a, b, d), i > 0
  PROVE  <<i, 0, 0>> \in DOMAIN f /\ <<i, 0, 0>> \in Sites(w)
<1>0. i \in 1 .. Len(w) /\ i \in Nat /\ j \in Nat /\ k \in Nat
  BY PosFacts DEF Part
<1>1. /\ <<i, 0, 0>> \in Sites(w)
      /\ <<i, 0, 0>>[1] = i /\ <<i, 0, 0>>[2] = 0 /\ <<i, 0, 0>>[3] = 0
  BY <1>0, LayerSite
<1>2. QED
  BY <1>0, <1>1 DEF UpTo, Part, Laid, Layout

LEMMA NeuronIsLaid ==
  ASSUME NEW w, IsShape(w), NEW h, NEW f, NEW r, NEW i, NEW j, NEW k,
         NEW a, NEW b, NEW d, Part(w, h, f, r, i, j, k, a, b, d), j > 0
  PROVE  <<i, j, 0>> \in DOMAIN f /\ <<i, j, 0>> \in Sites(w)
<1>0. i \in 1 .. Len(w) /\ j \in 1 .. w[i] /\ i \in Nat /\ j \in Nat /\ k \in Nat
  BY PosFacts DEF Part
<1>1. /\ <<i, j, 0>> \in Sites(w)
      /\ <<i, j, 0>>[1] = i /\ <<i, j, 0>>[2] = j /\ <<i, j, 0>>[3] = 0
  BY <1>0, NeuronSite
<1>2. QED
  BY <1>0, <1>1 DEF UpTo, Part, Laid, Layout

LEMMA LayerAdded ==
  ASSUME NEW w, IsShape(w), NEW h, Heap(h), NEW f, NEW r, NEW i, NEW j, NEW k,
         Part(w, h, f, r, i, j, k, i, j, k), i < Len(w),
         i > 0 => j = w[i] /\ k = WeightsOf(w, i), NEW x \in Addresses, h[x].kind = "free",
         NEW g, g = [h EXCEPT ![x] = Server!Node("layer", w[i + 1])],
         NEW g2, g2 = Server!AppendBuilt(g, r, x)
  PROVE  \E f2 : Part(w, g2, f2, r, i + 1, 0, 0, i + 1, 0, 0) /\ Grown(h, g2, f, f2)
<1> DEFINE n == i + 1
<1>1. PICK f2 : /\ Part(w, g, f2, r, n, 0, 0, i, 0, 0)
                /\ Fresh(h, g, f, f2, <<n, 0, 0>>, x)
  BY LayerAllocated
<1>2. i = n - 1 /\ n > 0
  BY PosFacts DEF Part
<1> HIDE DEF n
<1>4. LinksIn(g, g2, r, f2[<<n, 0, 0>>]) /\ Heap(g)
  BY <1>1 DEF Fresh, LinksIn
<1>5. Part(w, g2, f2, r, n, 0, 0, n, 0, 0) /\ Outside(g, g2, f2)
  BY <1>1, <1>2, <1>4, LayerLinked
<1>6. Grown(h, g, f, f2)
  BY <1>1, FreshIsGrown
<1>7. Grown(h, g2, f, f2)
  BY <1>5, <1>6, LinkedIsGrown
<1>8. QED
  BY <1>5, <1>7 DEF n

LEMMA NeuronAdded ==
  ASSUME NEW w, IsShape(w), NEW h, Heap(h), NEW f, NEW r, NEW i, NEW j, NEW k,
         Part(w, h, f, r, i, j, k, i, j, k), i > 0, j < w[i],
         j > 0 => k = WeightsOf(w, i), NEW x \in Addresses, h[x].kind = "free",
         NEW g, g = [h EXCEPT ![x] = Server!Node("neuron", WeightsOf(w, i))],
         NEW g2, g2 = Server!AppendBuilt(g, f[<<i, 0, 0>>], x)
  PROVE  \E f2 : Part(w, g2, f2, r, i, j + 1, 0, i, j + 1, 0) /\ Grown(h, g2, f, f2)
<1> DEFINE n == j + 1
<1>1. PICK f2 : /\ Part(w, g, f2, r, i, n, 0, i, j, 0)
                /\ Fresh(h, g, f, f2, <<i, n, 0>>, x)
  BY NeuronAllocated
<1>2. j = n - 1 /\ n > 0
  BY PosFacts DEF Part
<1> HIDE DEF n
<1>4. f2[<<i, 0, 0>>] = f[<<i, 0, 0>>]
  BY <1>1, LayerIsLaid DEF Fresh
<1>5. LinksIn(g, g2, f2[<<i, 0, 0>>], f2[<<i, n, 0>>]) /\ Heap(g)
  BY <1>1, <1>4 DEF Fresh, LinksIn
<1>6. Part(w, g2, f2, r, i, n, 0, i, n, 0) /\ Outside(g, g2, f2)
  BY <1>1, <1>2, <1>5, NeuronLinked
<1>7. Grown(h, g, f, f2)
  BY <1>1, FreshIsGrown
<1>8. Grown(h, g2, f, f2)
  BY <1>6, <1>7, LinkedIsGrown
<1>9. QED
  BY <1>6, <1>8 DEF n

Appended(h, g, parent, x) ==
  g = Server!AppendBuilt(h, parent, x) \/ g = Server!AppendCopied(h, parent, x)

WeightGrown(w, h, g, f, r, i, j, a, b, n) ==
  \E f2 : /\ Part(w, g, f2, r, i, j, n, a, b, n) /\ Grown(h, g, f, f2)
          /\ f2[<<i, 0, 0>>] = f[<<i, 0, 0>>] /\ f2[<<i, j, 0>>] = f[<<i, j, 0>>]

LEMMA WeightAdded ==
  ASSUME NEW w, IsShape(w), NEW h, Heap(h), NEW f, NEW r, NEW i, NEW j, NEW k,
         NEW a, NEW b, Part(w, h, f, r, i, j, k, a, b, k), j > 0, k < WeightsOf(w, i),
         NEW n, n = k + 1, NEW x \in Addresses, h[x].kind = "free",
         NEW g, Puts(h, g, x, Server!Node("weight", 0)),
         NEW g2, Appended(g, g2, f[<<i, j, 0>>], x)
  PROVE  WeightGrown(w, h, g2, f, r, i, j, a, b, n)
<1>1. PICK f2 : /\ Part(w, g, f2, r, i, j, n, a, b, k)
                /\ Fresh(h, g, f, f2, <<i, j, n>>, x)
  BY WeightAllocated DEF Puts
<1>2. k = n - 1 /\ n > 0 /\ i > 0
  BY PosFacts DEF Part
<1>4. f2[<<i, 0, 0>>] = f[<<i, 0, 0>>] /\ f2[<<i, j, 0>>] = f[<<i, j, 0>>]
  BY <1>1, <1>2, LayerIsLaid, NeuronIsLaid DEF Fresh
<1>5. LinksIn(g, g2, f2[<<i, j, 0>>], f2[<<i, j, n>>]) /\ Heap(g)
  BY <1>1, <1>4 DEF Fresh, LinksIn, Appended
<1>6. Part(w, g2, f2, r, i, j, n, a, b, n) /\ Outside(g, g2, f2)
  BY <1>1, <1>2, <1>5, WeightLinked
<1>7. Grown(h, g, f, f2)
  BY <1>1, FreshIsGrown
<1>8. Grown(h, g2, f, f2)
  BY <1>6, <1>7, LinkedIsGrown
<1>9. QED
  BY <1>4, <1>6, <1>8 DEF WeightGrown
-----------------------------------------------------------------------------
(***************************************************************************)
(* A network under way is linked as far as the loops l have come.          *)
(***************************************************************************)
UnderWay(w, h, f, r, l) == Part(w, h, f, r, l.i, l.j, l.k, l.i, l.j, l.k)

LEMMA BuildingGrows ==
  ASSUME IsShape(net), Heap(heap), loop \in [i : Nat, j : Nat, k : Nat],
         NEW f, UnderWay(net, heap, f, target, loop),
         Server!AddLayer \/ Server!AddNeuron \/ Server!AddWeight
  PROVE  \E f2 : UnderWay(net, heap', f2, target, loop') /\ Grown(heap, heap', f, f2)
<1> DEFINE i == loop.i  j == loop.j  k == loop.k
           x == Server!malloc(heap)
<1>1. Part(net, heap, f, target, i, j, k, i, j, k)
  BY DEF UnderWay
<1>2. i \in Nat /\ j \in Nat /\ k \in Nat
  OBVIOUS
<1>e. Ends(net, heap, f, target, i, j, i, j)
  BY <1>1, PartEnds
<1>3. /\ heap[target].size = Len(net) /\ heap[target].last = IF i = 0 THEN NULL ELSE f[<<i, 0, 0>>]
      /\ i > 0 => LET l == f[<<i, 0, 0>>]
                  IN /\ l \in Addresses /\ heap[l].size = net[i]
                     /\ heap[l].last = IF j = 0 THEN NULL ELSE f[<<i, j, 0>>]
      /\ j > 0 => LET u == f[<<i, j, 0>>]
                  IN u \in Addresses /\ heap[u].size = WeightsOf(net, i)
  BY <1>e DEF Ends
<1>4. /\ i > 0 => Server!LastLayer = f[<<i, 0, 0>>] /\ heap[Server!LastLayer].size = net[i]
      /\ j > 0 => i > 0
      /\ j > 0 => /\ Server!LastNeuron = f[<<i, j, 0>>]
                  /\ heap[Server!LastNeuron].size = WeightsOf(net, i)
  BY <1>1, <1>2, <1>3, PosFacts DEF Server!LastLayer, Server!LastNeuron, Part
<1>5. Server!HasRoom => x \in Addresses /\ heap[x].kind = "free"
  BY MallocIsFree DEF Server!HasRoom, Addresses
<1>6. i > 0 => net[i] > 0 /\ net[i] \in Nat /\ WeightsOf(net, i) \in Nat
  BY <1>1, PosFacts DEF Part
<1> HIDE DEF x
<1>7. CASE Server!AddLayer
  <2>1. i < Len(net) /\ (i > 0 => j = net[i] /\ k = WeightsOf(net, i))
    <3>1. Server!NeuronsDone /\ i < Len(net)
      BY <1>3, <1>7 DEF Server!AddLayer
    <3>2. i > 0 => j = net[i]
      BY <1>2, <1>4, <3>1 DEF Server!NeuronsDone
    <3>3. j > 0 => k = WeightsOf(net, i)
      BY <1>2, <1>4, <3>1 DEF Server!NeuronsDone, Server!WeightsDone
    <3>4. QED
      BY <1>2, <1>6, <3>1, <3>2, <3>3
  <2>2. /\ Server!HasRoom /\ loop' = [i |-> i + 1, j |-> 0, k |-> 0]
        /\ heap' = Server!AppendBuilt([heap EXCEPT ![x] = Server!Node("layer", net[i + 1])], target, x)
    BY <1>7 DEF Server!AddLayer, Server!Add, x
  <2> HIDE DEF i, j, k
  <2>3. PICK f2 : Part(net, heap', f2, target, i + 1, 0, 0, i + 1, 0, 0) /\ Grown(heap, heap', f, f2)
    BY <1>1, <1>5, <2>1, <2>2, LayerAdded
  <2>4. UnderWay(net, heap', f2, target, loop')
    BY <2>2, <2>3 DEF UnderWay
  <2>5. QED
    BY <2>3, <2>4
<1>8. CASE Server!AddNeuron
  <2>1. i > 0 /\ j < net[i] /\ (j > 0 => k = WeightsOf(net, i))
    <3>1. Server!WeightsDone /\ i > 0 /\ j < heap[Server!LastLayer].size
      BY <1>8 DEF Server!AddNeuron
    <3>2. QED
      BY <1>2, <1>4, <3>1 DEF Server!WeightsDone
  <2>2. /\ Server!HasRoom /\ loop' = [i |-> i, j |-> j + 1, k |-> 0]
        /\ heap' = Server!AppendBuilt(
                     [heap EXCEPT ![x] = Server!Node("neuron", IF i = 1 THEN 0 ELSE net[i - 1])],
                     Server!LastLayer, x)
    BY <1>8 DEF Server!AddNeuron, Server!Add, x
  <2>3. heap' = Server!AppendBuilt([heap EXCEPT ![x] = Server!Node("neuron", WeightsOf(net, i))],
                                   f[<<i, 0, 0>>], x)
    BY <1>4, <2>1, <2>2 DEF WeightsOf
  <2> HIDE DEF i, j, k
  <2>4. PICK f2 : Part(net, heap', f2, target, i, j + 1, 0, i, j + 1, 0) /\ Grown(heap, heap', f, f2)
    BY <1>1, <1>5, <2>1, <2>2, <2>3, NeuronAdded
  <2>5. UnderWay(net, heap', f2, target, loop')
    BY <2>2, <2>4 DEF UnderWay
  <2>6. QED
    BY <2>4, <2>5
<1>9. CASE Server!AddWeight
  <2>1. j > 0 /\ k < WeightsOf(net, i)
    BY <1>4, <1>9 DEF Server!AddWeight
  <2>2. /\ Server!HasRoom /\ loop' = [i |-> i, j |-> j, k |-> k + 1]
        /\ heap' = Server!AppendBuilt([heap EXCEPT ![x] = Server!Node("weight", 0)],
                                      Server!LastNeuron, x)
    BY <1>9 DEF Server!AddWeight, Server!Add, x
  <2> DEFINE g == [heap EXCEPT ![x] = Server!Node("weight", 0)]
             n == k + 1
  <2>n. n = k + 1
    OBVIOUS
  <2>3. Appended(g, heap', f[<<i, j, 0>>], x)
    BY <1>4, <2>1, <2>2 DEF Appended
  <2>p. Puts(heap, g, x, Server!Node("weight", 0))
    BY DEF Puts
  <2> HIDE DEF i, j, k, g, n
  <2>w. WeightGrown(net, heap, heap', f, target, i, j, i, j, n)
    BY <1>1, <1>5, <2>1, <2>2, <2>3, <2>n, <2>p, WeightAdded
  <2>4. PICK f2 : Part(net, heap', f2, target, i, j, n, i, j, n) /\ Grown(heap, heap', f, f2)
    BY <2>w DEF WeightGrown
  <2>5. UnderWay(net, heap', f2, target, loop')
    BY <2>2, <2>4, <2>n DEF UnderWay
  <2>6. QED
    BY <2>4, <2>5
<1>10. QED
  BY <1>7, <1>8, <1>9

\* At the end of the loops the network is whole.
LEMMA BuiltIsWhole ==
  ASSUME NEW w, IsShape(w), NEW h, NEW f, NEW r, NEW i, NEW j, NEW k,
         i = Len(w), j = w[i], k = WeightsOf(w, i), Part(w, h, f, r, i, j, k, i, j, k)
  PROVE  Whole(w, h, f, r)
<1>1. /\ i \in Nat /\ j \in Nat /\ k \in Nat /\ i > 0 /\ j > 0
  BY ShapeFacts
<1>2. UpTo(w, i, j, k) = Sites(w)
  <2>1. ASSUME NEW p \in Sites(w)
        PROVE  p[1] < i \/ (p[1] = i /\ (p[2] < j \/ (p[2] = j /\ p[3] <= k)))
    BY <1>1, SiteBounds
  <2>2. QED
    BY <2>1 DEF UpTo
<1>3. Counts(w, i, j, k, i, j, k) = Full(w)
  <2>1. ASSUME NEW p \in Sites(w)
        PROVE  Count(w, i, j, i, j, k, p) = SizeOf(w, p)
    BY <1>1, SiteBounds DEF Count, SizeOf
  <2>2. QED
    BY <1>2, <2>1 DEF Counts, Full
<1>4. QED
  BY <1>2, <1>3 DEF Part, Whole

LEMMA BuiltWhole ==
  ASSUME IsShape(net), loop \in [i : Nat, j : Nat, k : Nat],
         NEW f, UnderWay(net, heap, f, target, loop), Server!Built
  PROVE  Whole(net, heap, f, target)
<1> DEFINE i == loop.i  j == loop.j  k == loop.k
<1>1. Part(net, heap, f, target, i, j, k, i, j, k)
  BY DEF UnderWay
<1>2. i \in Nat /\ j \in Nat /\ k \in Nat
  OBVIOUS
<1>e. Ends(net, heap, f, target, i, j, i, j)
  BY <1>1, PartEnds
<1>3. /\ heap[target].size = Len(net) /\ heap[target].last = IF i = 0 THEN NULL ELSE f[<<i, 0, 0>>]
      /\ i > 0 => LET l == f[<<i, 0, 0>>]
                  IN /\ l \in Addresses /\ heap[l].size = net[i]
                     /\ heap[l].last = IF j = 0 THEN NULL ELSE f[<<i, j, 0>>]
      /\ j > 0 => LET u == f[<<i, j, 0>>]
                  IN u \in Addresses /\ heap[u].size = WeightsOf(net, i)
  BY <1>e DEF Ends
<1>4. /\ i > 0 => Server!LastLayer = f[<<i, 0, 0>>] /\ heap[Server!LastLayer].size = net[i]
      /\ j > 0 => i > 0
      /\ j > 0 => /\ Server!LastNeuron = f[<<i, j, 0>>]
                  /\ heap[Server!LastNeuron].size = WeightsOf(net, i)
  BY <1>1, <1>2, <1>3, PosFacts DEF Server!LastLayer, Server!LastNeuron, Part
<1>5. i = Len(net) /\ i > 0 /\ Server!NeuronsDone
  BY <1>3, ShapeFacts DEF Server!Built
<1>6. net[i] > 0 /\ net[i] \in Nat
  BY <1>1, <1>5, PosFacts DEF Part
<1>7. j = net[i] /\ k = WeightsOf(net, i)
  BY <1>2, <1>4, <1>5, <1>6 DEF Server!NeuronsDone, Server!WeightsDone
<1> HIDE DEF i, j, k
<1>8. QED
  BY <1>1, <1>5, <1>7, BuiltIsWhole

\* Where it begins there is the network only.
LEMMA RootIsPart ==
  ASSUME NEW w, IsShape(w), NEW h, NEW x \in Addresses, h[x] = Server!Node("net", Len(w))
  PROVE  \E f : Part(w, h, f, x, 0, 0, 0, 0, 0, 0) /\ At(f) = {x}
<1> DEFINE f == [p \in {Root} |-> x]
           c == [p \in {Root} |-> 0]
<1>1. /\ h[x].kind = "net" /\ h[x].size = Len(w) /\ h[x].first = NULL
      /\ h[x].last = NULL /\ h[x].next = NULL
  BY NewNode, ShapeFacts DEF Kinds
<1>2. Root \in Sites(w) /\ SizeOf(w, Root) = Len(w) /\ KindOf(Root) = "net" /\ Root[1] = 0 /\ Root[2] = 0 /\ Root[3] = 0
  BY RootSite DEF Root
<1>3. UpTo(w, 0, 0, 0) = {Root}
  <2>1. ASSUME NEW p \in Sites(w)
        PROVE  (p[1] < 0 \/ (p[1] = 0 /\ (p[2] < 0 \/ (p[2] = 0 /\ p[3] <= 0)))) <=> p = Root
    BY <1>2, SiteBounds DEF Root
  <2>2. QED
    BY <1>2, <2>1 DEF UpTo
<1>4. Counts(w, 0, 0, 0, 0, 0, 0) = c
  BY <1>2, <1>3 DEF Counts, Count
<1>5. PosOK(w, 0, 0, 0)
  BY ShapeFacts DEF PosOK
<1>6. Laid(w, h, {Root}, f, c)
  <2>1. Layout(w, {Root}, f, c)
    BY <1>2 DEF Layout
  <2>2. Lays(w, h, {Root}, f, c, Root)
    BY <1>1, <1>2, ShapeFacts DEF Lays
  <2>3. QED
    BY <1>1, <2>1, <2>2 DEF Laid
<1>7. At(f) = {x}
  BY DEF At
<1>8. Part(w, h, f, x, 0, 0, 0, 0, 0, 0)
  BY <1>3, <1>4, <1>5, <1>6 DEF Part
<1>9. QED
  BY <1>7, <1>8

\* All that is under way can be reached from the network.
LEMMA PartIsJoined ==
  ASSUME NEW w, IsShape(w), NEW i, NEW j, NEW k, PosOK(w, i, j, k)
  PROVE  Joined(UpTo(w, i, j, k), Counts(w, i, j, k, i, j, k))
<1> DEFINE C == UpTo(w, i, j, k)
           c == Counts(w, i, j, k, i, j, k)
<1>0. i \in Nat /\ j \in Nat /\ k \in Nat
  BY PosFacts
<1>1. ASSUME NEW q \in C, q # Root
      PROVE  \E p \in C : \E n \in 1 .. c[p] : q = Child(p, n)
  <2>p. PICK p \in Sites(w) : \E n \in 1 .. SizeOf(w, p) : q = Child(p, n)
    BY <1>1, SiteHasParent DEF UpTo
  <2>1. PICK n \in 1 .. SizeOf(w, p) : q = Child(p, n)
    BY <2>p
  <2>2. /\ q \in Sites(w)
        /\ q[1] < i \/ (q[1] = i /\ (q[2] < j \/ (q[2] = j /\ q[3] <= k)))
    BY <1>1 DEF UpTo
  <2>3. /\ p[1] \in Nat /\ p[2] \in Nat /\ p[3] \in Nat /\ n \in Nat /\ n > 0
        /\ p[1] = 0 => p[2] = 0 /\ p[3] = 0
        /\ p[2] = 0 => p[3] = 0
        /\ p = <<p[1], p[2], p[3]>> /\ SizeOf(w, p) \in Nat
    BY <2>1, SiteBounds, SiteFacts
  <2>4. /\ p[1] = 0 => q[1] = n /\ q[2] = 0 /\ q[3] = 0
        /\ p[1] # 0 /\ p[2] = 0 => q[1] = p[1] /\ q[2] = n /\ q[3] = 0
        /\ p[1] # 0 /\ p[2] # 0 => q[1] = p[1] /\ q[2] = p[2] /\ q[3] = n
    BY <2>1, <2>3 DEF Child
  <2>5. p[1] # 0 /\ p[2] # 0 => p[3] = 0
    BY <2>1, <2>3 DEF SizeOf
  <2>6. p \in C
    BY <1>0, <2>2, <2>3, <2>4, <2>5 DEF UpTo
  <2>7. c[p] = Count(w, i, j, i, j, k, p)
    BY <2>6 DEF Counts
  <2>8. n <= Count(w, i, j, i, j, k, p) /\ Count(w, i, j, i, j, k, p) \in Nat
    BY <1>0, <2>1, <2>2, <2>3, <2>4, <2>5 DEF Count
  <2>9. n \in 1 .. c[p]
    BY <2>3, <2>7, <2>8
  <2>10. QED
    BY <2>1, <2>6, <2>9
<1>2. QED
  BY <1>1 DEF Joined
-----------------------------------------------------------------------------
(***************************************************************************)
(* The nodes in use are those of three networks, or of parts of these, and *)
(* the forgotten ones F.                                                   *)
(***************************************************************************)
Divided(h, F, A, B, D) ==
  /\ Server!Allocated(h) = A \cup B \cup D \cup F
  /\ A \cap B = {} /\ A \cap D = {} /\ B \cap D = {}
  /\ F \cap (A \cup B \cup D) = {}

LEMMA DividedGrown ==
  ASSUME NEW h, Heap(h), NEW F, NEW A, NEW B, NEW t, Divided(h, F, A, B, At(t)),
         NEW g, NEW t2, Grown(h, g, t, t2), At(t2) \subseteq Server!Allocated(g)
  PROVE  Divided(g, F, A, B, At(t2)) /\ \A y \in A \cup B : g[y] = h[y]
<1>1. PICK x \in Addresses :
        h[x].kind = "free" /\ At(t2) = At(t) \cup {x} /\ Outside(h, g, t2)
  BY DEF Grown
<1>2. x \notin Server!Allocated(h) /\ Server!Allocated(h) \subseteq Addresses
  BY <1>1 DEF Server!Allocated, Addresses
<1>3. \A y \in Addresses : y \notin At(t2) => g[y] = h[y]
  BY <1>1 DEF Outside, Pointers
<1>4. Server!Allocated(g) = Server!Allocated(h) \cup {x}
  <2>1. \A y \in Addresses : y \in Server!Allocated(h) <=> h[y].kind # "free"
    BY DEF Server!Allocated, Addresses
  <2>2. \A y \in Addresses : y \in Server!Allocated(g) <=> g[y].kind # "free"
    BY DEF Server!Allocated, Addresses
  <2>3. Server!Allocated(g) \subseteq Addresses
    BY DEF Server!Allocated, Addresses
  <2>4. At(t) \subseteq Server!Allocated(h) /\ x \in Server!Allocated(g)
    BY <1>1 DEF Divided
  <2>5. ASSUME NEW y \in Addresses
        PROVE  y \in Server!Allocated(g) <=> y \in Server!Allocated(h) \/ y = x
    <3>1. CASE y \in At(t2)
      BY <1>1, <2>4, <3>1
    <3>2. CASE y \notin At(t2)
      BY <1>1, <1>3, <2>1, <2>2, <3>2
    <3>3. QED
      BY <3>1, <3>2
  <2>6. QED
    BY <1>1, <1>2, <2>3, <2>5
<1>5. QED
  BY <1>1, <1>2, <1>3, <1>4 DEF Divided

LEMMA PartIsAllocatedThere ==
  ASSUME NEW w, IsShape(w), NEW h, NEW f, NEW r, NEW i, NEW j, NEW k,
         NEW a, NEW b, NEW d, Part(w, h, f, r, i, j, k, a, b, d)
  PROVE  /\ At(f) \subseteq Server!Allocated(h) /\ At(f) \subseteq Addresses
         /\ r \in At(f)
<1>1. Laid(w, h, UpTo(w, i, j, k), f, Counts(w, i, j, k, a, b, d)) /\ f[Root] = r
  BY DEF Part
<1>2. r \in At(f)
  BY <1>1 DEF At, Laid, Layout
<1>3. QED
  BY <1>1, <1>2, NoSiteIsFree

LEMMA WholeIsAllocated ==
  ASSUME NEW w, IsShape(w), NEW h, NEW f, NEW r, Whole(w, h, f, r)
  PROVE  /\ At(f) \subseteq Server!Allocated(h) /\ At(f) \subseteq Addresses
         /\ r \in At(f)
<1>1. Laid(w, h, Sites(w), f, Full(w)) /\ f[Root] = r
  BY DEF Whole
<1>2. r \in At(f)
  BY <1>1 DEF At, Laid, Layout
<1>3. QED
  BY <1>1, <1>2, NoSiteIsFree

LEMMA WholeElsewhere ==
  ASSUME NEW w, NEW h, NEW f, NEW r, Whole(w, h, f, r), NEW g, \A y \in At(f) : g[y] = h[y]
  PROVE  Whole(w, g, f, r)
BY LaidElsewhere DEF Whole

LEMMA PartElsewhere ==
  ASSUME NEW w, NEW h, NEW f, NEW r, NEW i, NEW j, NEW k, NEW a, NEW b, NEW d,
         Part(w, h, f, r, i, j, k, a, b, d), NEW g, \A y \in At(f) : g[y] = h[y]
  PROVE  Part(w, g, f, r, i, j, k, a, b, d)
BY LaidElsewhere DEF Part

\* The same, when a network besides A and B grows.
LEMMA PartGrows ==
  ASSUME NEW w, IsShape(w), NEW h, Heap(h), NEW F, NEW A, NEW B, NEW t,
         Divided(h, F, A, B, At(t)), NEW g, NEW t2, Grown(h, g, t, t2),
         NEW r, NEW i, NEW j, NEW k, NEW a, NEW b, NEW d, Part(w, g, t2, r, i, j, k, a, b, d)
  PROVE  Divided(g, F, A, B, At(t2)) /\ \A y \in A \cup B : g[y] = h[y]
<1>1. At(t2) \subseteq Server!Allocated(g)
  BY PartIsAllocatedThere
<1>2. QED
  BY <1>1, DividedGrown
-----------------------------------------------------------------------------
(***************************************************************************)
(* What the server's memory holds while it is doing what at says.          *)
(***************************************************************************)
Initialising ==
  \E f, e :
    /\ UnderWay(net, heap, f, target, loop)
    /\ \/ target = global /\ Part(net, heap, e, sums, 0, 0, 0, 0, 0, 0)
       \/ target = sums /\ Whole(net, heap, e, global)
    /\ Divided(heap, forgotten, {}, At(e), At(f))
Resting ==
  \E f, e :
    /\ Whole(net, heap, f, global) /\ Whole(net, heap, e, sums)
    /\ Divided(heap, forgotten, At(f), At(e), {})
Converting ==
  \E f, e, t :
    /\ Whole(net, heap, f, global) /\ Whole(net, heap, e, sums)
    /\ UnderWay(net, heap, t, target, loop)
    /\ Divided(heap, forgotten, At(f), At(e), At(t))

\* While the global network is being freed, it is what it was in h, but for
\* the nodes before the k-th weight of the j-th neuron of the i-th layer.
FreePos(w, i, j, k) ==
  /\ i \in 1 .. Len(w) + 1 /\ j \in Nat /\ k \in Nat
  /\ i <= Len(w) => j \in 1 .. w[i] + 1
  /\ i <= Len(w) /\ j <= w[i] => k \in 1 .. WeightsOf(w, i) + 1
Rest(w, i, j, k) ==
  {p \in Sites(w) : \/ p = Root \/ p[1] > i
                    \/ p[1] = i /\ \/ p[2] = 0 \/ p[2] > j
                                   \/ p[2] = j /\ (p[3] = 0 \/ p[3] >= k)}
Cursor(w, f, i, j, k) ==
  [layer  |-> IF i <= Len(w) THEN f[<<i, 0, 0>>] ELSE NULL,
   neuron |-> IF i <= Len(w) /\ j <= w[i] THEN f[<<i, j, 0>>] ELSE NULL,
   weight |-> IF i <= Len(w) /\ j <= w[i] /\ k <= WeightsOf(w, i)
              THEN f[<<i, j, k>>] ELSE NULL]
Image(f, S) == {f[p] : p \in S}
FreeingAt(e, f, h, i, j, k) ==
  /\ Whole(net, heap, e, sums) /\ Whole(net, h, f, global)
  /\ FreePos(net, i, j, k)
  /\ \A p \in Rest(net, i, j, k) : heap[f[p]] = h[f[p]]
  /\ Divided(heap, forgotten, Image(f, Rest(net, i, j, k)), At(e), {})
  /\ current = Cursor(net, f, i, j, k)
Freeing == \E e, f, h, i, j, k : FreeingAt(e, f, h, i, j, k)

\* A copy of the sums begins, and goes on from layer to layer, from neuron to
\* neuron in a layer, and from weight to weight in a neuron.
Gone ==
  \E e : /\ Whole(net, heap, e, sums)
         /\ Divided(heap, forgotten, {}, At(e), {})
         /\ new.layer = NULL /\ current.layer = e[<<1, 0, 0>>]
CopiedPart(e, t, i, j, k, a, b) ==
  /\ Whole(net, heap, e, sums)
  /\ Part(net, heap, t, target, i, j, k, a, b, k)
  /\ Divided(heap, forgotten, {}, At(e), At(t))
CopyingLayers(e, t, i, j, k) ==
  /\ CopiedPart(e, t, i, j, k, i, j)
  /\ i > 0 => j = net[i] /\ k = WeightsOf(net, i)
  /\ new.layer = NULL
  /\ current.layer = IF i < Len(net) THEN e[<<i + 1, 0, 0>>] ELSE NULL
CopyingNeurons(e, t, i, j, k, a) ==
  /\ CopiedPart(e, t, i, j, k, a, j)
  /\ i > 0 /\ a = i - 1 /\ (j > 0 => k = WeightsOf(net, i))
  /\ new.layer = t[<<i, 0, 0>>] /\ new.neuron = NULL
  /\ current.layer = e[<<i, 0, 0>>]
  /\ current.neuron = IF j < net[i] THEN e[<<i, j + 1, 0>>] ELSE NULL
CopyingWeights(e, t, i, j, k, a, b) ==
  /\ CopiedPart(e, t, i, j, k, a, b)
  /\ i > 0 /\ j > 0 /\ a = i - 1 /\ b = j - 1
  /\ new.layer = t[<<i, 0, 0>>] /\ new.neuron = t[<<i, j, 0>>]
  /\ current.layer = e[<<i, 0, 0>>] /\ current.neuron = e[<<i, j, 0>>]
  /\ current.weight = IF k < WeightsOf(net, i) THEN e[<<i, j, k + 1>>] ELSE NULL
BetweenLayers  == \E e, t, i, j, k : CopyingLayers(e, t, i, j, k)
BetweenNeurons == \E e, t, i, j, k, a : CopyingNeurons(e, t, i, j, k, a)
BetweenWeights == \E e, t, i, j, k, a, b : CopyingWeights(e, t, i, j, k, a, b)

(***************************************************************************)
(* With more than one neuron in each layer.  A list of one node that was   *)
(* copied is a ring, in which none of this could be said.                  *)
(***************************************************************************)
Sound ==
  NoneOfOne(net) =>
    /\ at # "crashed"
    /\ at = "initialise" => Initialising
    /\ at \in {"ready", "evaluate"} => Resting
    /\ at = "convert" => Converting
    /\ at = "free" => Freeing
    /\ at = "copy" => IF target = NULL THEN Gone
                      ELSE BetweenLayers \/ BetweenNeurons \/ BetweenWeights
-----------------------------------------------------------------------------
\* It begins with the two networks, and nothing else.
LEMMA InitSound == Server!MemoryInit /\ IsShape(net) => Sound
<1> SUFFICES ASSUME Server!MemoryInit, IsShape(net)
             PROVE  Sound
  OBVIOUS
<1>1. /\ heap = [a \in Server!Addresses \cup {Server!NULL} |->
                   IF a \in {1, 2} THEN Server!Node("net", Len(net)) ELSE Server!Freed]
      /\ global = 1 /\ sums = 2 /\ at = "initialise" /\ target = global
      /\ loop = Server!noloop /\ forgotten = {}
  BY DEF Server!MemoryInit
<1>2. 1 \in Addresses /\ 2 \in Addresses
  BY MemoryAssumption DEF Addresses, Server!Addresses
<1>3. heap[1] = Server!Node("net", Len(net)) /\ heap[2] = Server!Node("net", Len(net))
  BY <1>1, <1>2 DEF Addresses
<1>4. PICK f : Part(net, heap, f, 1, 0, 0, 0, 0, 0, 0) /\ At(f) = {1}
  BY <1>2, <1>3, RootIsPart, ZenonT(30)
<1>5. PICK e : Part(net, heap, e, 2, 0, 0, 0, 0, 0, 0) /\ At(e) = {2}
  BY <1>2, <1>3, RootIsPart, ZenonT(30)
<1>6. UnderWay(net, heap, f, target, loop)
  BY <1>1, <1>4 DEF UnderWay, Server!noloop
<1>7. Server!Allocated(heap) = {1, 2}
  <2>1. ASSUME NEW y \in Addresses
        PROVE  heap[y].kind # "free" <=> y \in {1, 2}
    <3>1. heap[y] = IF y \in {1, 2} THEN Server!Node("net", Len(net)) ELSE Server!Freed
      BY <1>1 DEF Addresses
    <3>2. Server!Node("net", Len(net)).kind = "net" /\ Server!Freed.kind = "free"
      BY NewNode, FreedNode, ShapeFacts DEF Kinds
    <3>3. QED
      BY <3>1, <3>2
  <2>2. QED
    BY <1>2, <2>1 DEF Server!Allocated, Addresses
<1>8. Divided(heap, forgotten, {}, At(e), At(f))
  <2>1. At(e) \cap At(f) = {} /\ {} \cup At(e) \cup At(f) \cup forgotten = {1, 2}
    BY <1>1, <1>4, <1>5
  <2>2. QED
    BY <1>1, <1>7, <2>1 DEF Divided
<1>9. Initialising
  BY <1>1, <1>5, <1>6, <1>8 DEF Initialising
<1>10. QED
  BY <1>1, <1>9 DEF Sound

\* The global network is built, and then that of the sums.
LEMMA InitialiseKeepsSound ==
  ASSUME MemoryInv, IsShape(net), net' = net, NoneOfOne(net), Sound,
         \/ Server!NewLayer \/ Server!NewNeuron \/ Server!NewWeight
  PROVE  Sound'
<1>1. /\ at = "initialise" /\ Initialising /\ Heap(heap)
      /\ loop \in [i : Nat, j : Nat, k : Nat]
      /\ Server!AddLayer \/ Server!AddNeuron \/ Server!AddWeight
      /\ at' = at /\ global' = global /\ sums' = sums /\ target' = target
      /\ forgotten' = forgotten
  BY DEF Server!NewLayer, Server!NewNeuron, Server!NewWeight, Server!Building, Sound,
         MemoryInv, ServerTypes
<1>2. PICK f, e :
        /\ UnderWay(net, heap, f, target, loop)
        /\ \/ target = global /\ Part(net, heap, e, sums, 0, 0, 0, 0, 0, 0)
           \/ target = sums /\ Whole(net, heap, e, global)
        /\ Divided(heap, forgotten, {}, At(e), At(f))
  BY <1>1 DEF Initialising
<1>3. PICK f2 : UnderWay(net, heap', f2, target, loop') /\ Grown(heap, heap', f, f2)
  BY <1>1, <1>2, BuildingGrows
<1>4. /\ Divided(heap', forgotten, {}, At(e), At(f2))
      /\ \A y \in {} \cup At(e) : heap'[y] = heap[y]
  BY <1>1, <1>2, <1>3, PartGrows DEF UnderWay
<1>5. \/ target = global /\ Part(net, heap', e, sums, 0, 0, 0, 0, 0, 0)
      \/ target = sums /\ Whole(net, heap', e, global)
  BY <1>2, <1>4, PartElsewhere, WholeElsewhere
<1>6. Initialising'
  BY <1>1, <1>3, <1>4, <1>5 DEF Initialising
<1>7. QED
  BY <1>1, <1>6 DEF Sound

LEMMA InitialisedKeepsSound ==
  ASSUME MemoryInv, IsShape(net), net' = net, NoneOfOne(net), Sound, Server!Initialised
  PROVE  Sound'
<1>1. /\ at = "initialise" /\ Initialising /\ Heap(heap) /\ Server!Built
      /\ loop \in [i : Nat, j : Nat, k : Nat]
      /\ IF target = global THEN target' = sums /\ at' = at ELSE target' = NULL /\ at' = "ready"
      /\ global' = global /\ sums' = sums /\ forgotten' = forgotten /\ heap' = heap
      /\ loop' = Server!noloop
  BY DEF Server!Initialised, Sound, MemoryInv, ServerTypes, NULL
<1>2. PICK f, e :
        /\ UnderWay(net, heap, f, target, loop)
        /\ \/ target = global /\ Part(net, heap, e, sums, 0, 0, 0, 0, 0, 0)
           \/ target = sums /\ Whole(net, heap, e, global)
        /\ Divided(heap, forgotten, {}, At(e), At(f))
  BY <1>1 DEF Initialising
<1>3. Whole(net, heap, f, target)
  BY <1>1, <1>2, BuiltWhole
<1>4. target \in At(f) /\ At(e) \cap At(f) = {}
  BY <1>2, <1>3, WholeIsAllocated DEF Divided
<1>5. CASE target = global
  <2>1. Part(net, heap, e, sums, 0, 0, 0, 0, 0, 0)
    <3>1. CASE target = sums /\ Whole(net, heap, e, global)
      BY <1>4, <1>5, <3>1, WholeIsAllocated
    <3>2. QED
      BY <1>2, <3>1
  <2>2. UnderWay(net, heap, e, sums, loop')
    BY <1>1, <2>1 DEF UnderWay, Server!noloop
  <2>3. Divided(heap, forgotten, {}, At(f), At(e))
    BY <1>2 DEF Divided
  <2>4. Initialising'
    BY <1>1, <1>3, <1>5, <2>2, <2>3 DEF Initialising
  <2>5. QED
    BY <1>1, <1>5, <2>4 DEF Sound
<1>6. CASE target # global
  <2>1. target = sums /\ Whole(net, heap, e, global)
    BY <1>2, <1>6
  <2>2. Divided(heap, forgotten, At(e), At(f), {})
    BY <1>2 DEF Divided
  <2>3. Resting'
    BY <1>1, <1>3, <2>1, <2>2 DEF Resting
  <2>4. QED
    BY <1>1, <1>6, <2>3 DEF Sound
<1>7. QED
  BY <1>5, <1>6

\* An update arrives, is converted, and is forgotten.
LEMMA ReceiveKeepsSound ==
  ASSUME MemoryInv, IsShape(net), net' = net, NoneOfOne(net), Sound, Server!ReceiveUpdate
  PROVE  Sound'
<1> DEFINE x == Server!malloc(heap)
<1>1. /\ Resting /\ Heap(heap) /\ at' = "convert" /\ Server!HasRoom /\ target' = x
      /\ heap' = [heap EXCEPT ![x] = Server!Node("net", Len(net))]
      /\ global' = global /\ sums' = sums /\ forgotten' = forgotten /\ loop' = Server!noloop
  BY DEF Server!ReceiveUpdate, Sound, MemoryInv, ServerTypes
<1>2. x \in Addresses /\ heap[x].kind = "free" /\ heap'[x] = Server!Node("net", Len(net))
      /\ \A y \in Pointers : y # x => heap'[y] = heap[y]
  <2>1. x \in Addresses /\ heap[x].kind = "free"
    BY <1>1, MallocIsFree DEF Server!HasRoom, Addresses
  <2> HIDE DEF x
  <2>2. QED
    BY <1>1, <2>1 DEF Heap, Pointers
<1> HIDE DEF x
<1>3. PICK f, e : /\ Whole(net, heap, f, global) /\ Whole(net, heap, e, sums)
                  /\ Divided(heap, forgotten, At(f), At(e), {})
  BY <1>1 DEF Resting
<1>4. PICK t : Part(net, heap', t, x, 0, 0, 0, 0, 0, 0) /\ At(t) = {x}
  BY <1>2, RootIsPart
<1> DEFINE none == [p \in {} |-> NULL]
<1>5. At(none) = {}
  BY DEF At
<1> HIDE DEF none
<1>6. Grown(heap, heap', none, t) /\ Divided(heap, forgotten, At(f), At(e), At(none))
  <2>2. Heap(heap')
    BY <1>1, <1>2, NodeIsAllocated, ShapeFacts DEF Kinds, x
  <2>3. Outside(heap, heap', t)
    BY <1>2, <1>4, <2>2 DEF Outside
  <2>4. QED
    BY <1>2, <1>3, <1>4, <1>5, <2>3 DEF Grown
<1>p. At(t) \subseteq Server!Allocated(heap')
  BY <1>4, PartIsAllocatedThere
<1> DEFINE A == At(f)  B == At(e)
<1>d. Divided(heap, forgotten, A, B, At(none)) /\ Grown(heap, heap', none, t)
  BY <1>6
<1> HIDE DEF A, B
<1>g. Divided(heap', forgotten, A, B, At(t)) /\ \A y \in A \cup B : heap'[y] = heap[y]
  <2>1. Heap(heap)
    BY <1>1
  <2>2. QED
    BY <2>1, <1>d, <1>p, DividedGrown
<1>7. /\ Divided(heap', forgotten, At(f), At(e), At(t))
      /\ \A y \in At(f) \cup At(e) : heap'[y] = heap[y]
  BY <1>g DEF A, B
<1>8. Whole(net, heap', f, global) /\ Whole(net, heap', e, sums)
  BY <1>3, <1>7, WholeElsewhere
<1>9. UnderWay(net, heap', t, target', loop')
  BY <1>1, <1>4 DEF UnderWay, Server!noloop
<1>10. Converting'
  BY <1>1, <1>7, <1>8, <1>9 DEF Converting
<1>11. QED
  BY <1>1, <1>10 DEF Sound

LEMMA ConvertKeepsSound ==
  ASSUME MemoryInv, IsShape(net), net' = net, NoneOfOne(net), Sound,
         \/ Server!ConvertLayer \/ Server!ConvertNeuron \/ Server!ConvertWeight
  PROVE  Sound'
<1>1. /\ at = "convert" /\ Converting /\ Heap(heap)
      /\ loop \in [i : Nat, j : Nat, k : Nat]
      /\ Server!AddLayer \/ Server!AddNeuron \/ Server!AddWeight
      /\ at' = at /\ global' = global /\ sums' = sums /\ target' = target
      /\ forgotten' = forgotten
  BY DEF Server!ConvertLayer, Server!ConvertNeuron, Server!ConvertWeight, Server!Building,
         Sound, MemoryInv, ServerTypes
<1>2. PICK f, e, t :
        /\ Whole(net, heap, f, global) /\ Whole(net, heap, e, sums)
        /\ UnderWay(net, heap, t, target, loop)
        /\ Divided(heap, forgotten, At(f), At(e), At(t))
  BY <1>1 DEF Converting
<1>3. PICK t2 : UnderWay(net, heap', t2, target, loop') /\ Grown(heap, heap', t, t2)
  BY <1>1, <1>2, BuildingGrows
<1>4. /\ Divided(heap', forgotten, At(f), At(e), At(t2))
      /\ \A y \in At(f) \cup At(e) : heap'[y] = heap[y]
  BY <1>1, <1>2, <1>3, PartGrows DEF UnderWay
<1>5. Whole(net, heap', f, global) /\ Whole(net, heap', e, sums)
  BY <1>2, <1>4, WholeElsewhere
<1>6. Converting'
  BY <1>1, <1>3, <1>4, <1>5 DEF Converting
<1>7. QED
  BY <1>1, <1>6 DEF Sound

\* What can be reached from a network is what was laid out for it.
LEMMA PartIsReached ==
  ASSUME NEW w, IsShape(w), NEW h, Heap(h), NEW t, NEW r, NEW i, NEW j, NEW k,
         Part(w, h, t, r, i, j, k, i, j, k)
  PROVE  Server!Reach(h, {r}) = At(t)
<1> DEFINE C == UpTo(w, i, j, k)
           c == Counts(w, i, j, k, i, j, k)
<1>1. Laid(w, h, C, t, c) /\ t[Root] = r /\ PosOK(w, i, j, k)
  BY DEF Part
<1>2. Joined(C, c)
  BY <1>1, PartIsJoined
<1> HIDE DEF C, c
<1>3. Server!Reach(h, {t[Root]}) = At(t)
  BY <1>1, <1>2, ReachOfLayout
<1>4. QED
  BY <1>1, <1>3

LEMMA WholeIsReached ==
  ASSUME NEW w, IsShape(w), NEW h, Heap(h), NEW f, NEW r, Whole(w, h, f, r),
         NEW e, NEW s, Whole(w, h, e, s)
  PROVE  /\ Server!Reach(h, {r}) = At(f) /\ Server!Reach(h, {s}) = At(e)
         /\ Server!Reach(h, {r, s}) = At(f) \cup At(e)
<1>1. /\ Laid(w, h, Sites(w), f, Full(w)) /\ f[Root] = r
      /\ Laid(w, h, Sites(w), e, Full(w)) /\ e[Root] = s
      /\ Joined(Sites(w), Full(w))
  BY WholeIsJoined DEF Whole
<1>2. Server!Reach(h, {f[Root]}) = At(f) /\ Server!Reach(h, {e[Root]}) = At(e)
  BY <1>1, ReachOfLayout
<1>3. Server!Reach(h, {f[Root], e[Root]}) = At(f) \cup At(e)
  BY <1>1, ReachOfTwo
<1>4. QED
  BY <1>1, <1>2, <1>3

\* Where freeing begins, nothing has been freed.
LEMMA FreeingBegins ==
  ASSUME NEW w, IsShape(w)
  PROVE  FreePos(w, 1, 1, 1) /\ Rest(w, 1, 1, 1) = Sites(w)
<1>1. FreePos(w, 1, 1, 1)
  BY ShapeFacts DEF FreePos, WeightsOf
<1>2. ASSUME NEW p \in Sites(w)
      PROVE  p \in Rest(w, 1, 1, 1)
  <2>1. /\ p[1] \in Nat /\ p[2] \in Nat /\ p[3] \in Nat
        /\ p = <<p[1], p[2], p[3]>> /\ (p[1] = 0 => p[2] = 0 /\ p[3] = 0)
    BY SiteBounds
  <2>2. p[1] = 0 => p = Root
    BY <2>1 DEF Root
  <2>3. QED
    BY <2>1, <2>2 DEF Rest
<1>3. QED
  BY <1>1, <1>2 DEF Rest

\* The first nodes of a network with at least one neuron in a layer.
LEMMA FirstNodes ==
  ASSUME NEW w, IsShape(w), NoneOfOne(w), NEW h, NEW f, NEW r, Whole(w, h, f, r)
  PROVE  /\ h[r].first = f[<<1, 0, 0>>] /\ h[r].size = Len(w)
         /\ h[f[<<1, 0, 0>>]].first = f[<<1, 1, 0>>]
<1>1. 1 \in 1 .. Len(w) /\ Len(w) # 0 /\ w[1] # 0
  BY ShapeFacts
<1>2. /\ Root \in Sites(w) /\ SizeOf(w, Root) = Len(w) /\ Child(Root, 1) = <<1, 0, 0>>
  BY RootSite
<1>3. /\ <<1, 0, 0>> \in Sites(w) /\ SizeOf(w, <<1, 0, 0>>) = w[1]
      /\ Child(<<1, 0, 0>>, 1) = <<1, 1, 0>>
  BY <1>1, LayerSite
<1>4. h[f[Root]].first = f[<<1, 0, 0>>] /\ h[f[Root]].size = Len(w) /\ f[Root] = r
  <2>1. /\ h[f[Root]].size = SizeOf(w, Root)
        /\ h[f[Root]].first = IF SizeOf(w, Root) = 0 THEN NULL ELSE f[Child(Root, 1)]
    BY <1>2, WholeFacts
  <2>2. QED
    BY <1>1, <1>2, <2>1 DEF Whole
<1>5. h[f[<<1, 0, 0>>]].first = f[<<1, 1, 0>>]
  <2> DEFINE q == <<1, 0, 0>>
  <2>1. q \in Sites(w) /\ SizeOf(w, q) = w[1] /\ Child(q, 1) = <<1, 1, 0>>
    BY <1>3
  <2> HIDE DEF q
  <2>2. h[f[q]].first = IF SizeOf(w, q) = 0 THEN NULL ELSE f[Child(q, 1)]
    BY <2>1, WholeFacts
  <2>3. QED
    BY <1>1, <2>1, <2>2 DEF q
<1>6. QED
  BY <1>4, <1>5

\* What a finished or a failed conversion leaves behind is forgotten, and the
\* freeing of the global network begins at its first neuron.
LEMMA UpdateEndKeepsSound ==
  ASSUME MemoryInv, IsShape(net), net' = net, NoneOfOne(net), Sound,
         Server!ConvertFails \/ Server!Aggregate
  PROVE  Sound'
<1>1. /\ Converting /\ Heap(heap) /\ at' \in {"ready", "free"}
      /\ forgotten' = forgotten \cup Server!Reach(heap, {target})
      /\ heap' = heap /\ global' = global /\ sums' = sums
  BY DEF Server!ConvertFails, Server!Aggregate, Server!Forget, Sound, MemoryInv, ServerTypes
<1>2. at' = "free" =>
        current' = [layer |-> heap[global].first, neuron |-> heap[heap[global].first].first,
                    weight |-> NULL]
  BY DEF Server!ConvertFails, Server!Aggregate, Server!nowhere, NULL
<1>3. PICK f, e, t :
        /\ Whole(net, heap, f, global) /\ Whole(net, heap, e, sums)
        /\ UnderWay(net, heap, t, target, loop)
        /\ Divided(heap, forgotten, At(f), At(e), At(t))
  BY <1>1 DEF Converting
<1>4. Server!Reach(heap, {target}) = At(t)
  BY <1>1, <1>3, PartIsReached DEF UnderWay
<1>5. Divided(heap, forgotten', At(f), At(e), {})
  <2>1. forgotten' = forgotten \cup At(t)
    BY <1>1, <1>4
  <2>2. QED
    BY <1>3, <2>1 DEF Divided
<1>6. CASE at' = "ready"
  <2>1. Resting'
    BY <1>1, <1>3, <1>5 DEF Resting
  <2>2. QED
    BY <1>6, <2>1 DEF Sound
<1>7. CASE at' = "free"
  <2>1. FreePos(net, 1, 1, 1) /\ Rest(net, 1, 1, 1) = Sites(net)
    BY FreeingBegins
  <2>2. Image(f, Rest(net, 1, 1, 1)) = At(f)
    BY <1>3, <2>1 DEF Image, At, Whole, Laid, Layout
  <2>3. current' = Cursor(net, f, 1, 1, 1)
    <3>1. heap[global].first = f[<<1, 0, 0>>] /\ heap[f[<<1, 0, 0>>]].first = f[<<1, 1, 0>>]
      BY <1>3, FirstNodes
    <3>2. 1 <= Len(net) /\ 1 <= net[1] /\ WeightsOf(net, 1) = 0
      BY ShapeFacts DEF WeightsOf
    <3>3. QED
      BY <1>2, <1>7, <3>1, <3>2 DEF Cursor
  <2>4. FreeingAt(e, f, heap, 1, 1, 1)'
    BY <1>1, <1>3, <1>5, <2>1, <2>2, <2>3 DEF FreeingAt
  <2>5. Freeing'
    BY <1>1, <2>4 DEF Freeing, FreeingAt
  <2>6. QED
    BY <1>7, <2>5 DEF Sound
<1>8. QED
  BY <1>1, <1>6, <1>7
-----------------------------------------------------------------------------
(***************************************************************************)
(* The global network is freed, from its first weight to itself.           *)
(***************************************************************************)
FreeStep(w, i, j, k, q, i2, j2, k2) ==
  /\ q \in Rest(w, i, j, k) /\ FreePos(w, i2, j2, k2)
  /\ Rest(w, i2, j2, k2) = Rest(w, i, j, k) \ {q}

LEMMA FreePosFacts ==
  ASSUME NEW w, IsShape(w), NEW i, NEW j, NEW k, FreePos(w, i, j, k)
  PROVE  /\ i \in Nat /\ j \in Nat /\ k \in Nat /\ i > 0 /\ Len(w) \in Nat
         /\ i <= Len(w) \/ i = Len(w) + 1
         /\ i <= Len(w) =>
              /\ i \in 1 .. Len(w) /\ w[i] \in Nat /\ w[i] > 0 /\ WeightsOf(w, i) \in Nat
              /\ j > 0 /\ (j <= w[i] \/ j = w[i] + 1)
              /\ j <= w[i] => k > 0 /\ (k <= WeightsOf(w, i) \/ k = WeightsOf(w, i) + 1)
BY ShapeFacts DEF FreePos

LEMMA FreeWeightStep ==
  ASSUME NEW w, IsShape(w), NEW i, NEW j, NEW k, FreePos(w, i, j, k),
         i <= Len(w), j <= w[i], k <= WeightsOf(w, i), NEW q, q = <<i, j, k>>
  PROVE  FreeStep(w, i, j, k, q, i, j, k + 1)
<1>1. /\ i \in 1 .. Len(w) /\ j \in 1 .. w[i] /\ k \in 1 .. WeightsOf(w, i)
      /\ i \in Nat /\ j \in Nat /\ k \in Nat /\ i > 0 /\ j > 0 /\ k > 0
      /\ WeightsOf(w, i) \in Nat
  BY FreePosFacts
<1>2. q \in Sites(w) /\ q[1] = i /\ q[2] = j /\ q[3] = k
  BY <1>1, WeightSite
<1>3. FreePos(w, i, j, k + 1)
  BY <1>1 DEF FreePos
<1>4. ASSUME NEW p \in Sites(w)
      PROVE  p \in Rest(w, i, j, k + 1) <=> p \in Rest(w, i, j, k) /\ p # q
  <2>1. p = q <=> p[1] = i /\ p[2] = j /\ p[3] = k
    BY <1>2, SiteBounds
  <2>2. Root[1] = 0 /\ p[1] \in Nat /\ p[2] \in Nat /\ p[3] \in Nat
    BY SiteBounds DEF Root
  <2>3. QED
    BY <1>1, <2>1, <2>2 DEF Rest
<1>5. q \in Rest(w, i, j, k)
  BY <1>1, <1>2 DEF Rest
<1>6. QED
  BY <1>3, <1>4, <1>5 DEF FreeStep, Rest

LEMMA FreeNeuronStep ==
  ASSUME NEW w, IsShape(w), NEW i, NEW j, NEW k, FreePos(w, i, j, k),
         i <= Len(w), j <= w[i], ~(k <= WeightsOf(w, i)), NEW q, q = <<i, j, 0>>
  PROVE  FreeStep(w, i, j, k, q, i, j + 1, 1)
<1>1. /\ i \in 1 .. Len(w) /\ j \in 1 .. w[i] /\ k = WeightsOf(w, i) + 1
      /\ i \in Nat /\ j \in Nat /\ k \in Nat /\ i > 0 /\ j > 0 /\ k > 0
      /\ WeightsOf(w, i) \in Nat /\ w[i] \in Nat
  BY FreePosFacts
<1>2. q \in Sites(w) /\ q[1] = i /\ q[2] = j /\ q[3] = 0
  BY <1>1, NeuronSite
<1>3. FreePos(w, i, j + 1, 1)
  BY <1>1 DEF FreePos
<1>4. ASSUME NEW p \in Sites(w)
      PROVE  p \in Rest(w, i, j + 1, 1) <=> p \in Rest(w, i, j, k) /\ p # q
  <2>1. p = q <=> p[1] = i /\ p[2] = j /\ p[3] = 0
    BY <1>2, SiteBounds
  <2>2. /\ Root[1] = 0 /\ p[1] \in Nat /\ p[2] \in Nat /\ p[3] \in Nat
        /\ p[1] = i => p[3] <= WeightsOf(w, i)
    BY <1>1, SiteBounds DEF Root
  <2>3. QED
    BY <1>1, <2>1, <2>2, SMTT(30) DEF Rest
<1>5. q \in Rest(w, i, j, k)
  BY <1>1, <1>2 DEF Rest
<1>6. QED
  BY <1>3, <1>4, <1>5 DEF FreeStep, Rest

LEMMA FreeLayerStep ==
  ASSUME NEW w, IsShape(w), NEW i, NEW j, NEW k, FreePos(w, i, j, k),
         i <= Len(w), ~(j <= w[i]), NEW q, q = <<i, 0, 0>>
  PROVE  FreeStep(w, i, j, k, q, i + 1, 1, 1)
<1>1. /\ i \in 1 .. Len(w) /\ j = w[i] + 1
      /\ i \in Nat /\ j \in Nat /\ k \in Nat /\ i > 0 /\ j > 0
      /\ WeightsOf(w, i) \in Nat /\ w[i] \in Nat /\ Len(w) \in Nat
  BY FreePosFacts
<1>2. q \in Sites(w) /\ q[1] = i /\ q[2] = 0 /\ q[3] = 0
  BY <1>1, LayerSite
<1>3. FreePos(w, i + 1, 1, 1)
  BY <1>1, ShapeFacts DEF FreePos
<1>4. ASSUME NEW p \in Sites(w)
      PROVE  p \in Rest(w, i + 1, 1, 1) <=> p \in Rest(w, i, j, k) /\ p # q
  <2>1. p = q <=> p[1] = i /\ p[2] = 0
    BY <1>2, SiteBounds
  <2>2. /\ Root[1] = 0 /\ p[1] \in Nat /\ p[2] \in Nat /\ p[3] \in Nat
        /\ p[1] = i => p[2] <= w[i]
        /\ p[2] = 0 => p[3] = 0
    BY <1>1, SiteBounds DEF Root
  <2>3. p \in Rest(w, i + 1, 1, 1) <=> p = Root \/ p[1] > i
    BY <1>1, <2>2, SMTT(30) DEF Rest
  <2>4. p \in Rest(w, i, j, k) <=> p = Root \/ p[1] > i \/ (p[1] = i /\ p[2] = 0)
    BY <1>1, <2>2 DEF Rest
  <2>5. QED
    BY <1>1, <2>1, <2>2, <2>3, <2>4
<1>5. q \in Rest(w, i, j, k)
  BY <1>1, <1>2 DEF Rest
<1>6. QED
  BY <1>3, <1>4, <1>5 DEF FreeStep, Rest

LEMMA RootIsLast ==
  ASSUME NEW w, IsShape(w), NEW i, NEW j, NEW k, FreePos(w, i, j, k)
  PROVE  /\ Root \in Rest(w, i, j, k)
         /\ ~(i <= Len(w)) => Rest(w, i, j, k) = {Root}
<1>1. Root \in Rest(w, i, j, k)
  BY RootSite DEF Rest
<1>2. ASSUME ~(i <= Len(w)), NEW p \in Rest(w, i, j, k)
      PROVE  p = Root
  <2>1. i = Len(w) + 1 /\ Len(w) \in Nat
    BY <1>2, FreePosFacts
  <2>2. p \in Sites(w) /\ p[1] \in Nat /\ (p[1] > 0 => p[1] <= Len(w))
    BY SiteBounds DEF Rest
  <2>3. QED
    BY <2>1, <2>2 DEF Rest
<1>3. QED
  BY <1>1, <1>2

\* The node of a site is freed, and the cursor is behind it.
LEMMA SiteIsFreed ==
  ASSUME IsShape(net), Heap(heap), NEW e, NEW f, NEW h, NEW i, NEW j, NEW k,
         FreeingAt(e, f, h, i, j, k),
         NEW q, NEW i2, NEW j2, NEW k2, FreeStep(net, i, j, k, q, i2, j2, k2),
         heap' = [heap EXCEPT ![f[q]] = Server!Freed],
         current' = Cursor(net, f, i2, j2, k2), net' = net,
         global' = global, sums' = sums, forgotten' = forgotten
  PROVE  FreeingAt(e, f, h, i2, j2, k2)'
<1> DEFINE R == Rest(net, i, j, k)
           R2 == Rest(net, i2, j2, k2)
           x == f[q]
<1>1. /\ Whole(net, heap, e, sums) /\ Whole(net, h, f, global)
      /\ \A p \in R : heap[f[p]] = h[f[p]]
      /\ Divided(heap, forgotten, Image(f, R), At(e), {})
  BY DEF FreeingAt
<1>2. q \in R /\ FreePos(net, i2, j2, k2) /\ R2 = R \ {q} /\ R \subseteq Sites(net)
  BY DEF FreeStep, Rest
<1>3. /\ \A p \in Sites(net) : f[p] \in Addresses
      /\ \A p, s \in Sites(net) : f[p] = f[s] => p = s
  BY <1>1 DEF Whole, Laid, Layout
<1>4. x \in Addresses /\ x \in Image(f, R)
  BY <1>2, <1>3 DEF Image
<1>5. heap'[x].kind = "free" /\ \A y \in Pointers : y # x => heap'[y] = heap[y]
  <2>1. heap'[x] = Server!Freed /\ \A y \in Pointers : y # x => heap'[y] = heap[y]
    BY <1>4 DEF Heap, Pointers
  <2>2. QED
    BY <2>1, FreedNode
<1> HIDE DEF R, R2, x
<1>6. Image(f, R2) = Image(f, R) \ {x}
  BY <1>2, <1>3 DEF Image, x
<1>7. x \notin At(e) /\ x \notin forgotten /\ At(e) \subseteq Addresses
  BY <1>1, <1>4, WholeIsAllocated DEF Divided
<1>8. Whole(net, heap', e, sums)
  <2>1. \A y \in At(e) : heap'[y] = heap[y]
    BY <1>5, <1>7 DEF Pointers
  <2>2. QED
    BY <1>1, <2>1, WholeElsewhere
<1>9. \A p \in R2 : heap'[f[p]] = h[f[p]]
  <2>1. ASSUME NEW p \in R2
        PROVE  heap'[f[p]] = h[f[p]]
    <3>1. p \in R /\ p # q /\ p \in Sites(net) /\ q \in Sites(net)
      BY <1>2
    <3>2. f[p] # x /\ f[p] \in Pointers
      BY <1>3, <3>1 DEF x, Pointers
    <3>3. QED
      BY <1>1, <1>5, <3>1, <3>2
  <2>2. QED
    BY <2>1
<1>10. Server!Allocated(heap') = Server!Allocated(heap) \ {x}
  BY <1>5 DEF Server!Allocated, Addresses, Pointers
<1>11. Divided(heap', forgotten, Image(f, R2), At(e), {})
  BY <1>1, <1>4, <1>6, <1>7, <1>10 DEF Divided
<1>12. QED
  BY <1>1, <1>2, <1>8, <1>9, <1>11 DEF FreeingAt, R2

\* Where the cursor is, and what is behind the node that it is at.
AtWeight(e, f, h, i, j, k) ==
  FreeingAt(e, f, h, i, j, k) /\ i <= Len(net) /\ j <= net[i] /\ k <= WeightsOf(net, i)
AtNeuron(e, f, h, i, j, k) ==
  FreeingAt(e, f, h, i, j, k) /\ i <= Len(net) /\ j <= net[i] /\ ~(k <= WeightsOf(net, i))
AtLayer(e, f, h, i, j, k) ==
  FreeingAt(e, f, h, i, j, k) /\ i <= Len(net) /\ ~(j <= net[i])
AtNet(e, f, h, i, j, k) == FreeingAt(e, f, h, i, j, k) /\ ~(i <= Len(net))

LEMMA RestNode ==
  ASSUME IsShape(net), NoneOfOne(net), NEW e, NEW f, NEW h, NEW i, NEW j, NEW k,
         FreeingAt(e, f, h, i, j, k), NEW p \in Rest(net, i, j, k)
  PROVE  /\ p \in Sites(net) /\ f[p] \in Addresses /\ f[p] # NULL
         /\ heap[f[p]].kind = KindOf(p) /\ heap[f[p]].next = h[f[p]].next
         /\ SizeOf(net, p) \in Nat
         /\ heap[f[p]].first = IF SizeOf(net, p) = 0 THEN NULL ELSE f[Child(p, 1)]
<1>1. Whole(net, h, f, global) /\ heap[f[p]] = h[f[p]] /\ p \in Sites(net)
  BY DEF FreeingAt, Rest
<1>2. /\ f[p] \in Addresses /\ h[f[p]].kind = KindOf(p) /\ SizeOf(net, p) \in Nat
      /\ h[f[p]].first = IF SizeOf(net, p) = 0 THEN NULL ELSE f[Child(p, 1)]
  BY <1>1, WholeFacts
<1>3. QED
  BY <1>1, <1>2, NULLIsNoAddress

LEMMA NextInLaid ==
  ASSUME NEW w, IsShape(w), NoneOfOne(w), NEW h, NEW f, NEW r, Whole(w, h, f, r),
         NEW p \in Sites(w), NEW n \in 1 .. SizeOf(w, p), NEW q, q = Child(p, n)
  PROVE  h[f[q]].next = IF n = SizeOf(w, p) THEN NULL ELSE f[Child(p, n + 1)]
BY WholeFacts

LEMMA WeightIsAt ==
  ASSUME IsShape(net), NoneOfOne(net), NEW e, NEW f, NEW h, NEW i, NEW j, NEW k,
         AtWeight(e, f, h, i, j, k), NEW q, q = <<i, j, k>>
  PROVE  /\ FreeStep(net, i, j, k, q, i, j, k + 1)
         /\ Server!Innermost = f[q] /\ heap[f[q]].kind = "weight"
         /\ Server!Successor = IF k = WeightsOf(net, i) THEN NULL ELSE f[<<i, j, k + 1>>]
<1>1. /\ FreeingAt(e, f, h, i, j, k) /\ FreePos(net, i, j, k)
      /\ i <= Len(net) /\ j <= net[i] /\ k <= WeightsOf(net, i)
      /\ Whole(net, h, f, global) /\ current = Cursor(net, f, i, j, k)
  BY DEF AtWeight, FreeingAt
<1>2. FreeStep(net, i, j, k, q, i, j, k + 1)
  BY <1>1, FreeWeightStep
<1>3. i \in 1 .. Len(net) /\ j \in 1 .. net[i] /\ k \in 1 .. WeightsOf(net, i)
  BY <1>1, FreePosFacts
<1>4. /\ <<i, j, 0>> \in Sites(net) /\ SizeOf(net, <<i, j, 0>>) = WeightsOf(net, i)
      /\ Child(<<i, j, 0>>, k) = q /\ Child(<<i, j, 0>>, k + 1) = <<i, j, k + 1>>
      /\ KindOf(q) = "weight"
  BY <1>3, NeuronSite, WeightSite
<1>5. q \in Rest(net, i, j, k)
  BY <1>2 DEF FreeStep
<1>6. /\ f[q] # NULL /\ heap[f[q]].kind = KindOf(q) /\ heap[f[q]].next = h[f[q]].next
  BY <1>1, <1>5, RestNode
<1>7. h[f[q]].next = IF k = WeightsOf(net, i) THEN NULL ELSE f[<<i, j, k + 1>>]
  <2> DEFINE p == <<i, j, 0>>
  <2>1. /\ p \in Sites(net) /\ k \in 1 .. SizeOf(net, p) /\ q = Child(p, k)
        /\ SizeOf(net, p) = WeightsOf(net, i) /\ Child(p, k + 1) = <<i, j, k + 1>>
    BY <1>3, <1>4
  <2> HIDE DEF p
  <2>2. h[f[q]].next = IF k = SizeOf(net, p) THEN NULL ELSE f[Child(p, k + 1)]
    BY <1>1, <2>1, NextInLaid
  <2>3. QED
    BY <2>1, <2>2
<1>8. Server!Innermost = f[q]
  BY <1>1, <1>6 DEF Server!Innermost, Cursor, NULL
<1>9. QED
  BY <1>2, <1>4, <1>6, <1>7, <1>8 DEF Server!Successor

LEMMA NeuronIsAt ==
  ASSUME IsShape(net), NoneOfOne(net), NEW e, NEW f, NEW h, NEW i, NEW j, NEW k,
         AtNeuron(e, f, h, i, j, k), NEW q, q = <<i, j, 0>>
  PROVE  /\ FreeStep(net, i, j, k, q, i, j + 1, 1)
         /\ Server!Innermost = f[q] /\ heap[f[q]].kind = "neuron"
         /\ Server!Successor = IF j = net[i] THEN NULL ELSE f[<<i, j + 1, 0>>]
<1>1. /\ FreeingAt(e, f, h, i, j, k) /\ FreePos(net, i, j, k)
      /\ i <= Len(net) /\ j <= net[i] /\ ~(k <= WeightsOf(net, i))
      /\ Whole(net, h, f, global) /\ current = Cursor(net, f, i, j, k)
  BY DEF AtNeuron, FreeingAt
<1>2. FreeStep(net, i, j, k, q, i, j + 1, 1)
  BY <1>1, FreeNeuronStep
<1>3. i \in 1 .. Len(net) /\ j \in 1 .. net[i]
  BY <1>1, FreePosFacts
<1>4. /\ <<i, 0, 0>> \in Sites(net) /\ SizeOf(net, <<i, 0, 0>>) = net[i]
      /\ Child(<<i, 0, 0>>, j) = q /\ Child(<<i, 0, 0>>, j + 1) = <<i, j + 1, 0>>
      /\ KindOf(q) = "neuron"
  BY <1>3, NeuronSite, LayerSite
<1>5. q \in Rest(net, i, j, k)
  BY <1>2 DEF FreeStep
<1>6. /\ f[q] # NULL /\ heap[f[q]].kind = KindOf(q) /\ heap[f[q]].next = h[f[q]].next
  BY <1>1, <1>5, RestNode
<1>7. h[f[q]].next = IF j = net[i] THEN NULL ELSE f[<<i, j + 1, 0>>]
  <2> DEFINE p == <<i, 0, 0>>
  <2>1. /\ p \in Sites(net) /\ j \in 1 .. SizeOf(net, p) /\ q = Child(p, j)
        /\ SizeOf(net, p) = net[i] /\ Child(p, j + 1) = <<i, j + 1, 0>>
    BY <1>3, <1>4
  <2> HIDE DEF p
  <2>2. h[f[q]].next = IF j = SizeOf(net, p) THEN NULL ELSE f[Child(p, j + 1)]
    BY <1>1, <2>1, NextInLaid
  <2>3. QED
    BY <2>1, <2>2
<1>8. Server!Innermost = f[q]
  BY <1>1, <1>6 DEF Server!Innermost, Cursor, NULL
<1>9. QED
  BY <1>2, <1>4, <1>6, <1>7, <1>8 DEF Server!Successor

LEMMA LayerIsAt ==
  ASSUME IsShape(net), NoneOfOne(net), NEW e, NEW f, NEW h, NEW i, NEW j, NEW k,
         AtLayer(e, f, h, i, j, k), NEW q, q = <<i, 0, 0>>, NEW n, n = i + 1
  PROVE  /\ FreeStep(net, i, j, k, q, n, 1, 1)
         /\ Server!Innermost = f[q] /\ heap[f[q]].kind = "layer"
         /\ Server!Successor = IF i = Len(net) THEN NULL ELSE f[<<n, 0, 0>>]
<1>1. /\ FreeingAt(e, f, h, i, j, k) /\ FreePos(net, i, j, k)
      /\ i <= Len(net) /\ ~(j <= net[i])
      /\ Whole(net, h, f, global) /\ current = Cursor(net, f, i, j, k)
  BY DEF AtLayer, FreeingAt
<1>2. FreeStep(net, i, j, k, q, i + 1, 1, 1)
  BY <1>1, FreeLayerStep
<1>3. i \in 1 .. Len(net)
  BY <1>1, FreePosFacts
<1>4. /\ Root \in Sites(net) /\ SizeOf(net, Root) = Len(net)
      /\ Child(Root, i) = q /\ Child(Root, i + 1) = <<i + 1, 0, 0>>
      /\ KindOf(q) = "layer"
  BY <1>3, RootSite, LayerSite
<1>5. q \in Rest(net, i, j, k)
  BY <1>2 DEF FreeStep
<1>6. /\ f[q] # NULL /\ heap[f[q]].kind = KindOf(q) /\ heap[f[q]].next = h[f[q]].next
  BY <1>1, <1>5, RestNode
<1>7. h[f[q]].next = IF i = Len(net) THEN NULL ELSE f[<<i + 1, 0, 0>>]
  <2>1. i \in 1 .. SizeOf(net, Root)
    BY <1>3, <1>4
  <2>2. h[f[q]].next = IF i = SizeOf(net, Root) THEN NULL ELSE f[Child(Root, i + 1)]
    BY <1>1, <1>4, <2>1, NextInLaid
  <2>3. QED
    BY <1>4, <2>2
<1>8. Server!Innermost = f[q]
  BY <1>1, <1>6 DEF Server!Innermost, Cursor, NULL
<1>9. QED
  BY <1>2, <1>4, <1>6, <1>7, <1>8 DEF Server!Successor

LEMMA NetIsAt ==
  ASSUME IsShape(net), NoneOfOne(net), NEW e, NEW f, NEW h, NEW i, NEW j, NEW k,
         AtNet(e, f, h, i, j, k)
  PROVE  /\ Server!Innermost = global /\ heap[global].kind = "net" /\ f[Root] = global
         /\ Rest(net, i, j, k) = {Root}
<1>1. /\ FreeingAt(e, f, h, i, j, k) /\ FreePos(net, i, j, k) /\ ~(i <= Len(net))
      /\ current = Cursor(net, f, i, j, k) /\ f[Root] = global
  BY DEF AtNet, FreeingAt, Whole
<1>2. Server!Innermost = global
  BY <1>1 DEF Server!Innermost, Cursor, NULL
<1>3. Root \in Rest(net, i, j, k) /\ Rest(net, i, j, k) = {Root} /\ KindOf(Root) = "net"
  BY <1>1, RootIsLast, RootSite
<1>4. heap[f[Root]].kind = KindOf(Root)
  BY <1>1, <1>3, RestNode
<1>5. QED
  BY <1>1, <1>2, <1>3, <1>4

LEMMA CursorIsSomewhere ==
  ASSUME NEW e, NEW f, NEW h, NEW i, NEW j, NEW k, FreeingAt(e, f, h, i, j, k)
  PROVE  \/ AtWeight(e, f, h, i, j, k) \/ AtNeuron(e, f, h, i, j, k)
         \/ AtLayer(e, f, h, i, j, k) \/ AtNet(e, f, h, i, j, k)
BY DEF AtWeight, AtNeuron, AtLayer, AtNet
LEMMA FreeWeightKeeps ==
  ASSUME IsShape(net), NoneOfOne(net), Heap(heap), net' = net, Server!FreeWeight,
         NEW e, NEW f, NEW h, NEW i, NEW j, NEW k, AtWeight(e, f, h, i, j, k)
  PROVE  Freeing'
<1> DEFINE q == <<i, j, k>>
<1>1. /\ FreeStep(net, i, j, k, q, i, j, k + 1) /\ Server!Innermost = f[q]
      /\ Server!Successor = IF k = WeightsOf(net, i) THEN NULL ELSE f[<<i, j, k + 1>>]
  BY WeightIsAt
<1>2. /\ FreeingAt(e, f, h, i, j, k) /\ FreePos(net, i, j, k)
      /\ i <= Len(net) /\ j <= net[i] /\ k <= WeightsOf(net, i)
      /\ current = Cursor(net, f, i, j, k)
  BY DEF AtWeight, FreeingAt
<1>3. /\ heap' = [heap EXCEPT ![f[q]] = Server!Freed]
      /\ current' = [current EXCEPT !.weight = Server!Successor]
      /\ global' = global /\ sums' = sums /\ forgotten' = forgotten
  BY <1>1 DEF Server!FreeWeight, Server!FreeNode
<1>4. k + 1 <= WeightsOf(net, i) <=> k # WeightsOf(net, i)
  BY <1>2, FreePosFacts
<1>5. current' = Cursor(net, f, i, j, k + 1)
  BY <1>1, <1>2, <1>3, <1>4 DEF Cursor
<1> HIDE DEF q
<1>6. FreeingAt(e, f, h, i, j, k + 1)'
  BY <1>1, <1>2, <1>3, <1>5, SiteIsFreed
<1>7. QED
  BY <1>6 DEF Freeing

\* The first node behind a successor that has not been freed.
LEMMA FirstBehind ==
  ASSUME IsShape(net), NoneOfOne(net), NEW e, NEW f, NEW h, NEW i, NEW j, NEW k,
         FreeingAt(e, f, h, i, j, k),
         NEW q, NEW i2, NEW j2, NEW k2, FreeStep(net, i, j, k, q, i2, j2, k2),
         NEW p \in Rest(net, i2, j2, k2)
  PROVE  heap[f[p]].first = IF SizeOf(net, p) = 0 THEN NULL ELSE f[Child(p, 1)]
<1>1. p \in Rest(net, i, j, k)
  BY DEF FreeStep
<1>2. QED
  BY <1>1, RestNode

LEMMA FreeNeuronKeeps ==
  ASSUME IsShape(net), NoneOfOne(net), Heap(heap), net' = net, Server!FreeNeuron,
         NEW e, NEW f, NEW h, NEW i, NEW j, NEW k, AtNeuron(e, f, h, i, j, k)
  PROVE  Freeing'
<1> DEFINE q == <<i, j, 0>>
           s == Server!Successor
<1>1. /\ FreeStep(net, i, j, k, q, i, j + 1, 1) /\ Server!Innermost = f[q]
      /\ s = IF j = net[i] THEN NULL ELSE f[<<i, j + 1, 0>>]
  BY NeuronIsAt
<1>2. /\ FreeingAt(e, f, h, i, j, k) /\ FreePos(net, i, j, k)
      /\ i <= Len(net) /\ j <= net[i] /\ ~(k <= WeightsOf(net, i))
      /\ current = Cursor(net, f, i, j, k)
  BY DEF AtNeuron, FreeingAt
<1>3. /\ heap' = [heap EXCEPT ![f[q]] = Server!Freed]
      /\ current' = [current EXCEPT !.neuron = s, !.weight = heap[s].first]
      /\ global' = global /\ sums' = sums /\ forgotten' = forgotten
  BY <1>1 DEF Server!FreeNeuron, Server!FreeNode
<1>4. /\ i \in 1 .. Len(net) /\ j \in Nat /\ j > 0 /\ net[i] \in Nat /\ i \in Nat
      /\ j + 1 <= net[i] <=> j # net[i]
      /\ WeightsOf(net, i) \in Nat
  BY <1>2, FreePosFacts
<1>5. heap[s].first = IF j + 1 <= net[i] /\ 1 <= WeightsOf(net, i) THEN f[<<i, j + 1, 1>>] ELSE NULL
  <2>1. CASE j = net[i]
    <3>1. s = NULL
      BY <1>1, <2>1
    <3>2. QED
      BY <1>4, <2>1, <3>1, FreedNode DEF Heap
  <2>2. CASE j # net[i]
    <3> DEFINE p == <<i, j + 1, 0>>
    <3>1. /\ p \in Sites(net) /\ SizeOf(net, p) = WeightsOf(net, i)
          /\ Child(p, 1) = <<i, j + 1, 1>> /\ p[1] = i /\ p[2] = j + 1 /\ p[3] = 0
      BY <1>4, <2>2, NeuronSite
    <3>2. p \in Rest(net, i, j + 1, 1)
      BY <1>4, <3>1 DEF Rest
    <3>3. s = f[p]
      BY <1>1, <2>2
    <3> HIDE DEF p
    <3>4. heap[f[p]].first = IF SizeOf(net, p) = 0 THEN NULL ELSE f[Child(p, 1)]
      BY <1>1, <1>2, <3>2, FirstBehind
    <3> HIDE DEF s
    <3>5. QED
      BY <1>4, <2>2, <3>1, <3>3, <3>4
  <2>3. QED
    BY <2>1, <2>2
<1>6. current' = Cursor(net, f, i, j + 1, 1)
  <2> HIDE DEF s
  <2>1. QED
    BY <1>1, <1>2, <1>3, <1>4, <1>5 DEF Cursor
<1> HIDE DEF q
<1>7. FreeingAt(e, f, h, i, j + 1, 1)'
  BY <1>1, <1>2, <1>3, <1>6, SiteIsFreed
<1>8. QED
  BY <1>7 DEF Freeing

LEMMA FreeLayerKeeps ==
  ASSUME IsShape(net), NoneOfOne(net), Heap(heap), net' = net, Server!FreeLayer,
         NEW e, NEW f, NEW h, NEW i, NEW j, NEW k, AtLayer(e, f, h, i, j, k)
  PROVE  Freeing'
<1> DEFINE q == <<i, 0, 0>>
           s == Server!Successor
           n == i + 1
<1>q. q = <<i, 0, 0>> /\ n = i + 1
  OBVIOUS
<1> HIDE DEF q, n
<1>1. /\ FreeStep(net, i, j, k, q, n, 1, 1) /\ Server!Innermost = f[q]
      /\ s = IF i = Len(net) THEN NULL ELSE f[<<n, 0, 0>>]
  BY <1>q, LayerIsAt
<1>2. /\ FreeingAt(e, f, h, i, j, k) /\ FreePos(net, i, j, k)
      /\ i <= Len(net) /\ ~(j <= net[i])
      /\ current = Cursor(net, f, i, j, k)
  BY DEF AtLayer, FreeingAt
<1>3. /\ heap' = [heap EXCEPT ![f[q]] = Server!Freed]
      /\ current' = [layer |-> s, neuron |-> heap[s].first,
                     weight |-> heap[heap[s].first].first]
      /\ global' = global /\ sums' = sums /\ forgotten' = forgotten
  BY <1>1 DEF Server!FreeLayer, Server!FreeNode
<1>4. /\ i \in 1 .. Len(net) /\ i \in Nat /\ Len(net) \in Nat /\ n \in Nat
      /\ n <= Len(net) <=> i # Len(net)
  BY <1>2, <1>q, FreePosFacts
<1>5. CASE i = Len(net)
  <2>1. s = NULL /\ ~(n <= Len(net))
    BY <1>1, <1>4, <1>5
  <2>2. heap[NULL].first = NULL
    BY FreedNode DEF Heap
  <2> HIDE DEF s
  <2>3. current' = Cursor(net, f, n, 1, 1)
    BY <1>3, <2>1, <2>2 DEF Cursor
  <2>4. FreeingAt(e, f, h, n, 1, 1)'
    BY <1>1, <1>2, <1>3, <2>3, SiteIsFreed
  <2>5. QED
    BY <2>4 DEF Freeing
<1>6. CASE i # Len(net)
  <2> DEFINE p == <<n, 0, 0>>
             u == <<n, 1, 0>>
  <2>0. n \in 1 .. Len(net) /\ s = f[p]
    BY <1>1, <1>4, <1>6, <1>q
  <2>1. /\ n \in 1 .. Len(net) /\ net[n] \in Nat /\ net[n] > 0 /\ 1 \in 1 .. net[n]
        /\ WeightsOf(net, n) \in Nat /\ s = f[p]
    BY <2>0, ShapeFacts
  <2>2. /\ p \in Sites(net) /\ SizeOf(net, p) = net[n] /\ Child(p, 1) = u
        /\ p[1] = n /\ p[2] = 0 /\ p[3] = 0
    BY <2>1, LayerSite
  <2>3. /\ u \in Sites(net) /\ SizeOf(net, u) = WeightsOf(net, n) /\ Child(u, 1) = <<n, 1, 1>>
        /\ u[1] = n /\ u[2] = 1 /\ u[3] = 0
    BY <2>1, NeuronSite
  <2>4. p \in Rest(net, n, 1, 1) /\ u \in Rest(net, n, 1, 1)
    BY <2>2, <2>3 DEF Rest
  <2>p. f[<<n, 0, 0>>] = f[p] /\ f[<<n, 1, 0>>] = f[u]
    OBVIOUS
  <2> HIDE DEF p, u, s
  <2>5. heap[f[p]].first = IF SizeOf(net, p) = 0 THEN NULL ELSE f[Child(p, 1)]
    BY <1>1, <1>2, <2>4, FirstBehind
  <2>6. heap[f[u]].first = IF SizeOf(net, u) = 0 THEN NULL ELSE f[Child(u, 1)]
    BY <1>1, <1>2, <2>4, FirstBehind
  <2>7. heap[s].first = f[u]
    BY <2>1, <2>2, <2>5
  <2>8. current' = [layer |-> f[<<n, 0, 0>>], neuron |-> f[<<n, 1, 0>>],
                    weight |-> IF 1 <= WeightsOf(net, n) THEN f[<<n, 1, 1>>] ELSE NULL]
    BY <1>3, <2>1, <2>3, <2>6, <2>7, <2>p
  <2>9. current' = Cursor(net, f, n, 1, 1)
    BY <1>4, <1>6, <2>1, <2>8 DEF Cursor
  <2>10. FreeingAt(e, f, h, n, 1, 1)'
    BY <1>1, <1>2, <1>3, <2>9, SiteIsFreed
  <2>11. QED
    BY <2>10 DEF Freeing
<1>7. QED
  BY <1>5, <1>6

LEMMA FreeNetworkKeeps ==
  ASSUME IsShape(net), NoneOfOne(net), Heap(heap), net' = net, Server!FreeNetwork,
         new.layer = NULL,
         NEW e, NEW f, NEW h, NEW i, NEW j, NEW k, AtNet(e, f, h, i, j, k)
  PROVE  Gone'
<1>1. /\ Server!Innermost = global /\ f[Root] = global /\ Rest(net, i, j, k) = {Root}
  BY NetIsAt
<1>2. /\ Whole(net, heap, e, sums) /\ Whole(net, h, f, global)
      /\ Divided(heap, forgotten, Image(f, {Root}), At(e), {})
  BY <1>1 DEF AtNet, FreeingAt
<1>3. /\ heap' = [heap EXCEPT ![global] = Server!Freed]
      /\ current'.layer = heap[sums].first /\ new' = new
      /\ sums' = sums /\ forgotten' = forgotten
  BY <1>1 DEF Server!FreeNetwork, Server!FreeNode, Server!nowhere
<1>4. global \in Addresses /\ Image(f, {Root}) = {global}
  BY <1>1, <1>2, WholeIsAllocated DEF Image
<1>5. heap'[global].kind = "free" /\ \A y \in Pointers : y # global => heap'[y] = heap[y]
  <2>1. heap'[global] = Server!Freed /\ \A y \in Pointers : y # global => heap'[y] = heap[y]
    BY <1>3, <1>4 DEF Heap, Pointers
  <2>2. QED
    BY <2>1, FreedNode
<1>6. global \notin At(e) /\ global \notin forgotten /\ At(e) \subseteq Addresses
  BY <1>2, <1>4, WholeIsAllocated DEF Divided
<1>7. Whole(net, heap', e, sums)
  <2>1. \A y \in At(e) : heap'[y] = heap[y]
    BY <1>5, <1>6 DEF Pointers
  <2>2. QED
    BY <1>2, <2>1, WholeElsewhere
<1>8. Server!Allocated(heap') = Server!Allocated(heap) \ {global}
  BY <1>5 DEF Server!Allocated, Addresses, Pointers
<1>9. Divided(heap', forgotten, {}, At(e), {})
  BY <1>2, <1>4, <1>6, <1>8 DEF Divided
<1>10. heap[sums].first = e[<<1, 0, 0>>]
  BY <1>2, FirstNodes
<1>11. QED
  BY <1>3, <1>7, <1>9, <1>10 DEF Gone

LEMMA FreeKeepsSound ==
  ASSUME MemoryInv, IsShape(net), net' = net, NoneOfOne(net), Sound,
         \/ Server!FreeWeight \/ Server!FreeNeuron \/ Server!FreeLayer
         \/ Server!FreeNetwork \/ Server!TouchFreed
  PROVE  Sound'
<1>1. at = "free" /\ Freeing /\ Heap(heap) /\ new.layer = NULL
  BY DEF Server!FreeWeight, Server!FreeNeuron, Server!FreeLayer, Server!FreeNetwork,
         Server!TouchFreed, Server!FreeNode, Sound, MemoryInv, ServerTypes, Copies
<1>2. PICK e, f, h, i, j, k : FreeingAt(e, f, h, i, j, k)
  BY <1>1 DEF Freeing
<1>3. /\ AtWeight(e, f, h, i, j, k) => heap[Server!Innermost].kind = "weight"
      /\ AtNeuron(e, f, h, i, j, k) => heap[Server!Innermost].kind = "neuron"
      /\ AtLayer(e, f, h, i, j, k) => heap[Server!Innermost].kind = "layer"
      /\ AtNet(e, f, h, i, j, k) => heap[Server!Innermost].kind = "net"
  BY WeightIsAt, NeuronIsAt, LayerIsAt, NetIsAt
<1>4. \/ AtWeight(e, f, h, i, j, k) \/ AtNeuron(e, f, h, i, j, k)
      \/ AtLayer(e, f, h, i, j, k) \/ AtNet(e, f, h, i, j, k)
  BY <1>2, CursorIsSomewhere
<1>5. CASE Server!FreeWeight
  <2>1. heap[Server!Innermost].kind = "weight" /\ at' = "free"
    BY <1>1, <1>5 DEF Server!FreeWeight, Server!FreeNode
  <2>2. AtWeight(e, f, h, i, j, k)
    BY <1>3, <1>4, <2>1
  <2>3. Freeing'
    BY <1>1, <1>5, <2>2, FreeWeightKeeps
  <2>4. QED
    BY <2>1, <2>3 DEF Sound
<1>6. CASE Server!FreeNeuron
  <2>1. heap[Server!Innermost].kind = "neuron" /\ at' = "free"
    BY <1>1, <1>6 DEF Server!FreeNeuron, Server!FreeNode
  <2>2. AtNeuron(e, f, h, i, j, k)
    BY <1>3, <1>4, <2>1
  <2>3. Freeing'
    BY <1>1, <1>6, <2>2, FreeNeuronKeeps
  <2>4. QED
    BY <2>1, <2>3 DEF Sound
<1>7. CASE Server!FreeLayer
  <2>1. heap[Server!Innermost].kind = "layer" /\ at' = "free"
    BY <1>1, <1>7 DEF Server!FreeLayer, Server!FreeNode
  <2>2. AtLayer(e, f, h, i, j, k)
    BY <1>3, <1>4, <2>1
  <2>3. Freeing'
    BY <1>1, <1>7, <2>2, FreeLayerKeeps
  <2>4. QED
    BY <2>1, <2>3 DEF Sound
<1>8. CASE Server!FreeNetwork
  <2>1. heap[Server!Innermost].kind = "net" /\ at' = "copy" /\ target' = NULL
    BY <1>8 DEF Server!FreeNetwork, Server!FreeNode, NULL
  <2>2. AtNet(e, f, h, i, j, k)
    BY <1>3, <1>4, <2>1
  <2>3. Gone'
    BY <1>1, <1>8, <2>2, FreeNetworkKeeps
  <2>4. QED
    BY <2>1, <2>3 DEF Sound
<1>9. CASE Server!TouchFreed
  <2>1. heap[Server!Innermost].kind = "free"
    BY <1>9 DEF Server!TouchFreed
  <2>2. QED
    BY <1>3, <1>4, <2>1
<1>10. QED
  BY <1>5, <1>6, <1>7, <1>8, <1>9
-----------------------------------------------------------------------------
(***************************************************************************)
(* The sums are copied, from the network itself to its last weight.        *)
(***************************************************************************)
\* What the nodes that are copied say of their own lists, and which one is next.
LayerFields(w, h, e, i, n) ==
  /\ e[<<i, 0, 0>>] # NULL
  /\ h[e[<<i, 0, 0>>]].size = w[i] /\ h[e[<<i, 0, 0>>]].first = e[<<i, 1, 0>>]
  /\ h[e[<<i, 0, 0>>]].next = IF i < Len(w) THEN e[<<n, 0, 0>>] ELSE NULL
NeuronFields(w, h, e, i, j, n) ==
  /\ e[<<i, j, 0>>] # NULL
  /\ h[e[<<i, j, 0>>]].size = WeightsOf(w, i)
  /\ h[e[<<i, j, 0>>]].first = IF 0 < WeightsOf(w, i) THEN e[<<i, j, 1>>] ELSE NULL
  /\ h[e[<<i, j, 0>>]].next = IF j < w[i] THEN e[<<i, n, 0>>] ELSE NULL
WeightFields(w, h, e, i, j, k, n) ==
  /\ e[<<i, j, k>>] # NULL
  /\ h[e[<<i, j, k>>]].next = IF k < WeightsOf(w, i) THEN e[<<i, j, n>>] ELSE NULL

LEMMA LayerToCopy ==
  ASSUME NEW w, IsShape(w), NoneOfOne(w), NEW h, NEW e, NEW r, Whole(w, h, e, r),
         NEW i \in 1 .. Len(w), NEW n, n = i + 1
  PROVE  LayerFields(w, h, e, i, n)
<1> DEFINE q == <<i, 0, 0>>
<1>1. /\ q \in Sites(w) /\ SizeOf(w, q) = w[i] /\ Child(q, 1) = <<i, 1, 0>>
  BY LayerSite
<1>2. /\ Root \in Sites(w) /\ SizeOf(w, Root) = Len(w)
      /\ Child(Root, i) = q /\ Child(Root, n) = <<n, 0, 0>>
  BY RootSite
<1>3. i \in Nat /\ Len(w) \in Nat /\ i <= Len(w) /\ w[i] # 0
  BY ShapeFacts
<1> HIDE DEF q
<1>4. /\ e[q] \in Addresses /\ h[e[q]].size = SizeOf(w, q)
      /\ h[e[q]].first = IF SizeOf(w, q) = 0 THEN NULL ELSE e[Child(q, 1)]
  BY <1>1, WholeFacts
<1>5. h[e[q]].next = IF i = SizeOf(w, Root) THEN NULL ELSE e[Child(Root, i + 1)]
  BY <1>2, NextInLaid
<1>6. QED
  BY <1>1, <1>2, <1>3, <1>4, <1>5, NULLIsNoAddress DEF LayerFields, q

LEMMA NeuronToCopy ==
  ASSUME NEW w, IsShape(w), NoneOfOne(w), NEW h, NEW e, NEW r, Whole(w, h, e, r),
         NEW i \in 1 .. Len(w), NEW j \in 1 .. w[i], NEW n, n = j + 1
  PROVE  NeuronFields(w, h, e, i, j, n)
<1> DEFINE q == <<i, j, 0>>
           p == <<i, 0, 0>>
<1>1. /\ q \in Sites(w) /\ SizeOf(w, q) = WeightsOf(w, i) /\ Child(q, 1) = <<i, j, 1>>
  BY NeuronSite
<1>2. /\ p \in Sites(w) /\ SizeOf(w, p) = w[i]
      /\ Child(p, j) = q /\ Child(p, n) = <<i, n, 0>>
  BY LayerSite
<1>3. j \in Nat /\ w[i] \in Nat /\ j <= w[i] /\ WeightsOf(w, i) \in Nat
  BY ShapeFacts
<1> HIDE DEF q, p
<1>4. /\ e[q] \in Addresses /\ h[e[q]].size = SizeOf(w, q)
      /\ h[e[q]].first = IF SizeOf(w, q) = 0 THEN NULL ELSE e[Child(q, 1)]
  BY <1>1, WholeFacts
<1>5. h[e[q]].next = IF j = SizeOf(w, p) THEN NULL ELSE e[Child(p, j + 1)]
  BY <1>2, NextInLaid
<1>6. QED
  BY <1>1, <1>2, <1>3, <1>4, <1>5, NULLIsNoAddress DEF NeuronFields, q

LEMMA WeightToCopy ==
  ASSUME NEW w, IsShape(w), NoneOfOne(w), NEW h, NEW e, NEW r, Whole(w, h, e, r),
         NEW i \in 1 .. Len(w), NEW j \in 1 .. w[i], NEW k \in 1 .. WeightsOf(w, i),
         NEW n, n = k + 1
  PROVE  WeightFields(w, h, e, i, j, k, n)
<1> DEFINE q == <<i, j, k>>
           p == <<i, j, 0>>
<1>1. q \in Sites(w)
  BY WeightSite
<1>2. /\ p \in Sites(w) /\ SizeOf(w, p) = WeightsOf(w, i)
      /\ Child(p, k) = q /\ Child(p, n) = <<i, j, n>>
  BY NeuronSite
<1>3. k \in Nat /\ WeightsOf(w, i) \in Nat /\ k <= WeightsOf(w, i)
  BY ShapeFacts
<1> HIDE DEF q, p
<1>4. e[q] \in Addresses
  BY <1>1, WholeFacts
<1>5. h[e[q]].next = IF k = SizeOf(w, p) THEN NULL ELSE e[Child(p, k + 1)]
  BY <1>2, NextInLaid
<1>6. QED
  BY <1>2, <1>3, <1>4, <1>5, NULLIsNoAddress DEF WeightFields, q

\* A copy grows by a node, or a node of it is linked.
LEMMA CopyGrows ==
  ASSUME IsShape(net), net' = net, Heap(heap),
         sums' = sums, target' = target, forgotten' = forgotten,
         NEW e, NEW t, NEW i, NEW j, NEW k, NEW a, NEW b, CopiedPart(e, t, i, j, k, a, b),
         NEW t2, Grown(heap, heap', t, t2),
         NEW i2, NEW j2, NEW k2, NEW a2, NEW b2,
         Part(net, heap', t2, target, i2, j2, k2, a2, b2, k2)
  PROVE  CopiedPart(e, t2, i2, j2, k2, a2, b2)'
<1>1. Whole(net, heap, e, sums) /\ Divided(heap, forgotten, {}, At(e), At(t))
  BY DEF CopiedPart
<1>2. /\ Divided(heap', forgotten, {}, At(e), At(t2))
      /\ \A y \in {} \cup At(e) : heap'[y] = heap[y]
  BY <1>1, PartGrows
<1>3. Whole(net, heap', e, sums)
  BY <1>1, <1>2, WholeElsewhere
<1>4. QED
  BY <1>2, <1>3 DEF CopiedPart

LEMMA CopyLinks ==
  ASSUME IsShape(net), net' = net, Heap(heap),
         sums' = sums, target' = target, forgotten' = forgotten,
         NEW e, NEW t, NEW i, NEW j, NEW k, NEW a, NEW b, CopiedPart(e, t, i, j, k, a, b),
         NEW a2, NEW b2, Outside(heap, heap', t),
         Part(net, heap', t, target, i, j, k, a2, b2, k)
  PROVE  CopiedPart(e, t, i, j, k, a2, b2)'
<1>1. /\ Whole(net, heap, e, sums) /\ Divided(heap, forgotten, {}, At(e), At(t))
      /\ Part(net, heap, t, target, i, j, k, a, b, k)
  BY DEF CopiedPart
<1>2. /\ At(t) \subseteq Server!Allocated(heap) /\ At(t) \subseteq Server!Allocated(heap')
      /\ At(t) \subseteq Addresses /\ At(e) \subseteq Addresses
  BY <1>1, PartIsAllocatedThere, WholeIsAllocated
<1>3. \A y \in Addresses : y \notin At(t) => heap'[y] = heap[y]
  BY DEF Outside, Pointers
<1>4. Server!Allocated(heap') = Server!Allocated(heap)
  <2>1. ASSUME NEW y \in Addresses
        PROVE  heap'[y].kind # "free" <=> heap[y].kind # "free"
    BY <1>2, <1>3 DEF Server!Allocated
  <2>2. QED
    BY <2>1 DEF Server!Allocated, Addresses
<1>5. Divided(heap', forgotten, {}, At(e), At(t))
  BY <1>1, <1>4 DEF Divided
<1>6. \A y \in At(e) : heap'[y] = heap[y]
  BY <1>1, <1>2, <1>3 DEF Divided
<1>7. Whole(net, heap', e, sums)
  BY <1>1, <1>6, WholeElsewhere
<1>8. QED
  BY <1>5, <1>7 DEF CopiedPart

\* What is new shows where the copy has come to.
LEMMA WhereCopyIs ==
  ASSUME MemoryInv, IsShape(net), NoneOfOne(net), Sound, at = "copy", target # NULL
  PROVE  /\ new.layer = NULL => BetweenLayers
         /\ new.layer # NULL /\ new.neuron = NULL => BetweenNeurons
         /\ new.neuron # NULL => BetweenWeights
<1>1. BetweenLayers \/ BetweenNeurons \/ BetweenWeights
  BY DEF Sound
<1>2. BetweenLayers => new.layer = NULL
  BY DEF BetweenLayers, CopyingLayers
<1>3. BetweenNeurons => new.layer # NULL /\ new.neuron = NULL
  <2> SUFFICES ASSUME NEW e, NEW t, NEW i, NEW j, NEW k, NEW a,
                      CopyingNeurons(e, t, i, j, k, a)
               PROVE  new.layer # NULL /\ new.neuron = NULL
    BY DEF BetweenNeurons
  <2>1. /\ Part(net, heap, t, target, i, j, k, a, j, k) /\ i > 0
        /\ new.layer = t[<<i, 0, 0>>] /\ new.neuron = NULL
    BY DEF CopyingNeurons, CopiedPart
  <2>2. t[<<i, 0, 0>>] \in Addresses
    BY <2>1, PartEnds DEF Ends
  <2>3. QED
    BY <2>1, <2>2, NULLIsNoAddress
<1>4. BetweenWeights => new.neuron # NULL
  <2> SUFFICES ASSUME NEW e, NEW t, NEW i, NEW j, NEW k, NEW a, NEW b,
                      CopyingWeights(e, t, i, j, k, a, b)
               PROVE  new.neuron # NULL
    BY DEF BetweenWeights
  <2>1. /\ Part(net, heap, t, target, i, j, k, a, b, k) /\ j > 0
        /\ new.neuron = t[<<i, j, 0>>]
    BY DEF CopyingWeights, CopiedPart
  <2>2. t[<<i, j, 0>>] \in Addresses
    BY <2>1, PartEnds DEF Ends
  <2>3. QED
    BY <2>1, <2>2, NULLIsNoAddress
<1>5. new.neuron # NULL => new.layer # NULL
  BY DEF MemoryInv, Copies
<1>6. QED
  BY <1>1, <1>2, <1>3, <1>4, <1>5
-----------------------------------------------------------------------------
\* A copy begins when the old network has been freed.
LEMMA CopyNetworkKeepsSound ==
  ASSUME MemoryInv, IsShape(net), net' = net, NoneOfOne(net), Sound, Server!CopyNetwork
  PROVE  Sound'
<1> DEFINE x == Server!malloc(heap)
<1>1. /\ Gone /\ Heap(heap) /\ at' = "copy" /\ Server!HasRoom /\ target' = x
      /\ heap' = [heap EXCEPT ![x] = Server!Node("net", heap[sums].size)]
      /\ sums' = sums /\ forgotten' = forgotten /\ new' = new /\ current' = current
  BY DEF Server!CopyNetwork, Sound, MemoryInv, ServerTypes, NULL
<1>2. PICK e : /\ Whole(net, heap, e, sums) /\ Divided(heap, forgotten, {}, At(e), {})
               /\ new.layer = NULL /\ current.layer = e[<<1, 0, 0>>]
  BY <1>1 DEF Gone
<1>3. heap[sums].size = Len(net)
  BY <1>2, FirstNodes
<1>4. /\ x \in Addresses /\ heap[x].kind = "free" /\ heap'[x] = Server!Node("net", Len(net))
      /\ \A y \in Pointers : y # x => heap'[y] = heap[y]
  <2>1. x \in Addresses /\ heap[x].kind = "free"
    BY <1>1, MallocIsFree DEF Server!HasRoom, Addresses
  <2> HIDE DEF x
  <2>2. QED
    BY <1>1, <1>3, <2>1 DEF Heap, Pointers
<1>5. Heap(heap')
  BY <1>1, <1>3, NodeIsAllocated, ShapeFacts DEF Kinds
<1> HIDE DEF x
<1>6. PICK t : Part(net, heap', t, x, 0, 0, 0, 0, 0, 0) /\ At(t) = {x}
  BY <1>4, RootIsPart
<1> DEFINE none == [p \in {} |-> NULL]
           B == At(e)
<1>7. At(none) = {}
  BY DEF At
<1> HIDE DEF none
<1>8. Divided(heap, forgotten, {}, B, At(none)) /\ Grown(heap, heap', none, t)
  <2>1. Outside(heap, heap', t)
    BY <1>4, <1>5, <1>6 DEF Outside
  <2>2. QED
    BY <1>2, <1>4, <1>6, <1>7, <2>1 DEF Grown
<1> HIDE DEF B
<1>9. At(t) \subseteq Server!Allocated(heap')
  BY <1>6, PartIsAllocatedThere
<1>10. Divided(heap', forgotten, {}, B, At(t)) /\ \A y \in {} \cup B : heap'[y] = heap[y]
  <2>1. Heap(heap)
    BY <1>1
  <2>2. QED
    BY <2>1, <1>8, <1>9, DividedGrown
<1>11. Whole(net, heap', e, sums)
  BY <1>2, <1>10, WholeElsewhere DEF B
<1>12. CopiedPart(e, t, 0, 0, 0, 0, 0)'
  BY <1>1, <1>6, <1>10, <1>11 DEF CopiedPart, B
<1>13. CopyingLayers(e, t, 0, 0, 0)'
  <2>1. current.layer = IF 0 < Len(net) THEN e[<<0 + 1, 0, 0>>] ELSE NULL
    BY <1>2, ShapeFacts
  <2>2. QED
    BY <1>1, <1>2, <1>12, <2>1 DEF CopyingLayers
<1>14. BetweenLayers' /\ target' # NULL
  BY <1>1, <1>4, <1>13, NULLIsNoAddress DEF BetweenLayers
<1>15. QED
  BY <1>1, <1>14 DEF Sound

\* A copying step leaves the rest of the server alone.
LEMMA CopyStays ==
  ASSUME MemoryInv, Sound, NoneOfOne(net),
         \/ Server!CopyLayer \/ Server!CopyNeuron \/ Server!CopyWeight
         \/ Server!NeuronCopied \/ Server!LayerCopied
  PROVE  /\ at = "copy" /\ at' = "copy" /\ target # NULL /\ target' = target
         /\ sums' = sums /\ forgotten' = forgotten /\ Heap(heap)
         /\ new \in [layer : Pointers, neuron : Pointers, weight : Pointers]
         /\ current \in [layer : Pointers, neuron : Pointers, weight : Pointers]
BY DEF Server!CopyLayer, Server!CopyNeuron, Server!CopyWeight, Server!NeuronCopied,
       Server!LayerCopied, Server!Copying, MemoryInv, ServerTypes, Copies, NULL

\* A layer, a neuron or a weight is allocated, the last is linked at once, and
\* a neuron or a layer when all that it contains has been copied.
LEMMA CopyLayerKeepsSound ==
  ASSUME MemoryInv, IsShape(net), net' = net, NoneOfOne(net), Sound, Server!CopyLayer
  PROVE  Sound'
<1> DEFINE x == Server!malloc(heap)
<1>1. /\ at = "copy" /\ at' = "copy" /\ target # NULL /\ target' = target
      /\ sums' = sums /\ forgotten' = forgotten /\ Heap(heap)
  BY CopyStays
<1>2. /\ new.layer = NULL /\ current.layer # NULL /\ Server!HasRoom
      /\ new'.layer = x /\ new'.neuron = new.neuron
      /\ heap' = [heap EXCEPT ![x] = Server!Node("layer", heap[current.layer].size)]
      /\ current'.layer = current.layer /\ current'.neuron = heap[current.layer].first
  BY CopyStays DEF Server!CopyLayer, NULL
<1>3. x \in Addresses /\ heap[x].kind = "free" /\ new.neuron = NULL
  BY <1>2, MallocIsFree DEF Server!HasRoom, Addresses, MemoryInv, Copies
<1> HIDE DEF x
<1>4. PICK e, t, i, j, k : CopyingLayers(e, t, i, j, k)
  BY <1>1, <1>2, WhereCopyIs DEF BetweenLayers
<1>5. /\ CopiedPart(e, t, i, j, k, i, j)
      /\ Whole(net, heap, e, sums) /\ Part(net, heap, t, target, i, j, k, i, j, k)
      /\ i > 0 => j = net[i] /\ k = WeightsOf(net, i)
      /\ current.layer = IF i < Len(net) THEN e[<<i + 1, 0, 0>>] ELSE NULL
  BY <1>4 DEF CopyingLayers, CopiedPart
<1> DEFINE n == i + 1
<1>6. i < Len(net) /\ current.layer = e[<<n, 0, 0>>]
  BY <1>2, <1>5
<1>7. n \in 1 .. Len(net) /\ i = n - 1 /\ n > 0 /\ 0 < net[n]
  <2>1. i \in Nat /\ Len(net) \in Nat
    BY <1>5, PosFacts DEF Part
  <2>2. n \in 1 .. Len(net) /\ i = n - 1 /\ n > 0
    BY <1>6, <2>1
  <2> HIDE DEF n
  <2>3. QED
    BY <2>2, ShapeFacts
<1>8. LayerFields(net, heap, e, n, n + 1)
  BY <1>5, <1>7, LayerToCopy
<1>9. heap[current.layer].size = net[n] /\ heap[current.layer].first = e[<<n, 1, 0>>]
  BY <1>6, <1>8 DEF LayerFields
<1>10. PICK t2 : /\ Part(net, heap', t2, target, n, 0, 0, i, 0, 0)
                 /\ Fresh(heap, heap', t, t2, <<n, 0, 0>>, x)
  BY <1>1, <1>2, <1>3, <1>5, <1>6, <1>9, LayerAllocated
<1> HIDE DEF n
<1>11. Grown(heap, heap', t, t2)
  BY <1>3, <1>10, FreshIsGrown
<1>12. CopiedPart(e, t2, n, 0, 0, i, 0)'
  BY <1>1, <1>5, <1>10, <1>11, CopyGrows
<1>13. t2[<<n, 0, 0>>] = x
  BY <1>10 DEF Fresh
<1>14. CopyingNeurons(e, t2, n, 0, 0, i)'
  <2>1. current'.neuron = IF 0 < net[n] THEN e[<<n, 0 + 1, 0>>] ELSE NULL
    BY <1>2, <1>7, <1>9
  <2>2. QED
    BY <1>2, <1>3, <1>6, <1>7, <1>12, <1>13, <2>1 DEF CopyingNeurons
<1>15. BetweenNeurons'
  BY <1>14 DEF BetweenNeurons
<1>16. QED
  BY <1>1, <1>15 DEF Sound

LEMMA CopyNeuronKeepsSound ==
  ASSUME MemoryInv, IsShape(net), net' = net, NoneOfOne(net), Sound, Server!CopyNeuron
  PROVE  Sound'
<1> DEFINE x == Server!malloc(heap)
<1>1. /\ at = "copy" /\ at' = "copy" /\ target # NULL /\ target' = target
      /\ sums' = sums /\ forgotten' = forgotten /\ Heap(heap)
  BY CopyStays
<1>2. /\ new.layer # NULL /\ new.neuron = NULL /\ current.neuron # NULL /\ Server!HasRoom
      /\ new'.neuron = x /\ new'.layer = new.layer
      /\ heap' = [heap EXCEPT ![x] = Server!Node("neuron", heap[current.neuron].size)]
      /\ current'.layer = current.layer /\ current'.neuron = current.neuron
      /\ current'.weight = heap[current.neuron].first
  BY CopyStays DEF Server!CopyNeuron, NULL
<1>3. x \in Addresses /\ heap[x].kind = "free"
  BY <1>2, MallocIsFree DEF Server!HasRoom, Addresses
<1> HIDE DEF x
<1>4. PICK e, t, i, j, k, a : CopyingNeurons(e, t, i, j, k, a)
  BY <1>1, <1>2, WhereCopyIs DEF BetweenNeurons
<1>5. /\ CopiedPart(e, t, i, j, k, a, j)
      /\ Whole(net, heap, e, sums) /\ Part(net, heap, t, target, i, j, k, a, j, k)
      /\ i > 0 /\ a = i - 1 /\ (j > 0 => k = WeightsOf(net, i))
      /\ new.layer = t[<<i, 0, 0>>] /\ current.layer = e[<<i, 0, 0>>]
      /\ current.neuron = IF j < net[i] THEN e[<<i, j + 1, 0>>] ELSE NULL
  BY <1>4 DEF CopyingNeurons, CopiedPart
<1> DEFINE n == j + 1
<1>6. j < net[i] /\ current.neuron = e[<<i, n, 0>>]
  BY <1>2, <1>5
<1>7. n \in 1 .. net[i] /\ i \in 1 .. Len(net) /\ j = n - 1 /\ n > 0
  BY <1>5, <1>6, PosFacts DEF Part
<1>8. NeuronFields(net, heap, e, i, n, n + 1)
  BY <1>5, <1>7, NeuronToCopy
<1>9. /\ heap[current.neuron].size = WeightsOf(net, i)
      /\ heap[current.neuron].first = IF 0 < WeightsOf(net, i) THEN e[<<i, n, 1>>] ELSE NULL
  BY <1>6, <1>8 DEF NeuronFields
<1>10. PICK t2 : /\ Part(net, heap', t2, target, i, n, 0, a, j, 0)
                 /\ Fresh(heap, heap', t, t2, <<i, n, 0>>, x)
  BY <1>1, <1>2, <1>3, <1>5, <1>6, <1>9, NeuronAllocated
<1> HIDE DEF n
<1>11. Grown(heap, heap', t, t2)
  BY <1>3, <1>10, FreshIsGrown
<1>12. CopiedPart(e, t2, i, n, 0, a, j)'
  BY <1>1, <1>5, <1>10, <1>11, CopyGrows
<1>13. t2[<<i, n, 0>>] = x /\ t2[<<i, 0, 0>>] = t[<<i, 0, 0>>]
  BY <1>5, <1>10, LayerIsLaid DEF Fresh
<1>14. CopyingWeights(e, t2, i, n, 0, a, j)'
  <2>1. current'.weight = IF 0 < WeightsOf(net, i) THEN e[<<i, n, 0 + 1>>] ELSE NULL
    BY <1>2, <1>9
  <2>2. QED
    BY <1>2, <1>5, <1>6, <1>7, <1>12, <1>13, <2>1 DEF CopyingWeights
<1>15. BetweenWeights'
  BY <1>14 DEF BetweenWeights
<1>16. QED
  BY <1>1, <1>15 DEF Sound

LEMMA CopyWeightKeepsSound ==
  ASSUME MemoryInv, IsShape(net), net' = net, NoneOfOne(net), Sound, Server!CopyWeight
  PROVE  Sound'
<1> DEFINE x == Server!malloc(heap)
           g == [heap EXCEPT ![x] = Server!Node("weight", 0)]
<1>1. /\ at = "copy" /\ at' = "copy" /\ target # NULL /\ target' = target
      /\ sums' = sums /\ forgotten' = forgotten /\ Heap(heap)
  BY CopyStays
<1>2. /\ new.neuron # NULL /\ current.weight # NULL /\ Server!HasRoom /\ new' = new
      /\ heap' = Server!AppendCopied(g, new.neuron, x)
      /\ current'.layer = current.layer /\ current'.neuron = current.neuron
      /\ current'.weight = heap[current.weight].next
  BY CopyStays DEF Server!CopyWeight, NULL
<1>3. x \in Addresses /\ heap[x].kind = "free" /\ Puts(heap, g, x, Server!Node("weight", 0))
  BY <1>2, MallocIsFree DEF Server!HasRoom, Addresses, Puts
<1> HIDE DEF x, g
<1>4. PICK e, t, i, j, k, a, b : CopyingWeights(e, t, i, j, k, a, b)
  BY <1>1, <1>2, WhereCopyIs DEF BetweenWeights
<1>5. /\ CopiedPart(e, t, i, j, k, a, b)
      /\ Whole(net, heap, e, sums) /\ Part(net, heap, t, target, i, j, k, a, b, k)
      /\ i > 0 /\ j > 0 /\ a = i - 1 /\ b = j - 1
      /\ new.layer = t[<<i, 0, 0>>] /\ new.neuron = t[<<i, j, 0>>]
      /\ current.layer = e[<<i, 0, 0>>] /\ current.neuron = e[<<i, j, 0>>]
      /\ current.weight = IF k < WeightsOf(net, i) THEN e[<<i, j, k + 1>>] ELSE NULL
  BY <1>4 DEF CopyingWeights, CopiedPart
<1> DEFINE n == k + 1
<1>6. k < WeightsOf(net, i) /\ current.weight = e[<<i, j, n>>]
  BY <1>2, <1>5
<1>7. n \in 1 .. WeightsOf(net, i) /\ j \in 1 .. net[i] /\ i \in 1 .. Len(net) /\ n = k + 1
  BY <1>5, <1>6, PosFacts DEF Part
<1>8. WeightFields(net, heap, e, i, j, n, n + 1)
  BY <1>5, <1>7, WeightToCopy
<1>9. heap[current.weight].next = IF n < WeightsOf(net, i) THEN e[<<i, j, n + 1>>] ELSE NULL
  BY <1>6, <1>8 DEF WeightFields
<1> HIDE DEF n
<1>10. Appended(g, heap', t[<<i, j, 0>>], x)
  BY <1>2, <1>5 DEF Appended
<1>w. WeightGrown(net, heap, heap', t, target, i, j, a, b, n)
  BY <1>1, <1>3, <1>5, <1>6, <1>7, <1>10, WeightAdded
<1>11. PICK t2 : /\ Part(net, heap', t2, target, i, j, n, a, b, n) /\ Grown(heap, heap', t, t2)
                 /\ t2[<<i, 0, 0>>] = t[<<i, 0, 0>>] /\ t2[<<i, j, 0>>] = t[<<i, j, 0>>]
  BY <1>w DEF WeightGrown
<1>12. CopiedPart(e, t2, i, j, n, a, b)'
  BY <1>1, <1>5, <1>11, CopyGrows
<1>14. CopyingWeights(e, t2, i, j, n, a, b)'
  BY <1>2, <1>5, <1>9, <1>11, <1>12 DEF CopyingWeights
<1>15. BetweenWeights'
  BY <1>14 DEF BetweenWeights
<1>16. QED
  BY <1>1, <1>15 DEF Sound

LEMMA NeuronCopiedKeepsSound ==
  ASSUME MemoryInv, IsShape(net), net' = net, NoneOfOne(net), Sound, Server!NeuronCopied
  PROVE  Sound'
<1>1. /\ at = "copy" /\ at' = "copy" /\ target # NULL /\ target' = target
      /\ sums' = sums /\ forgotten' = forgotten /\ Heap(heap)
  BY CopyStays
<1>2. /\ new.neuron # NULL /\ current.weight = NULL
      /\ heap' = Server!AppendCopied(heap, new.layer, new.neuron)
      /\ new'.layer = new.layer /\ new'.neuron = NULL
      /\ current'.layer = current.layer /\ current'.neuron = heap[current.neuron].next
  BY CopyStays DEF Server!NeuronCopied, NULL
<1>4. PICK e, t, i, j, k, a, b : CopyingWeights(e, t, i, j, k, a, b)
  BY <1>1, <1>2, WhereCopyIs DEF BetweenWeights
<1>5. /\ CopiedPart(e, t, i, j, k, a, b)
      /\ Whole(net, heap, e, sums) /\ Part(net, heap, t, target, i, j, k, a, b, k)
      /\ i > 0 /\ j > 0 /\ a = i - 1 /\ b = j - 1
      /\ new.layer = t[<<i, 0, 0>>] /\ new.neuron = t[<<i, j, 0>>]
      /\ current.layer = e[<<i, 0, 0>>] /\ current.neuron = e[<<i, j, 0>>]
      /\ current.weight = IF k < WeightsOf(net, i) THEN e[<<i, j, k + 1>>] ELSE NULL
  BY <1>4 DEF CopyingWeights, CopiedPart
<1>6. /\ j \in 1 .. net[i] /\ i \in 1 .. Len(net)
      /\ k \in Nat /\ WeightsOf(net, i) \in Nat /\ k <= WeightsOf(net, i)
  BY <1>5, PosFacts DEF Part
<1>7. k = WeightsOf(net, i)
  <2>1. SUFFICES ASSUME k < WeightsOf(net, i)
                 PROVE  FALSE
    BY <1>6
  <2> DEFINE n == k + 1
  <2>2. n \in 1 .. WeightsOf(net, i) /\ current.weight = e[<<i, j, n>>]
    BY <1>5, <1>6, <2>1
  <2>3. WeightFields(net, heap, e, i, j, n, n + 1)
    BY <1>5, <1>6, <2>2, WeightToCopy
  <2>4. QED
    BY <1>2, <2>2, <2>3 DEF WeightFields
<1>8. NeuronFields(net, heap, e, i, j, j + 1)
  BY <1>5, <1>6, NeuronToCopy
<1>9. heap[current.neuron].next = IF j < net[i] THEN e[<<i, j + 1, 0>>] ELSE NULL
  BY <1>5, <1>8 DEF NeuronFields
<1>10. LinksIn(heap, heap', t[<<i, 0, 0>>], t[<<i, j, 0>>])
  BY <1>2, <1>5 DEF LinksIn
<1>11. Part(net, heap', t, target, i, j, k, a, j, k) /\ Outside(heap, heap', t)
  BY <1>1, <1>5, <1>10, NeuronLinked
<1>12. CopiedPart(e, t, i, j, k, a, j)'
  BY <1>1, <1>5, <1>11, CopyLinks
<1>14. CopyingNeurons(e, t, i, j, k, a)'
  BY <1>2, <1>5, <1>7, <1>9, <1>12 DEF CopyingNeurons
<1>15. BetweenNeurons'
  BY <1>14 DEF BetweenNeurons
<1>16. QED
  BY <1>1, <1>15 DEF Sound

LEMMA LayerCopiedKeepsSound ==
  ASSUME MemoryInv, IsShape(net), net' = net, NoneOfOne(net), Sound, Server!LayerCopied
  PROVE  Sound'
<1>1. /\ at = "copy" /\ at' = "copy" /\ target # NULL /\ target' = target
      /\ sums' = sums /\ forgotten' = forgotten /\ Heap(heap)
  BY CopyStays
<1>2. /\ new.layer # NULL /\ new.neuron = NULL /\ current.neuron = NULL
      /\ heap' = Server!AppendCopied(heap, target, new.layer)
      /\ new'.layer = NULL /\ current'.layer = heap[current.layer].next
  BY CopyStays DEF Server!LayerCopied, NULL
<1>4. PICK e, t, i, j, k, a : CopyingNeurons(e, t, i, j, k, a)
  BY <1>1, <1>2, WhereCopyIs DEF BetweenNeurons
<1>5. /\ CopiedPart(e, t, i, j, k, a, j)
      /\ Whole(net, heap, e, sums) /\ Part(net, heap, t, target, i, j, k, a, j, k)
      /\ i > 0 /\ a = i - 1 /\ (j > 0 => k = WeightsOf(net, i))
      /\ new.layer = t[<<i, 0, 0>>] /\ current.layer = e[<<i, 0, 0>>]
      /\ current.neuron = IF j < net[i] THEN e[<<i, j + 1, 0>>] ELSE NULL
  BY <1>4 DEF CopyingNeurons, CopiedPart
<1>6. /\ i \in 1 .. Len(net) /\ j \in Nat /\ net[i] \in Nat /\ net[i] > 0 /\ j <= net[i]
  BY <1>5, PosFacts DEF Part
<1>7. j = net[i] /\ k = WeightsOf(net, i)
  <2>1. ASSUME j < net[i]
        PROVE  FALSE
    <3> DEFINE n == j + 1
    <3>2. n \in 1 .. net[i] /\ current.neuron = e[<<i, n, 0>>]
      BY <1>5, <1>6, <2>1
    <3>3. NeuronFields(net, heap, e, i, n, n + 1)
      BY <1>5, <1>6, <3>2, NeuronToCopy
    <3>4. QED
      BY <1>2, <3>2, <3>3 DEF NeuronFields
  <2>2. QED
    BY <1>5, <1>6, <2>1
<1>8. LayerFields(net, heap, e, i, i + 1)
  BY <1>5, <1>6, LayerToCopy
<1>9. heap[current.layer].next = IF i < Len(net) THEN e[<<i + 1, 0, 0>>] ELSE NULL
  BY <1>5, <1>8 DEF LayerFields
<1>10. LinksIn(heap, heap', target, t[<<i, 0, 0>>])
  BY <1>2, <1>5 DEF LinksIn
<1>11. Part(net, heap', t, target, i, j, k, i, j, k) /\ Outside(heap, heap', t)
  BY <1>1, <1>5, <1>10, LayerLinked
<1>12. CopiedPart(e, t, i, j, k, i, j)'
  BY <1>1, <1>5, <1>11, CopyLinks
<1>14. CopyingLayers(e, t, i, j, k)'
  BY <1>2, <1>7, <1>9, <1>12 DEF CopyingLayers
<1>15. BetweenLayers'
  BY <1>14 DEF BetweenLayers
<1>16. QED
  BY <1>1, <1>15 DEF Sound

\* The copy, whole, becomes the global network.
LEMMA NetworkCopiedKeepsSound ==
  ASSUME MemoryInv, IsShape(net), net' = net, NoneOfOne(net), Sound, Server!NetworkCopied
  PROVE  Sound'
<1>1. /\ at = "copy" /\ target # NULL /\ new.layer = NULL /\ current.layer = NULL
      /\ global' = target /\ at' = "evaluate"
      /\ heap' = heap /\ sums' = sums /\ forgotten' = forgotten
  BY DEF Server!NetworkCopied, NULL
<1>2. PICK e, t, i, j, k : CopyingLayers(e, t, i, j, k)
  BY <1>1, WhereCopyIs DEF BetweenLayers
<1>3. /\ Whole(net, heap, e, sums) /\ Part(net, heap, t, target, i, j, k, i, j, k)
      /\ Divided(heap, forgotten, {}, At(e), At(t))
      /\ i > 0 => j = net[i] /\ k = WeightsOf(net, i)
      /\ current.layer = IF i < Len(net) THEN e[<<i + 1, 0, 0>>] ELSE NULL
  BY <1>2 DEF CopyingLayers, CopiedPart
<1>4. i \in Nat /\ Len(net) \in Nat /\ i <= Len(net) /\ Len(net) >= 2
  BY <1>3, PosFacts, ShapeFacts DEF Part
<1>5. i = Len(net)
  <2>1. SUFFICES ASSUME i < Len(net)
                 PROVE  FALSE
    BY <1>4
  <2> DEFINE n == i + 1
  <2>2. n \in 1 .. Len(net) /\ current.layer = e[<<n, 0, 0>>]
    BY <1>3, <1>4, <2>1
  <2>3. LayerFields(net, heap, e, n, n + 1)
    BY <1>3, <2>2, LayerToCopy
  <2>4. QED
    BY <1>1, <2>2, <2>3 DEF LayerFields
<1>6. Whole(net, heap, t, target)
  <2>1. j = net[i] /\ k = WeightsOf(net, i)
    BY <1>3, <1>4, <1>5
  <2>2. QED
    BY <1>3, <1>5, <2>1, BuiltIsWhole
<1>7. Divided(heap, forgotten, At(t), At(e), {})
  BY <1>3 DEF Divided
<1>8. Resting'
  BY <1>1, <1>3, <1>6, <1>7 DEF Resting
<1>9. QED
  BY <1>1, <1>8 DEF Sound

\* The copy can be walked, so that the server is ready again.
LEMMA EvaluateKeepsSound ==
  ASSUME MemoryInv, IsShape(net), net' = net, NoneOfOne(net), Sound, Server!PerformanceMetrics
  PROVE  Sound'
<1>1. /\ Resting /\ Heap(heap)
      /\ at' = IF Server!Walkable(global) THEN "ready" ELSE "crashed"
      /\ heap' = heap /\ global' = global /\ sums' = sums /\ forgotten' = forgotten
  BY DEF Server!PerformanceMetrics, Sound, MemoryInv, ServerTypes
<1>2. Server!Walkable(global)
  BY <1>1, WholeIsSound DEF Resting
<1>3. Resting'
  BY <1>1 DEF Resting
<1>4. QED
  BY <1>1, <1>2, <1>3 DEF Sound
-----------------------------------------------------------------------------
(***************************************************************************)
(* Every step of the server keeps the networks sound.                      *)
(***************************************************************************)
LEMMA MemoryStepKeepsSound ==
  ASSUME MemoryInv, IsShape(net), net' = net, Sound, Server!MemoryStep \/ Server!ReceiveUpdate
  PROVE  Sound'
<1>0. CASE ~NoneOfOne(net)
  BY <1>0 DEF Sound
<1> SUFFICES ASSUME NoneOfOne(net)
             PROVE  Sound'
  BY <1>0
<1>1. CASE Server!NewLayer \/ Server!NewNeuron \/ Server!NewWeight
  BY <1>1, InitialiseKeepsSound
<1>2. CASE Server!ConvertLayer \/ Server!ConvertNeuron \/ Server!ConvertWeight
  BY <1>2, ConvertKeepsSound
<1>3. CASE Server!Initialised
  BY <1>3, InitialisedKeepsSound
<1>4. CASE Server!ConvertFails \/ Server!Aggregate
  BY <1>4, UpdateEndKeepsSound
<1>5. CASE \/ Server!FreeWeight \/ Server!FreeNeuron \/ Server!FreeLayer
           \/ Server!FreeNetwork \/ Server!TouchFreed
  BY <1>5, FreeKeepsSound
<1>6. CASE \/ Server!CopyNetwork \/ Server!NetworkCopied \/ Server!PerformanceMetrics
  BY <1>6, CopyNetworkKeepsSound, NetworkCopiedKeepsSound, EvaluateKeepsSound
<1>7. CASE \/ Server!CopyLayer \/ Server!CopyNeuron \/ Server!CopyWeight
           \/ Server!NeuronCopied \/ Server!LayerCopied
  BY <1>7, CopyLayerKeepsSound, CopyNeuronKeepsSound, CopyWeightKeepsSound,
     NeuronCopiedKeepsSound, LayerCopiedKeepsSound
<1>8. CASE Server!ReceiveUpdate
  BY <1>8, ReceiveKeepsSound
<1>9. QED
  BY <1>1, <1>2, <1>3, <1>4, <1>5, <1>6, <1>7, <1>8
     DEF Server!MemoryStep, Server!ConvertStep

LEMMA SoundStays ==
  ASSUME Sound, net' = net, UNCHANGED serverVars
  PROVE  Sound'
<1>1. /\ heap' = heap /\ global' = global /\ sums' = sums /\ at' = at
      /\ target' = target /\ loop' = loop /\ current' = current /\ new' = new
      /\ forgotten' = forgotten
  BY DEF serverVars
<1>2. Initialising => Initialising'
  BY <1>1 DEF Initialising, UnderWay
<1>3. Resting => Resting'
  BY <1>1 DEF Resting
<1>4. Converting => Converting'
  BY <1>1 DEF Converting, UnderWay
<1>5. Freeing => Freeing'
  BY <1>1 DEF Freeing, FreeingAt
<1>6. Gone => Gone'
  BY <1>1 DEF Gone
<1>7. /\ BetweenLayers => BetweenLayers'
      /\ BetweenNeurons => BetweenNeurons'
      /\ BetweenWeights => BetweenWeights'
  <2>1. ASSUME BetweenLayers PROVE BetweenLayers'
    <3>1. PICK e, t, i, j, k : CopyingLayers(e, t, i, j, k)
      BY <2>1 DEF BetweenLayers
    <3>2. CopyingLayers(e, t, i, j, k)'
      BY <1>1, <3>1, ZenonT(30) DEF CopyingLayers, CopiedPart
    <3>3. QED
      BY <3>2 DEF BetweenLayers
  <2>2. ASSUME BetweenNeurons PROVE BetweenNeurons'
    <3>1. PICK e, t, i, j, k, a : CopyingNeurons(e, t, i, j, k, a)
      BY <2>2 DEF BetweenNeurons
    <3>2. CopyingNeurons(e, t, i, j, k, a)'
      BY <1>1, <3>1, ZenonT(30) DEF CopyingNeurons, CopiedPart
    <3>3. QED
      BY <3>2 DEF BetweenNeurons
  <2>3. ASSUME BetweenWeights PROVE BetweenWeights'
    <3>1. PICK e, t, i, j, k, a, b : CopyingWeights(e, t, i, j, k, a, b)
      BY <2>3 DEF BetweenWeights
    <3>2. CopyingWeights(e, t, i, j, k, a, b)'
      BY <1>1, <3>1, ZenonT(30) DEF CopyingWeights, CopiedPart
    <3>3. QED
      BY <3>2 DEF BetweenWeights
  <2>4. QED
    BY <2>1, <2>2, <2>3
<1>8. NoneOfOne(net') => NoneOfOne(net)
  OBVIOUS
<1>9. QED
  BY <1>1, <1>2, <1>3, <1>4, <1>5, <1>6, <1>7, <1>8 DEF Sound

\* And that is more than the run asks of them.
LEMMA SoundIsEnough ==
  ASSUME MemoryInv, IsShape(net), Sound
  PROVE  NetworksAreSound
<1>1. Server!LayerOfOne <=> ~NoneOfOne(net)
  BY DEF Server!LayerOfOne, NoneOfOne
<1>2. at = "crashed" => Server!LayerOfOne
  BY <1>1 DEF Sound
<1>3. ASSUME at = "ready", NoneOfOne(net)
      PROVE  /\ Server!NetworkIsSound(global) /\ Server!NetworkIsSound(sums)
             /\ Server!Reach(heap, {global}) \cap Server!Reach(heap, {sums}) = {}
             /\ Server!Allocated(heap) = Server!Reach(heap, {global, sums}) \cup forgotten
  <2>1. Resting /\ Heap(heap)
    BY <1>3 DEF Sound, MemoryInv, ServerTypes
  <2>2. PICK f, e : /\ Whole(net, heap, f, global) /\ Whole(net, heap, e, sums)
                    /\ Divided(heap, forgotten, At(f), At(e), {})
    BY <2>1 DEF Resting
  <2>3. Server!NetworkIsSound(global) /\ Server!NetworkIsSound(sums)
    BY <1>3, <2>1, <2>2, WholeIsSound
  <2>4. /\ Server!Reach(heap, {global}) = At(f) /\ Server!Reach(heap, {sums}) = At(e)
        /\ Server!Reach(heap, {global, sums}) = At(f) \cup At(e)
    BY <2>1, <2>2, WholeIsReached
  <2>5. QED
    BY <2>2, <2>3, <2>4 DEF Divided
<1>4. QED
  BY <1>1, <1>2, <1>3 DEF NetworksAreSound, Server!NetworksAreSound

LEMMA NetIsShape == net \in Shapes => IsShape(net)
BY ShapesAssumption DEF IsShape

\* Unless a layer has a single neuron, no freed node is read, and whenever the
\* server is ready both of its networks are complete, share no node, and
\* are, with the updates it has forgotten, all that its memory holds: through
\* any number of conversions, failed ones included, of freeing and of copying.
THEOREM NetworksStaySound == Spec => []NetworksAreSound
<1> DEFINE I == MemoryInv /\ Sound
<1>1. Init => I
  <2>1. Init => Server!MemoryInit /\ net \in Shapes
    BY DEF Init, TrainInit
  <2>2. QED
    BY <2>1, InitMemory, InitSound, NetIsShape
<1>2. I /\ TrainTypeOK /\ [Next]_vars => I'
  <2> SUFFICES ASSUME I, TrainTypeOK, [Next]_vars
               PROVE  I'
    OBVIOUS
  <2>1. net \in Shapes /\ IsShape(net)
    BY NetIsShape DEF TrainTypeOK, ControlTypes
  <2>2. net' = net
    BY StepOfBoth, NetIsKept
  <2>3. CASE UNCHANGED serverVars
    BY <2>2, <2>3, MemoryStays, SoundStays
  <2>4. CASE Server!MemoryStep
    BY <2>1, <2>2, <2>4, MemoryStepKeepsInv, MemoryStepKeepsSound
  <2>5. CASE Server!ReceiveUpdate
    BY <2>1, <2>2, <2>5, ReceiveKeepsInv, MemoryStepKeepsSound
  <2>6. QED
    BY <2>3, <2>4, <2>5, StepOfBoth
<1>3. Spec => []TrainTypeOK
  BY CycleTrains, TypesHold, PTL
<1>4. I /\ TrainTypeOK => NetworksAreSound
  BY SoundIsEnough, NetIsShape DEF TrainTypeOK, ControlTypes
<1>5. QED
  BY <1>1, <1>2, <1>3, <1>4, PTL DEF Spec
=============================================================================
