SPECIFICATION Spec
CONSTANTS
  Shapes <- MCShapes
  Fields = 4
  Columns <- MCColumns
  Samples = 2
  Epochs = 2
  Evaluated = 1
  Rounds = 2
  Memory = 100
INVARIANTS
  TypeOK
  BackPropagationStaysInside
  CountedIsTrained
  TrainsOnEachLine
  NetworksAreSound
CHECK_DEADLOCK FALSE
