CONSTANTS
  Shape <- SmallShape
  ClientNodes = 2
  ClientModels <- SmallModels
  Counters = {1}
  MaxRounds = 1
SPECIFICATION Spec
CHECK_DEADLOCK FALSE
INVARIANT RoundStartsFromZero
