CONSTANTS
  Shape <- SmallShape
  ClientNodes = 2
  ClientModels <- SmallModels
  Counters = {1, 2}
  MaxRounds = 3
SPECIFICATION Spec
CHECK_DEADLOCK FALSE
INVARIANTS
  PublishedIsAverage
  LeftoverStaysBounded
