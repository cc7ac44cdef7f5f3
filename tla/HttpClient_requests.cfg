CONSTANTS
  MaxRequests = 6
  MaxPieces = 3
SPECIFICATION Spec
CHECK_DEADLOCK FALSE
INVARIANTS
  NothingElseLeaks
  NoUseAfterDelete
PROPERTIES
  ActsOnFreshAnswer
