CONSTANTS
  c1 = c1
  c2 = c2
  c3 = c3
  Clients = {c1, c2, c3}
  ClientNodes = 2
  InteractionCycle = 2
  PromptUpdates = FALSE
  MaxSends = 2
  MaxFailures = 1
SYMMETRY Symmetry
CONSTRAINT FourEvents
SPECIFICATION Spec
CHECK_DEADLOCK FALSE
INVARIANTS
  AverageIsExact
  NobodyLeftBehind
  OnlyRefusedAreUnknown
