CONSTANTS
  c1 = c1
  c2 = c2
  c3 = c3
  Clients = {c1, c2}
  ClientNodes = 2
  InteractionCycle = 3
  PromptUpdates = FALSE
  MaxSends = 3
  MaxFailures = 0
SYMMETRY Symmetry
SPECIFICATION Spec
CHECK_DEADLOCK FALSE
INVARIANT EveryClientAveraged
