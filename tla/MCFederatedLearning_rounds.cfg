CONSTANTS
  c1 = c1
  c2 = c2
  c3 = c3
  Clients = {c1, c2}
  ClientNodes = 2
  InteractionCycle = 2
  PromptUpdates = TRUE
  MaxSends = 4
  MaxFailures = 2
SPECIFICATION FairSpec
CHECK_DEADLOCK FALSE
INVARIANTS
  TypeOK
  RoundIsComplete
  NoReadOfFreedModel
  RoundsBounded
  InvitedOnlyOnce
PROPERTIES
  TrainingCompletes
  RefinesRounds
