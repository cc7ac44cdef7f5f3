CONSTANTS
  c1 = c1
  c2 = c2
  c3 = c3
  Clients = {c1, c2}
  Frags = 2
  Capacity = 5
  MaxMessages = 3
  MaxDrops = 1
SPECIFICATION Spec
CHECK_DEADLOCK FALSE
INVARIANTS
  TypeOK
  BeginsAtTheBeginning
  InOrder
PROPERTIES
  ImplementsChannel
  Recovers
