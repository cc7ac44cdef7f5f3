CONSTANTS
  MaxLength = 4
  BufferSize = 2
  MaxConnections = 3
SPECIFICATION FairSpec
CHECK_DEADLOCK FALSE
INVARIANTS
  TypeOK
  MessageOnOneConnection
  FramedAsOneMessage
  FreedAfterLoop
  FreedAfterStopped
PROPERTIES
  SendReturns
