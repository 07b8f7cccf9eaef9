CONSTANTS
  MaxQueueSize = 1
  MaxMessages <- OneAndTwo
  MaxHeartbeats = 1
  MaySenders = 1
  Mortal = {"worker"}
SPECIFICATION Spec
INVARIANT TypeOK
INVARIANT PayloadsStayInScope
INVARIANT TransitIsAccounted
INVARIANT NothingOutlivesItsSender
PROPERTY ImplementsChannel
PROPERTY DestructorReturns
PROPERTY PayloadsAreFreed
CHECK_DEADLOCK FALSE
