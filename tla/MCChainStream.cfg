SPECIFICATION Spec
CONSTANTS
  Companies = {1, 2}
  MaxOrder = 2
  MaxBlocks = 4
  MaxLogs = 2
  MaxReorgs = 1
  FromBlock = 0
  Confirmations = 1
  ChainCapacity = 1
  EventCapacity = 1
INVARIANTS
  TypeOK
  NothingLost
  
  CancelsFollowPlacements
PROPERTIES
  ConfirmedIsDelivered
CHECK_DEADLOCK FALSE
