SPECIFICATION ConsumerSpec
CONSTANTS
  Nodes <- MCNodes
  Library <- MCLibrary
  Batches <- MCBatches
  StaleThresholds = {}
  MaxEdges = 10
  MaxTick = 0
INVARIANTS
  AllDelivered
  DeliveredOnce
  NoDuplicateMatch
PROPERTY NoFalseMatch
CHECK_DEADLOCK FALSE
