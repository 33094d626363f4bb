SPECIFICATION Spec
CONSTANTS
  Nodes <- MCNodes
  Library <- MCLibrary
  Batches <- MCBatches
  StaleThresholds = {1}
  MaxEdges = 3
  MaxTick = 2
INVARIANTS
  TypeOK
  IdsUnique
  DisabledPatternsQuiet
  ClocksAgree
PROPERTIES
  EveryIdAccounted
  CompletionClosesGroup
  LedgerSpec
CHECK_DEADLOCK FALSE
