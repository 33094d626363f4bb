SPECIFICATION StreamSpec
CONSTANTS
  Nodes <- MCNodes
  Library <- MCLibrary
  Batches <- MCBatches
  StaleThresholds = {}
  MaxEdges = 4
  MaxTick = 0
INVARIANTS
  MatchesWitnessed
  StagesInSequence
CHECK_DEADLOCK FALSE
