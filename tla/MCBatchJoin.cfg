SPECIFICATION OrderedSpec
CONSTANTS
  Nodes <- MCNodes
  Library <- JoinLibrary
  Batches <- JoinBatches
  StaleThresholds = {}
  MaxEdges = 4
  MaxTick = 0
INVARIANT NoMatchMissed
CHECK_DEADLOCK FALSE
