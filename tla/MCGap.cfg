SPECIFICATION OrderedSpec
CONSTANTS
  Nodes <- MCNodes
  Library <- GunLibrary
  Batches <- GunBatches
  StaleThresholds = {}
  MaxEdges = 4
  MaxTick = 0
INVARIANT ClosenessOfMatch
CHECK_DEADLOCK FALSE
