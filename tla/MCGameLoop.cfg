SPECIFICATION StorySpec
CONSTANTS
  Nodes <- MCNodes
  Library <- MCLibrary
  Batches <- MCBatches
  StaleThresholds = {1, 2}
  MaxEdges = 3
  MaxTick = 4
  LastEventTick = 1
  Pairs <- MCPairs
  Threads <- MCThreads
INVARIANTS
  NoneOverdue
  TickRemembered
  StaleIsIdle
  StaleReportsAgree
  TrackerKeepsUp
  ScoreTellsTheTick
PROPERTIES
  DeadlinesEnd
CHECK_DEADLOCK FALSE
