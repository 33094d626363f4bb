SPECIFICATION StoresAndPairs
CONSTANTS
  Nodes = {}
  Links <- MCLinks
  States <- MCStates
  StateValues <- MCStateValues
  Weights <- MCWeights
  MaxHops = 3
  MaxEdges = 4
  MaxTime = 3
  Times = {0, 1, 2, 3, 4}
INVARIANTS
  AdaptersAgree
  StateHasOneValue
  PathsAreChains
  ShortPathsOutrank
  SharesInstant
  RelationInverts
  GapIsDistance
CHECK_DEADLOCK FALSE
