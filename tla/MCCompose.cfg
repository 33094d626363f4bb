SPECIFICATION OrderedSpec
CONSTANTS
  Nodes <- MCNodes
  Library <- ComposedLibrary
  Batches <- MCBatches
  StaleThresholds = {}
  MaxEdges = 12
  MaxTick = 0
  Setup <- Oath
  Payoff <- Wavering
  Offense <- Perjury
  Shared <- MCShared
  Count = 2
  MinReps = 2
  MaxReps = {3}
INVARIANTS
  SequenceMeansThen
  RepeatMeansTimes
  RangeMeansRuns
CHECK_DEADLOCK FALSE
