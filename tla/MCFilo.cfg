SPECIFICATION ObserversSpec
CONSTANTS
  Threads <- MCThreads
  WindowSize = 4
  Threshold = 10
  EventTypes = {"vow", "deed"}
  PmiCorrection = TRUE
  Aggregation = "ArithmeticMean"
  PatternNames <- MCPatternNames
  Deltas <- MCDeltas
  Values = {0, 1, 3}
  Gaps = {0, 1, 2}
  MatchFacts <- MCMatchFacts
  Rounds <- MCRounds
  MaxSteps = 5
INVARIANTS
  FiloAsDocumented
CHECK_DEADLOCK FALSE
