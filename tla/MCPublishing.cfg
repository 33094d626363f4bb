SPECIFICATION Spec
CONSTANTS
  Nodes <- MCNodes
  CorpusEdges <- MCEdges
  LabelOrder <- MCLabelOrder
  MinSupport <- MCMinSupport
  MinConfidence <- MCMinConfidence
  Budget = 2
  MaxRounds = 2
  Proposals <- MCProposals
  MaxEdges = 3
  Numerals <- MCNumerals
  Quoted <- MCQuoted
  Headers <- MCHeaders
  Preamble <- MCPreamble
  Declarations <- MCDeclarations
  Items <- MCItems
  MaxDeclarations = 3
  MaxItems = 3
INVARIANTS
  TextMeansCalls
  EveryReadHasAWriter
  PublishedSurvivesText
  ReadingIsIncremental
  MinedIsBorneOut
CHECK_DEADLOCK FALSE
