SPECIFICATION Spec
CONSTANTS
  Nodes <- MCNodes
  CorpusEdges <- MCEdges
  LabelOrder <- MCLabelOrder
  MinSupport <- MCMinSupport
  MinConfidence <- MCMinConfidence
  Budget = 2
  MaxRounds = 2
  Proposals <- MCProposals
  MaxEdges = 0
  Numerals <- MCNumerals
  Quoted <- MCQuoted
  Headers <- MCHeaders
  Preamble <- MCPreamble
  Declarations <- TemplateDeclarations
  Items <- MCItems
  MaxDeclarations = 4
  MaxItems = 0
INVARIANT GroupsAreTheBlocks
CHECK_DEADLOCK FALSE
