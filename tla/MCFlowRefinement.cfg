CONSTANTS
  Blocks = {0, 1, 2}
  NumSearches = 2
  MinImprovements = {1, 2}
  SkipUnpromising = TRUE
  Nodes = {1, 2, 3}
  Edges = {1, 2}
  Pins <- MCPins
  EdgeWeight <- MCEdgeWeight
  NodeWeight <- MCNodeWeight
  PartWeightLimit <- MCLimit
  Fixed = {3}
  InitialParts <- MCInitialParts
SPECIFICATION Spec
INVARIANTS
  FinishedRoundsAreOver
  LeftOverBounded
  WeightsTracked
  ImprovementAccounted
PROPERTY Termination
