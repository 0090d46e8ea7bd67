SPECIFICATION Spec
CONSTANTS
  Nodes = {1, 2, 3, 4}
  Edges = {"e2", "e3", "e4"}
  Blocks = {0, 1}
  Pins <- Follow
  NodeWeight <- UnitWeights
  EdgeWeight <- FollowWeights
  MaxPartWeight <- Limits
  InitialPart <- LastAlone
  Movers <- Slots
  NodeOf <- SlotNode
  Limited = TRUE
  MaxMoves = 2
  PerfectBalance <- Halves
  Rebalancing = TRUE
  FixedNodes = {1}
  MaxRounds = 3
INVARIANT
  ReportedQualityExact
PROPERTIES
  Km1Spec
