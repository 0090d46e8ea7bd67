SPECIFICATION Spec
CONSTANTS
  Nodes = {1, 2, 3}
  Edges = {"e1", "e2"}
  Blocks = {0, 1}
  Pins <- Chain
  NodeWeight <- FirstLight
  EdgeWeight <- UnitNets
  MaxPartWeight <- Limits
  InitialPart <- Alternating
  Movers <- Slots
  NodeOf <- SlotNode
  Limited = FALSE
  MaxMoves = 2
  PerfectBalance <- Limits
  Rebalancing = FALSE
  FixedNodes = {}
  MaxRounds = 2
INVARIANTS
  RollbackRestoresBest
  TrackedUnlessListedTwice
PROPERTIES
  RebalancedIsNotWorse
