SPECIFICATION Km1Spec
CONSTANTS
  Nodes = {1, 2, 3}
  Edges = {"e1", "e2"}
  Blocks = {0, 1}
  Pins <- TwoNets
  NodeWeight <- Weights
  EdgeWeight <- NetWeights
  MaxMoves = 1
  MaxPartWeight <- Limits
  InitialPart <- Split
  Movers = {1, 2, 3}
  NodeOf <- Itself
  Limited = TRUE
INVARIANTS
  PinCountsTracked
  WeightsTracked
  BalanceKept
  CacheTracked
