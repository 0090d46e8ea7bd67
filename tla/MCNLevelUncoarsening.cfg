SPECIFICATION Spec
CONSTANTS
  Nodes = {1, 2, 3, 4, 5}
  Edges = {1, 2, 3}
  Pins <- ThreeNets
  EdgeWeight <- NetWeights
  NodeWeight <- UnitWeights
  Inputs <- OneOrTwoRoots
  NoBlock = NoBlock
  MaxBlockWeight <- NoLimits
  MaxPasses = 2
  NumThreads = 2
  Threads = {"t1", "t2"}
  MaxBatchSize = 2
  Blocks = {0, 1}
  MaxMoves = 1
INVARIANTS
  BatchesComplete
  BatchOrder
  HypergraphRestored
  GainCacheRestored
PROPERTIES
  InputRestored
