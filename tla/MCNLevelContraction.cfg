SPECIFICATION FairSpec
CONSTANTS
  Nodes = {0, 1, 2, 3, 4}
  Blocks = {0, 1}
  NoBlock = NoBlock
  InitialBlock <- FixedEnds
  MaxBlockWeight <- LimitThree
  NodeWeight <- UnitWeights
  Edges = {"e1", "e2", "e3"}
  Pins <- ThreeNets
  Preferred <- Anyone
  HighDegreeThreshold = 1
  MaxNodeWeight = 3
INVARIANTS
  PendingMatchesTree
  PerformedInIsolation
  NoContractionForgotten
  HypergraphConsistent
  BlockWeightConsistent
  ClustersRespectFixedBlocks
PROPERTIES
  Termination
