SPECIFICATION Spec
CONSTANTS
  Nodes = {0, 1, 2, 3, 4, 5}
  Blocks = {}
  NoBlock = NoBlock
  InitialBlock <- Unfixed
  MaxBlockWeight <- NoLimits
  NodeWeight <- UnitWeights
  Edges = {"e1"}
  Pins <- OneNet
  Preferred <- TwoTrees
  HighDegreeThreshold = 1
  MaxNodeWeight = 6
INVARIANTS
  Forest
CONSTRAINT Stalled
