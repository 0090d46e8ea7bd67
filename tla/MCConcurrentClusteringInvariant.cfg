SPECIFICATION FairSpec
CONSTANTS
  Nodes = {0, 1, 2, 3}
  NodeWeight <- UnitWeights
  Neighbors <- RingAndTail
  MaxAllowedNodeWeight = 4
  NumThreads = 3
  HasFixedVertices = FALSE
INVARIANT
  ClusterInvariant
