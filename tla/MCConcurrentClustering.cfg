SPECIFICATION FairSpec
CONSTANTS
  Nodes = {0, 1, 2, 3}
  NodeWeight <- LightSmallest
  Neighbors <- RingAndTail
  MaxAllowedNodeWeight = 4
  NumThreads = 3
  HasFixedVertices = TRUE
INVARIANTS
  ClusterInvariantUnlessOvertaken
  JoinTargetIsRepresentative
  WeightAccounted
  OvershootBounded
PROPERTIES
  Termination
  ImplementsClustering
