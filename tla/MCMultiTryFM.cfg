SPECIFICATION Spec
CONSTANTS
  Nodes = {1, 2, 3}
  Edges = {"e1", "e2", "e3"}
  Blocks = {0, 1, 2}
  Pins <- Triangle
  EdgeWeight <- NetWeights
  NodeWeight <- UnitWeights
  MaxPartWeight <- Limits
  Inputs <- OneOrTwoRounds
  HighDegree = {3}
  NumTasks = 2
  NumSeeds = 1
  FinishedTasksLimit = 1
  MaxSearchID = 10
  MaxMoveID = 9
  Slack = 2
  UnconstrainedRounds = 1
  Dynamically = FALSE
  ReleaseNodes = TRUE
INVARIANTS
  OneSearchPerNode
  MovesExplainPartition
  RecalculatedGainsExact
  QualityAccounted
PROPERTIES
  RollbackTakesBestPrefix
  Termination
