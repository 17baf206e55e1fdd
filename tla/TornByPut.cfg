SPECIFICATION MCSpec
CONSTANTS
  NClusters = 4
  ClusterSlots = 3
  RootSlots = 3
  Blobs <- BigBlobs
  Paths <- FewPaths
  Base <- MCBase
  Targets = {"D"}
  Scenarios <- PutScenarios
INVARIANT NoZeroedFile
