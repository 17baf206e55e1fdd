SPECIFICATION MCSpec
CONSTANTS
  NClusters = 4
  ClusterSlots = 3
  RootSlots = 3
  Blobs <- MCBlobs
  Paths <- MCPaths
  Base <- MCBase
  Targets = {"D"}
  Scenarios <- MCScenarios
INVARIANTS PassesCheck Listed TypeOK 
PROPERTIES FileTreeSpec CleanIsThorough CleanTakesTheBaseNames
