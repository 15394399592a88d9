SPECIFICATION Spec
CONSTANTS
  Materials <- MCMaterials
  Built <- MCBuilt
  Right <- MCRight
  Worlds <- MCPairWorlds
  AlikeInSize = FALSE
  MaxRuns = 3
  MaxCrashes = 0
INVARIANTS   PublishedIsRight
CHECK_DEADLOCK FALSE
