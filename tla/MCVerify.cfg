SPECIFICATION Spec
CONSTANTS
  Materials <- MCMaterials
  Built <- MCBuilt
  Right <- MCRight
  Worlds <- MCWorlds
  AlikeInSize = TRUE
  MaxRuns = 3
  MaxCrashes = 1
INVARIANTS ReportTrue PublishedIsRight
CHECK_DEADLOCK FALSE
