SPECIFICATION Spec
CONSTANTS
  Lower <- MCLower
  Worlds <- MCHeldWorlds
  Runs <- MCRuns
  Releases = {{}, {2}}
  Hands = {}
  Window = FALSE
INVARIANT CreditTrue
CHECK_DEADLOCK FALSE
