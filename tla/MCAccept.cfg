SPECIFICATION Spec
CONSTANTS
  Lower <- MCLower
  Worlds <- MCWorlds
  Runs <- MCRuns
  Releases = {{}}
  Hands = {"merge", "resolve", "close", "edit"}
  Window = FALSE
INVARIANTS OnlyVerified CreditTrue PublicTrue ToldOnce
PROPERTIES NeverReplaced HeldStays Completes PlanKept GetsThrough
CHECK_DEADLOCK FALSE
