SPECIFICATION Spec
CONSTANTS
  Lower <- MCLower
  Materials = {1, 2}
  Bare = {}
  Settings <- MCSettings
  Producers <- MCProducers
  Overrides = {"Bob"}
  StaleDays = 2
INVARIANTS SaidOnce Mirrors TheyAgree ClaimIsTheirs NoSecondKey
PROPERTIES Quiet EventuallyShown
CHECK_DEADLOCK FALSE
