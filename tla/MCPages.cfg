SPECIFICATION Spec
CONSTANTS
  Cells <- MCCells
  Tables = {1, 2, 3, 4, 5}
  Worlds <- MCWorlds
  Publishable <- MCPublishable
  Others = {3}
INVARIANTS Listed Offers
PROPERTY Ships
CHECK_DEADLOCK FALSE
