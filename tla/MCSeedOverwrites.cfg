SPECIFICATION Spec
CONSTANTS
  saved = saved
  depot = depot
  p = p
  q = q
  Roots = {saved, depot}
  Shared = {depot}
  Prefixes = {p, q}
  MaxKey = 3
  Own <- MCOwn
  None = none
  Other = other
  MaxOps = 1
  MaxFaults = 0
  MaxEdits = 1
SYMMETRY Symmetry
PROPERTIES
  GameSavesKept
CHECK_DEADLOCK FALSE
