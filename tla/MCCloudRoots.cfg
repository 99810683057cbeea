SPECIFICATION Spec
CONSTANTS
  saved = saved
  depot = depot
  p = p
  q = q
  Roots = {saved, depot}
  Shared = {depot}
  Prefixes = {p, q}
  MaxKey = 3
  Own <- MCOwn
  None = none
  Other = other
  MaxOps = 3
  MaxFaults = 1
  MaxEdits = 2
SYMMETRY Symmetry
INVARIANTS
  TypeOK
  RestoreIsExact
  LinksAccounted
  UsersLinksKept
CHECK_DEADLOCK FALSE
