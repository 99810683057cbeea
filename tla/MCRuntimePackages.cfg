SPECIFICATION Spec
CONSTANTS
  a1 = a1
  a2 = a2
  b1 = b1
  v1 = v1
  v2 = v2
  p = p
  q = q
  Procs = {p, q}
  Builds = {a1, a2, b1}
  VersionOf <- MCVersionOf
  Released = {b1}
  None = none
  HistoryCap = 2
  MaxOps = 4
  MaxFaults = 1
SYMMETRY Symmetry
INVARIANTS
  HistoryIsRecent
PROPERTIES
  RollbackSwitches
  PackagesAreARegistry
CHECK_DEADLOCK FALSE
