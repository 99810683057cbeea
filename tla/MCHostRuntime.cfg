SPECIFICATION Spec
CONSTANTS
  p = p
  q = q
  r1 = r1
  r2 = r2
  Procs = {p, q}
  Releases = {r1, r2}
  RootOf <- MCRootOf
  None = none
  HistoryCap = 1
  MaxOps = 3
  MaxFaults = 2
SYMMETRY Symmetry
PROPERTIES
  ContentsArePinned
  HostsAreARegistry
CHECK_DEADLOCK FALSE
