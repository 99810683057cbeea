SPECIFICATION Spec
CONSTANTS
  e1 = e1
  e2 = e2
  r1 = r1
  Entries = {e1, e2}
  Main = main
  Native = native
  Roots = {r1}
  MaxRuns = 1
  MaxSteamWrites = 0
  Faults = {"signal"}
SYMMETRY Symmetry
INVARIANTS
  MappingIsRemovable
CHECK_DEADLOCK FALSE
