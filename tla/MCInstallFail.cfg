SPECIFICATION Spec
CONSTANTS
  e1 = e1
  e2 = e2
  r1 = r1
  Entries = {e1, e2}
  Main = main
  Native = native
  Roots = {r1}
  MaxRuns = 2
  MaxSteamWrites = 1
  Faults = {"fail"}
SYMMETRY Symmetry
INVARIANTS
  PlayFindsLauncher
  MappingIsRemovable
CHECK_DEADLOCK FALSE
