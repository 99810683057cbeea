SPECIFICATION Spec
CONSTANTS
  e1 = e1
  e2 = e2
  r1 = r1
  Entries = {e1, e2}
  Main = main
  Native = native
  Roots = {r1}
  MaxRuns = 2
  MaxSteamWrites = 0
  Faults = {"fail", "signal", "crash"}
SYMMETRY Symmetry
INVARIANTS
  TypeOK
  NothingLost
  RollbackRestoresFiles
  RollbackRestoresSteam
CHECK_DEADLOCK FALSE
