SPECIFICATION Spec
CONSTANTS
  e1 = e1
  e2 = e2
  r1 = r1
  r2 = r2
  Entries = {e1, e2}
  Main = main
  Native = native
  Roots = {r1, r2}
  MaxRuns = 1
  MaxRemoves = 2
  MaxSteamWrites = 2
  Faults = {"fail", "signal", "crash"}
SYMMETRY Symmetry
INVARIANTS
  RemoveLosesNothing
  RemovedMeansNative
  RefusalChangesNothing
  FailureKeepsRecord
  RetryAfterFailure
CHECK_DEADLOCK FALSE
