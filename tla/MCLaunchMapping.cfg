SPECIFICATION Spec
CONSTANTS
  e1 = e1
  e2 = e2
  v1 = v1
  v2 = v2
  Entries = {e1, e2}
  Published = {v1, v2}
  Launcher = launcher
  Absent = absent
  ConfigFile = config
  NoState = nostate
  BadState = badstate
  MaxOps = 3
  MaxWrites = 2
  MaxFaults = 1
SYMMETRY Symmetry
INVARIANTS
  TypeOK
  UndoGivesPublished
PROPERTIES
  RepairHeals
CHECK_DEADLOCK FALSE
