SPECIFICATION Spec
CONSTANTS
  Procs = {p, q}
  Files = {dll, tier}
  Shared = dll
  Builds = {b1, b2}
  Versions = {v1, v2}
  Users = {u}
  Links = {dangling}
  Dangling = {dangling}
  None = none
  Names = {n1}
  MaxOps = 3
  MaxKills = 1
  MaxEdits = 1
SYMMETRY Symmetry
INVARIANTS
  SavedIsOriginal
  NeverLeftWithout
PROPERTIES
  OriginalsKept
  ManifestIsTrue
CHECK_DEADLOCK FALSE
