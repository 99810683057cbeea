SPECIFICATION Spec
CONSTANTS
  p1 = p1
  p2 = p2
  Pids = {p1, p2}
  Kinds = {"helper", "game", "sibling", "unpacked", "foreign"}
  SteamStopWatch = TRUE
  SessionWait = TRUE
  ReapsByHand = TRUE
  Signals = {"TERM", "KILL"}
  MaxSignals = 2
  MaxLog = 0
  MaxSteam = 1
SYMMETRY Symmetry
INVARIANTS
  NothingLeftBehind
  WatcherNeverKills
  ListedAreGone
  SurvivorsAreReported
CHECK_DEADLOCK FALSE
