SPECIFICATION FairSpec
CONSTANTS
  p1 = p1
  Pids = {p1}
  Kinds = {"game"}
  SteamStopWatch = TRUE
  SessionWait = TRUE
  ReapsByHand = FALSE
  Signals = {"TERM", "KILL"}
  MaxSignals = 1
  MaxLog = 2
  MaxSteam = 2
INVARIANTS
  ReceiptIsTrue
PROPERTIES
  SignalEndsSession
  SignalEndsDrain
  StopEndsSession
  SteamExitEndsSession
  WatcherEnds
CHECK_DEADLOCK FALSE
