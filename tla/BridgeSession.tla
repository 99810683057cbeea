----------------------------- MODULE BridgeSession -----------------------------
(***************************************************************************)
(* One run of bin/ullage-bridge, from the start of the Wine launcher to    *)
(* the session receipt: the bridge's shell, the subshell that watches      *)
(* Steam, the two-second KILL timer, wineserver -w and the reaper, with    *)
(* Steam and the processes of the prefix around them.                      *)
(*                                                                         *)
(* A signal whose trap is set waits for the command in progress to end,    *)
(* except that it ends a wait at once; every command of the bridge is an   *)
(* action of its own, so a signal can come between any two of them.  A     *)
(* signal whose trap is not set ends the bridge.                           *)
(***************************************************************************)
EXTENDS Reaper, Naturals, Sequences

CONSTANTS
  SteamStopWatch, \* STEAM_STOP_WATCH: is Steam watched?
  SessionWait,    \* WINE_SESSION_WAIT: is the session drained?
  ReapsByHand,    \* does somebody run ullage-reap after a killed bridge?
  Signals,        \* what is sent to the bridge from outside
  MaxSignals,     \* bound: how often
  MaxLog,         \* bound: lines of Steam's content_log.txt
  MaxSteam        \* bound: starts of the Steam client, the first included

ASSUME BridgeAssumption ==
  /\ SteamStopWatch \in BOOLEAN
  /\ SessionWait \in BOOLEAN
  /\ Signals \subseteq {"TERM", "KILL"}
  /\ ReapsByHand \in BOOLEAN
  /\ MaxSignals \in Nat
  /\ MaxLog \in Nat
  /\ MaxSteam \in Nat \ {0}

VARIABLES
  bpc,          \* the next command of the bridge
  pending,      \* a trapped signal has not been handled yet
  signal,       \* SIGNAL_RECEIVED
  child,        \* the Wine launcher, WINE_CHILD_PID
  timer,        \* the KILL timer, signal_kill_timer_pid
  drain,        \* the wineserver -w process
  drainPid,     \* is WINE_SERVER_WAIT_PID set?
  watcher,      \* the watching subshell
  watcherPid,   \* is STEAM_STOP_WATCH_PID set?
  watchSteam,   \* watch_steam_pid, the Steam instance; 0: none was found
  watchOffset,  \* watch_offset, in lines
  watchSize,    \* watch_size, in lines, until the tail has been read
  stopMarker,   \* STOP_MARKER exists
  exitMarker,   \* STEAM_EXIT_MARKER exists
  suspects,     \* the pids lsof has still to be asked about
  prefixClean,  \* PREFIX_CLEAN
  receipt,      \* last.json
  steam,        \* the running Steam instance; 0: Steam is not running
  steamStarts,  \* instances so far
  log,          \* the content log: TRUE is a Terminating line of this AppID
  signalsSent,  \* signals sent from outside so far
  asked,        \* history: Steam asked to stop since the launch
  killer        \* history: whose signal ended the bridge

processEnv == <<child, timer, drain>>
receiptVars == <<suspects, prefixClean, receipt>>
bridgeVars == <<signal, drainPid, watcherPid, receiptVars>>
watchVars == <<watcher, watchSteam, watchOffset, watchSize>>
markerVars == <<stopMarker, exitMarker>>
steamVars == <<steam, steamStarts, log, asked>>
signalVars == <<pending, signalsSent, killer>>
sessionVars ==
  <<bpc, processEnv, bridgeVars, watchVars, markerVars, steamVars, signalVars>>
vars == <<sessionVars, reaperVars, processVars>>

NoReceipt == [written |-> FALSE, signal |-> FALSE, nativeStop |-> FALSE,
              steamExit |-> FALSE, clean |-> FALSE]

\* Before the trap is set, while it is set, and after it has been reset.
Untrapped == {"start", "spawned"}
Trapped ==
  {"findSteam", "readOffset", "startWatch", "setWatcherPid", "beginWait",
   "waitChild", "waited", "killTimer", "drainTest", "drainStart", "setDrainPid",
   "drainCheck", "drainWait", "drainEnd", "poll", "stopWatch", "resetTrap"}
Reset == {"startReaper", "reaping", "commands", "suspects", "lsof", "receipt",
          "removeMarkers"}
Over == {"ended", "killed"}

BridgeAlive == bpc \notin Over
LauncherUp == child = "running"
Watching == watcher \in {"look", "tail", "stop"}

TypeOK ==
  /\ ReaperTypeOK
  /\ bpc \in Untrapped \cup Trapped \cup Reset \cup Over
  /\ pending \in BOOLEAN
  /\ signal \in BOOLEAN
  /\ child \in {"none", "running", "dead"}
  /\ timer \in {"none", "armed", "dead"}
  /\ drain \in {"none", "running", "termed", "dead"}
  /\ drainPid \in BOOLEAN
  /\ drainPid => bpc \in {"drainCheck", "drainWait", "drainEnd"} \cup Over
  /\ watcher \in {"none", "look", "tail", "stop", "gone"}
  /\ watcherPid \in BOOLEAN
  /\ watchSteam \in 0..MaxSteam
  /\ watchOffset \in 0..MaxLog
  /\ watchSize \in 0..MaxLog
  /\ stopMarker \in BOOLEAN
  /\ exitMarker \in BOOLEAN
  /\ suspects \subseteq Pids
  /\ prefixClean \in BOOLEAN
  /\ receipt \in [written : BOOLEAN, signal : BOOLEAN, nativeStop : BOOLEAN,
                  steamExit : BOOLEAN, clean : BOOLEAN]
  /\ steam \in 0..MaxSteam
  /\ steamStarts \in 1..MaxSteam
  /\ log \in Seq(BOOLEAN) /\ Len(log) <= MaxLog
  /\ signalsSent \in 0..MaxSignals
  /\ asked \in BOOLEAN
  /\ killer \in {"none", "outside", "watcher"}

\* The log may end with the stop of an earlier session, and other processes may
\* be running; nothing runs in the prefix.
Init ==
  /\ ReaperInit
  /\ proc \in [Pids -> {"free"} \cup (Kinds \ Session)]
  /\ bpc = "start"
  /\ pending = FALSE
  /\ signal = FALSE
  /\ child = "none"
  /\ timer = "none"
  /\ drain = "none"
  /\ drainPid = FALSE
  /\ watcher = "none"
  /\ watcherPid = FALSE
  /\ watchSteam = 0
  /\ watchOffset = 0
  /\ watchSize = 0
  /\ stopMarker = FALSE
  /\ exitMarker = FALSE
  /\ suspects = {}
  /\ prefixClean = FALSE
  /\ receipt = NoReceipt
  /\ steam = 1
  /\ steamStarts = 1
  /\ log \in {<<>>, <<TRUE>>} /\ Len(log) <= MaxLog
  /\ signalsSent = 0
  /\ asked = FALSE
  /\ killer = "none"

--------------------------------------------------------------------------------
(* Signals.                                                                *)

\* A HUP, INT or TERM reaches the bridge.
Deliver(from) ==
  IF bpc \in Trapped
  THEN /\ pending' = TRUE
       /\ UNCHANGED <<bpc, killer>>
  ELSE IF bpc \in Over
  THEN UNCHANGED <<bpc, pending, killer>>
  ELSE /\ bpc' = "killed"
       /\ killer' = from
       /\ UNCHANGED pending

\* TERM stands for HUP and INT too, which have the same trap.
SignalBridge(s) ==
  /\ BridgeAlive
  /\ signalsSent < MaxSignals
  /\ signalsSent' = signalsSent + 1
  /\ IF s = "TERM"
     THEN Deliver("outside")
     ELSE /\ bpc' = "killed"
          /\ killer' = "outside"
          /\ UNCHANGED pending
  /\ UNCHANGED <<processEnv, bridgeVars, watchVars, markerVars, steamVars,
                 reaperVars, processVars>>

\* The subshell ends, and its variables with it.
WatcherGone ==
  /\ watcher' = "gone"
  /\ watchSteam' = 0
  /\ watchOffset' = 0
  /\ watchSize' = 0

\* stop_steam_stop_watch: TERM, and wait for the subshell to end.
StopWatcher ==
  /\ IF watcherPid THEN WatcherGone ELSE UNCHANGED watchVars
  /\ watcherPid' = FALSE

\* forward_signal.  The launcher may take no notice of its TERM.  wineserver's
\* wait may have begun or not, when the signal comes.
ForwardSignal ==
  /\ bpc \in Trapped
  /\ pending
  /\ pending' = FALSE
  /\ signal' = TRUE
  /\ StopWatcher
  /\ drain' = IF drainPid /\ drain = "running" THEN "termed" ELSE drain
  /\ CASE bpc = "waitChild" -> bpc' = "waited"
       [] bpc = "drainWait" -> bpc' \in {"drainWait", "drainEnd"}
       [] OTHER -> bpc' = bpc
  /\ UNCHANGED <<child, timer, drainPid, receiptVars, markerVars, steamVars,
                 signalsSent, killer, reaperVars, processVars>>

--------------------------------------------------------------------------------
(* The bridge: launch, watch and wait.                                     *)

\* One command of the bridge ends and the next one comes.
Goto(here, next) ==
  /\ bpc = here
  /\ ~pending
  /\ bpc' = next

StartChild ==
  /\ Goto("start", "spawned")
  /\ child' = "running"
  /\ UNCHANGED <<timer, drain, bridgeVars, watchVars, markerVars, steamVars,
                 signalVars, reaperVars, processVars>>

SetTrap ==
  /\ Goto("spawned", IF SteamStopWatch THEN "findSteam" ELSE "beginWait")
  /\ UNCHANGED <<processEnv, bridgeVars, watchVars, markerVars, steamVars,
                 signalVars, reaperVars, processVars>>

FindSteam ==
  /\ Goto("findSteam", "readOffset")
  /\ watchSteam' = steam
  /\ UNCHANGED <<processEnv, bridgeVars, watcher, watchOffset, watchSize,
                 markerVars, steamVars, signalVars, reaperVars, processVars>>

\* Mutant of ReadOffset: the whole log is new.
ReadOffsetZero ==
  /\ Goto("readOffset", "startWatch")
  /\ UNCHANGED <<processEnv, bridgeVars, watchVars, markerVars, steamVars,
                 signalVars, reaperVars, processVars>>

ReadOffset ==
  /\ Goto("readOffset", "startWatch")
  /\ watchOffset' = Len(log)
  /\ UNCHANGED <<processEnv, bridgeVars, watcher, watchSteam, watchSize,
                 markerVars, steamVars, signalVars, reaperVars, processVars>>

StartWatch ==
  /\ Goto("startWatch", "setWatcherPid")
  /\ watcher' = "look"
  /\ UNCHANGED <<processEnv, bridgeVars, watchSteam, watchOffset, watchSize,
                 markerVars, steamVars, signalVars, reaperVars, processVars>>

SetWatcherPid ==
  /\ Goto("setWatcherPid", "beginWait")
  /\ watcherPid' = TRUE
  /\ UNCHANGED <<processEnv, signal, drainPid, receiptVars, watchVars,
                 markerVars, steamVars, signalVars, reaperVars, processVars>>

\* A signal that comes before this step does not end the wait.
BeginWait ==
  /\ Goto("beginWait", "waitChild")
  /\ UNCHANGED <<processEnv, bridgeVars, watchVars, markerVars, steamVars,
                 signalVars, reaperVars, processVars>>

\* wait returns because the launcher has ended.
WaitChild ==
  /\ Goto("waitChild", "waited")
  /\ child = "dead"
  /\ UNCHANGED <<processEnv, bridgeVars, watchVars, markerVars, steamVars,
                 signalVars, reaperVars, processVars>>

\* Mutant of Waited: no timer, and no KILL.
WaitedNoTimer ==
  /\ Goto("waited", IF child = "dead" THEN "killTimer" ELSE "beginWait")
  /\ UNCHANGED <<processEnv, bridgeVars, watchVars, markerVars, steamVars,
                 signalVars, reaperVars, processVars>>

\* After a signal: wait again under the timer, and KILL when it has run out.
Waited ==
  LET expired == signal /\ child = "running" /\ timer = "dead"
  IN /\ Goto("waited", IF child = "dead" \/ expired THEN "killTimer"
                       ELSE "beginWait")
     /\ timer' = IF signal /\ child = "running" /\ timer = "none" THEN "armed"
                 ELSE timer
     /\ child' = IF expired THEN "dead" ELSE child
     /\ UNCHANGED <<drain, bridgeVars, watchVars, markerVars, steamVars,
                    signalVars, reaperVars, processVars>>

\* Mutant of KillTimer: the timer is left to run.
KillTimerSkipped ==
  /\ Goto("killTimer", "drainTest")
  /\ UNCHANGED <<processEnv, bridgeVars, watchVars, markerVars, steamVars,
                 signalVars, reaperVars, processVars>>

KillTimer ==
  /\ Goto("killTimer", "drainTest")
  /\ timer' = IF timer = "armed" THEN "dead" ELSE timer
  /\ UNCHANGED <<child, drain, bridgeVars, watchVars, markerVars, steamVars,
                 signalVars, reaperVars, processVars>>

DrainTest ==
  /\ Goto("drainTest",
          IF SessionWait /\ ~signal THEN "drainStart" ELSE "stopWatch")
  /\ UNCHANGED <<processEnv, bridgeVars, watchVars, markerVars, steamVars,
                 signalVars, reaperVars, processVars>>

DrainStart ==
  /\ Goto("drainStart", "setDrainPid")
  /\ drain' = "running"
  /\ UNCHANGED <<child, timer, bridgeVars, watchVars, markerVars, steamVars,
                 signalVars, reaperVars, processVars>>

SetDrainPid ==
  /\ Goto("setDrainPid", "drainCheck")
  /\ drainPid' = TRUE
  /\ UNCHANGED <<processEnv, signal, watcherPid, receiptVars,
                 watchVars, markerVars, steamVars, signalVars, reaperVars,
                 processVars>>

\* Mutant of DrainCheck: a signal that came before the pid was known is lost.
DrainCheckSkipped ==
  /\ Goto("drainCheck", "drainWait")
  /\ UNCHANGED <<processEnv, bridgeVars, watchVars, markerVars, steamVars,
                 signalVars, reaperVars, processVars>>

DrainCheck ==
  /\ Goto("drainCheck", "drainWait")
  /\ drain' = IF signal /\ drain = "running" THEN "termed" ELSE drain
  /\ UNCHANGED <<child, timer, bridgeVars, watchVars, markerVars, steamVars,
                 signalVars, reaperVars, processVars>>

DrainWait ==
  /\ Goto("drainWait", "drainEnd")
  /\ drain = "dead"
  /\ UNCHANGED <<processEnv, bridgeVars, watchVars, markerVars, steamVars,
                 signalVars, reaperVars, processVars>>

DrainEnd ==
  /\ Goto("drainEnd", "poll")
  /\ drainPid' = FALSE
  /\ UNCHANGED <<processEnv, signal, watcherPid, receiptVars,
                 watchVars, markerVars, steamVars, signalVars, reaperVars,
                 processVars>>

\* The loop over the depot's processes ends.
Poll ==
  /\ Goto("poll", "stopWatch")
  /\ signal \/ Alive(BridgeSees) = {}
  /\ UNCHANGED <<processEnv, bridgeVars, watchVars, markerVars, steamVars,
                 signalVars, reaperVars, processVars>>

\* Mutant of StopWatch: the subshell is left to notice the end by itself.
StopWatchSkipped ==
  /\ Goto("stopWatch", "resetTrap")
  /\ UNCHANGED <<processEnv, bridgeVars, watchVars, markerVars, steamVars,
                 signalVars, reaperVars, processVars>>

StopWatch ==
  /\ Goto("stopWatch", "resetTrap")
  /\ StopWatcher
  /\ UNCHANGED <<processEnv, signal, drainPid, receiptVars, markerVars, steamVars,
                 signalVars, reaperVars, processVars>>

ResetTrap ==
  /\ Goto("resetTrap", "startReaper")
  /\ UNCHANGED <<processEnv, bridgeVars, watchVars, markerVars, steamVars,
                 signalVars, reaperVars, processVars>>

--------------------------------------------------------------------------------
(* The bridge: cleanup and receipt.                                        *)

BridgeStartsReaper ==
  /\ Goto("startReaper", "reaping")
  /\ StartReaper(signal)
  /\ UNCHANGED <<processEnv, bridgeVars, watchVars, markerVars, steamVars,
                 signalVars>>

\* The reaper has ended; a failure of its own is logged and no more.
ReaperReturns ==
  /\ Goto("reaping", "commands")
  /\ \/ /\ rpc = "done"
        /\ UNCHANGED <<reaperVars, same>>
     \/ /\ Reaping
        /\ rpc' = "failed"
        /\ killGames' = FALSE
        /\ helperPids' = {} /\ gamePids' = {} /\ todo' = {} /\ aim' = {}
        /\ same' = {}
  /\ survivors' = Alive(Session)
  /\ UNCHANGED <<proc, processEnv, bridgeVars, watchVars, markerVars, steamVars,
                 signalVars>>

\* The first ps: the command lines that name the prefix, whosever they are.
LookAtCommands ==
  \E named \in SUBSET Alive(Kinds) :
    /\ Goto("commands", IF named = {} THEN "suspects" ELSE "receipt")
    /\ prefixClean' = (named = {})
    /\ UNCHANGED <<processEnv, signal, drainPid, watcherPid, suspects, receipt,
                   watchVars, markerVars, steamVars, signalVars, reaperVars,
                   processVars>>

\* Mutant of ListSuspects: helpers are not looked for.
ListSuspectGames ==
  /\ Goto("suspects", "lsof")
  /\ suspects' = Alive(GameKinds)
  /\ UNCHANGED <<processEnv, signal, drainPid, watcherPid, prefixClean, receipt,
                 watchVars, markerVars, steamVars, signalVars, reaperVars,
                 processVars>>

\* The second ps: what has the name of a Wine process or of a Windows program.
\* Those of other prefixes, which lsof passes over, are left out.
ListSuspects ==
  /\ Goto("suspects", "lsof")
  /\ suspects' = Alive(Session)
  /\ UNCHANGED <<processEnv, signal, drainPid, watcherPid, prefixClean, receipt,
                 watchVars, markerVars, steamVars, signalVars, reaperVars,
                 processVars>>

\* lsof of one pid after another: does it have a file of the prefix open?
AskLsof ==
  /\ Goto("lsof", "lsof")
  /\ \E p \in suspects :
       /\ suspects' = suspects \ {p}
       /\ prefixClean' = (prefixClean /\ p \notin Alive(Session))
  /\ UNCHANGED <<processEnv, signal, drainPid, watcherPid, receipt, watchVars,
                 markerVars, steamVars, signalVars, reaperVars, processVars>>

LsofEnd ==
  /\ Goto("lsof", "receipt")
  /\ suspects = {}
  /\ UNCHANGED <<processEnv, bridgeVars, watchVars, markerVars, steamVars,
                 signalVars, reaperVars, processVars>>

WriteReceipt ==
  /\ Goto("receipt", "removeMarkers")
  /\ receipt' = [written |-> TRUE, signal |-> signal,
                 nativeStop |-> stopMarker, steamExit |-> exitMarker,
                 clean |-> prefixClean]
  /\ UNCHANGED <<processEnv, signal, drainPid, watcherPid, suspects,
                 prefixClean, watchVars, markerVars, steamVars, signalVars,
                 reaperVars, processVars>>

RemoveMarkers ==
  /\ Goto("removeMarkers", "ended")
  /\ stopMarker' = FALSE
  /\ exitMarker' = FALSE
  /\ UNCHANGED <<processEnv, bridgeVars, watchVars, steamVars, signalVars,
                 reaperVars, processVars>>

BridgeStep ==
  \/ ForwardSignal
  \/ StartChild \/ SetTrap
  \/ FindSteam \/ ReadOffset \/ StartWatch \/ SetWatcherPid
  \/ BeginWait \/ WaitChild \/ Waited \/ KillTimer
  \/ DrainTest \/ DrainStart \/ SetDrainPid \/ DrainCheck \/ DrainWait
  \/ DrainEnd \/ Poll
  \/ StopWatch \/ ResetTrap
  \/ BridgeStartsReaper \/ ReaperReturns
  \/ LookAtCommands \/ ListSuspects \/ AskLsof \/ LsofEnd \/ WriteReceipt \/ RemoveMarkers

--------------------------------------------------------------------------------
(* The watching subshell.                                                  *)

WatchUnchanged ==
  UNCHANGED <<processEnv, bridgeVars, steamVars, signalsSent, reaperVars,
              processVars>>

\* Mutant of WatchLeave: the subshell watches Steam and not the bridge.
WatchLeaveWithSteam ==
  /\ watcher = "look"
  /\ ~BridgeAlive
  /\ watchSteam # steam
  /\ WatcherGone
  /\ UNCHANGED <<bpc, markerVars, pending, killer>>
  /\ WatchUnchanged

\* The bridge is gone: kill -0 fails and the loop ends.  That the bridge's pid may
\* have been given to another process by then is left out.
WatchLeave ==
  /\ watcher = "look"
  /\ ~BridgeAlive
  /\ WatcherGone
  /\ UNCHANGED <<bpc, markerVars, pending, killer>>
  /\ WatchUnchanged

\* Mutant of WatchSteamGone: the marker is written, and nobody is told.
WatchSteamGoneQuiet ==
  /\ watcher = "look"
  /\ BridgeAlive
  /\ watchSteam \notin {0, steam}
  /\ exitMarker' = TRUE
  /\ WatcherGone
  /\ UNCHANGED <<bpc, stopMarker, pending, killer>>
  /\ WatchUnchanged

\* The recorded Steam client is no longer there.
WatchSteamGone ==
  /\ watcher = "look"
  /\ BridgeAlive
  /\ watchSteam \notin {0, steam}
  /\ exitMarker' = TRUE
  /\ watcher' = "stop"
  /\ UNCHANGED <<bpc, watchSteam, watchOffset, watchSize, stopMarker, pending,
                 killer>>
  /\ WatchUnchanged

\* The log's size is read; a log that has become shorter is read from its start.
WatchLook ==
  /\ watcher = "look"
  /\ BridgeAlive
  /\ watchSteam \in {0, steam}
  /\ watchOffset' = IF Len(log) < watchOffset THEN 0 ELSE watchOffset
  /\ watcher' = IF Len(log) > watchOffset' THEN "tail" ELSE "look"
  /\ watchSize' = IF watcher' = "tail" THEN Len(log) ELSE 0
  /\ UNCHANGED <<bpc, watchSteam, markerVars, pending, killer>>
  /\ WatchUnchanged

StopInTail == \E i \in (watchOffset + 1)..Len(log) : log[i]

\* Mutant of WatchTail: the offset is the size after the tail was read.
WatchTailResize ==
  /\ watcher = "tail"
  /\ LET found == \E i \in (watchOffset + 1)..watchSize : i <= Len(log) /\ log[i]
     IN /\ watcher' = IF found THEN "stop" ELSE "look"
        /\ stopMarker' = (stopMarker \/ found)
        /\ watchOffset' = IF found THEN watchOffset ELSE Len(log)
  /\ watchSize' = 0
  /\ UNCHANGED <<bpc, watchSteam, exitMarker, pending, killer>>
  /\ WatchUnchanged

\* The tail is read to its end, which may be beyond the size that was read.
WatchTail ==
  /\ watcher = "tail"
  /\ watcher' = IF StopInTail THEN "stop" ELSE "look"
  /\ stopMarker' = (stopMarker \/ StopInTail)
  /\ watchOffset' = IF StopInTail THEN watchOffset ELSE watchSize
  /\ watchSize' = 0
  /\ UNCHANGED <<bpc, watchSteam, exitMarker, pending, killer>>
  /\ WatchUnchanged

\* The marker has been written: TERM to the bridge, and the subshell ends.
WatchStop ==
  /\ watcher = "stop"
  /\ WatcherGone
  /\ Deliver("watcher")
  /\ UNCHANGED markerVars
  /\ WatchUnchanged

WatchStep ==
  WatchLeave \/ WatchSteamGone \/ WatchLook \/ WatchTail \/ WatchStop

--------------------------------------------------------------------------------
(* The other processes, and Steam.                                         *)

\* The launcher ends by itself, or at a TERM.
ChildExit ==
  /\ child = "running"
  /\ child' = "dead"
  /\ UNCHANGED <<bpc, timer, drain, bridgeVars, watchVars, markerVars,
                 steamVars, signalVars, reaperVars, processVars>>

\* Two seconds have passed.
TimerFires ==
  /\ timer = "armed"
  /\ timer' = "dead"
  /\ child' = "dead"
  /\ UNCHANGED <<bpc, drain, bridgeVars, watchVars, markerVars, steamVars,
                 signalVars, reaperVars, processVars>>

\* wineserver -w ends when it takes the session for idle, which it may do early.
DrainExits ==
  /\ drain = "running"
  /\ drain' = "dead"
  /\ UNCHANGED <<bpc, child, timer, bridgeVars, watchVars, markerVars,
                 steamVars, signalVars, reaperVars, processVars>>

DrainTermed ==
  /\ drain = "termed"
  /\ drain' = "dead"
  /\ UNCHANGED <<bpc, child, timer, bridgeVars, watchVars, markerVars,
                 steamVars, signalVars, reaperVars, processVars>>

\* Bound: what they do when no reaper will look at them is left out.
Processes ==
  /\ BridgeAlive \/ Reaping \/ (ReapsByHand /\ rpc = "idle")
  /\ ProcessExit \/ ProcessStart(LauncherUp)
  /\ UNCHANGED <<sessionVars, reaperVars>>

\* Bound: what Steam does once nobody looks at it is left out.
SteamMatters == BridgeAlive \/ Watching

\* Steam writes a line to its content log.
SteamLog(stop) ==
  /\ SteamMatters
  /\ steam # 0
  /\ Len(log) < MaxLog
  /\ log' = Append(log, stop)
  /\ asked' = (asked \/ (stop /\ child # "none"))
  /\ UNCHANGED <<bpc, processEnv, bridgeVars, watchVars, markerVars, steam,
                 steamStarts, signalVars, reaperVars, processVars>>

SteamExit ==
  /\ SteamMatters
  /\ steam # 0
  /\ steam' = 0
  /\ UNCHANGED <<bpc, processEnv, bridgeVars, watchVars, markerVars,
                 steamStarts, log, asked, signalVars, reaperVars,
                 processVars>>

\* A client that starts may begin a new log.
SteamStart ==
  /\ SteamMatters
  /\ steam = 0
  /\ steamStarts < MaxSteam
  /\ steamStarts' = steamStarts + 1
  /\ steam' = steamStarts + 1
  /\ log' \in {log, <<>>}
  /\ UNCHANGED <<bpc, processEnv, bridgeVars, watchVars, markerVars, asked,
                 signalVars, reaperVars, processVars>>

\* Somebody runs ullage-reap by hand after a bridge that was killed.
ReapByHand ==
  /\ ReapsByHand
  /\ bpc = "killed"
  /\ \E games \in BOOLEAN : StartReaper(games)
  /\ UNCHANGED sessionVars

ReaperRuns ==
  /\ ReaperStep
  /\ UNCHANGED sessionVars

Environment ==
  \/ \E s \in Signals : SignalBridge(s)
  \/ ChildExit \/ DrainExits
  \/ Processes \/ ReapByHand
  \/ (\E stop \in BOOLEAN : SteamLog(stop)) \/ SteamExit \/ SteamStart

Next ==
  BridgeStep \/ WatchStep \/ ReaperRuns \/ TimerFires \/ DrainTermed
  \/ Environment

Spec == Init /\ [][Next]_vars

\* What the bridge started goes on running, the two seconds pass, and a
\* wineserver that has been sent TERM ends.  Nothing is assumed of the launcher,
\* the games, Steam or the user.
Fairness ==
  /\ WF_vars(BridgeStep)
  /\ WF_vars(WatchStep)
  /\ WF_vars(ReaperRuns)
  /\ WF_vars(TimerFires)
  /\ WF_vars(DrainTermed)

FairSpec == Spec /\ Fairness

--------------------------------------------------------------------------------
(* Properties.                                                             *)

\* A bridge that has ended normally leaves no launcher, no watching subshell
\* and no timer that could still KILL a pid somebody else has by then.
NothingLeftBehind ==
  bpc = "ended" => child = "dead" /\ ~Watching /\ timer # "armed"

\* The subshell's TERM never finds the trap reset: what it reports is always
\* handled, and no session loses its receipt to it.
WatcherNeverKills == killer # "watcher"

\* A receipt that calls the prefix clean is right about everything that ran in
\* it when the reaper returned: all of that has ended by then, however the pids
\* are reused between the two looks at the processes and lsof.
SurvivorsAreReported == receipt.clean => survivors = {}

\* A receipt says that Steam stopped the game only if it did so in this
\* session, and that Steam ended only if the client of the launch is gone.
ReceiptIsTrue ==
  receipt.written =>
    /\ receipt.nativeStop => asked
    /\ receipt.steamExit => steam # 1

\* The bridge waits for a launcher that may have ignored its TERM, and no timer
\* is set: the signal was taken between the setting of the trap and the wait.
WaitsUntimed == bpc = "waitChild" /\ signal /\ timer = "none"

\* A signal that finds the bridge at one of its waits ends the session, whether
\* or not the launcher, the games and wineserver take any notice.
Waits == {"waitChild", "drainWait", "poll"}
SignalEndsSession == (pending /\ bpc \in Waits) ~> ~BridgeAlive

\* So does one that comes when wineserver -w has been started and its pid is
\* not known yet, or not looked at yet.
SignalEndsDrain ==
  (pending /\ bpc \in {"drainStart", "setDrainPid", "drainCheck"})
    ~> ~BridgeAlive

\* A stop that Steam logs while the bridge watches it ends the session.
StopEndsSession ==
  (Watching /\ steam # 0 /\ watchSteam = steam /\ StopInTail)
    ~> ~BridgeAlive \/ WaitsUntimed

\* And so does the end of the Steam client the bridge watches.
SteamExitEndsSession ==
  (Watching /\ watchSteam \notin {0, steam}) ~> ~BridgeAlive \/ WaitsUntimed

\* The watching subshell does not outlive the bridge.
WatcherEnds == ~BridgeAlive ~> ~Watching
================================================================================
