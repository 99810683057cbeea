-------------------------- MODULE BridgeSessionProofs --------------------------
(***************************************************************************)
(* The safety of ullage-reap and of one session of ullage-bridge, for any  *)
(* processes, signals, log and restarts of Steam.                          *)
(***************************************************************************)
EXTENDS BridgeSession, TLAPS

(* ullage-reap, which the bridge starts or somebody by hand.                 *)

reaperEnv == <<reaperVars, processVars>>

\* What still is what was listed has its kind.  A pid may be in both lists: it
\* held a helper, and a game by the time the games were listed.
Listed ==
  /\ same \subseteq Alive(Session)
  /\ \A p \in same \cap helperPids : proc[p] = "helper" \/ p \in gamePids
  /\ \A p \in same \cap gamePids : proc[p] \in ReaperSees

\* Where the script is, in terms of what it still has to end.
Progress ==
  /\ rpc \in {"idle", "listHelpers"} => helperPids = {} /\ gamePids = {}
  /\ rpc = "listGames" => gamePids = {}
  /\ rpc = "killHelpers" => same \cap helperPids \subseteq todo \cup aim \cup gamePids
  /\ rpc \in {"termGames", "killGames", "done"} =>
       same \cap helperPids \subseteq gamePids
  /\ rpc = "killGames" => same \cap gamePids \subseteq todo \cup aim
  /\ rpc = "done" => same \cap gamePids = {}

ReaperTyped ==
  /\ proc \in [Pids -> Kinds \cup {"free"}]
  /\ same \subseteq Pids
  /\ helperPids \subseteq Pids
  /\ gamePids \subseteq Pids
  /\ todo \subseteq Pids
  /\ aim \subseteq Pids

ReaperInv == ReaperTyped /\ Listed /\ Progress

\* Processes that end leave the invariant alone, whoever ends them, as long as
\* the script's variables do not change.
LEMMA EndAllKeeps ==
  ASSUME ReaperTyped, Listed, NEW S, EndAll(S), UNCHANGED <<helperPids, gamePids>>
  PROVE  /\ proc' \in [Pids -> Kinds \cup {"free"}]
         /\ same' = same \ S
         /\ Listed'
  BY DEF ReaperTyped, Listed, EndAll, Alive

\* The processes around the script.
LEMMA ProcessesKeep ==
  ASSUME ReaperInv, ProcessExit \/ (\E up : ProcessStart(up)), UNCHANGED reaperVars
  PROVE  ReaperInv'
  <1> USE DEF reaperVars, listVars
  <1>1. CASE ProcessExit
    <2>1. PICK p \in Pids : EndAll({p})
      BY <1>1 DEF ProcessExit, Alive
    <2>2. /\ proc' \in [Pids -> Kinds \cup {"free"}]
          /\ same' \subseteq same
          /\ Listed'
      BY <2>1, EndAllKeeps DEF ReaperInv
    <2> QED
      BY <2>2 DEF ReaperInv, ReaperTyped, Progress
  <1>2. CASE \E up : ProcessStart(up)
    <2>1. PICK p \in Pids, k \in Kinds :
            /\ proc[p] = "free"
            /\ proc' = [proc EXCEPT ![p] = k]
            /\ UNCHANGED same
      BY <1>2 DEF ProcessStart, Alive
    <2>2. "free" \notin Session
      BY ProcessAssumption DEF Session, AllGameKinds
    <2>3. p \notin same
      BY <2>1, <2>2 DEF ReaperInv, Listed, Alive
    <2>4. \A q \in same : proc'[q] = proc[q]
      BY <2>1, <2>3 DEF ReaperInv, ReaperTyped
    <2>5. ReaperTyped'
      BY <2>1 DEF ReaperInv, ReaperTyped
    <2>6. Listed'
      BY <2>1, <2>4 DEF ReaperInv, ReaperTyped, Listed, Alive
    <2> QED
      BY <2>1, <2>5, <2>6 DEF ReaperInv, Progress
  <1> QED
    BY <1>1, <1>2

\* The two lists.
LEMMA ListKeeps ==
  ASSUME ReaperInv, (\E games : StartReaper(games)) \/ ListHelpers \/ ListGames
  PROVE  ReaperInv'
  <1>1. CASE \E games : StartReaper(games)
    BY <1>1 DEF StartReaper, ReaperInv, ReaperTyped, Listed, Progress,
       processVars, Alive
  <1>2. CASE ListHelpers
    <2>1. ReaperTyped'
      BY <1>2 DEF ListHelpers, ReaperInv, ReaperTyped, Alive
    <2>2. Listed'
      BY <1>2 DEF ListHelpers, ReaperInv, Progress, Listed, Alive
    <2>3. Progress'
      BY <1>2 DEF ListHelpers, ReaperInv, Progress
    <2> QED
      BY <2>1, <2>2, <2>3 DEF ReaperInv
  <1>3. CASE ListGames
    <2>1. gamePids' \subseteq Alive(ReaperSees) /\ gamePids = {}
      BY <1>3 DEF ListGames, ReaperInv, Progress
    <2>2. Alive(ReaperSees) \subseteq Alive(Session)
      BY DEF ReaperInv, ReaperTyped, Alive, ReaperSees, Session
    <2>3. ReaperTyped'
      BY <1>3, <2>1 DEF ListGames, ReaperInv, ReaperTyped, Alive
    <2>4. Listed'
      BY <1>3, <2>1, <2>2 DEF ListGames, ReaperInv, Listed, Alive
    <2>5. Progress'
      BY <1>3 DEF ListGames, ReaperInv, Progress
    <2> QED
      BY <2>3, <2>4, <2>5 DEF ReaperInv
  <1> QED
    BY <1>1, <1>2, <1>3

\* wineserver ends what it likes of the session, and a process may take notice
\* of a TERM.
LEMMA TermKeeps ==
  ASSUME ReaperInv, StopServer \/ Term("termHelpers") \/ Term("termGames")
  PROVE  ReaperInv'
  <1>1. PICK S : EndAll(S)
    BY DEF StopServer, Term
  <1>2. UNCHANGED <<helperPids, gamePids>>
    BY DEF StopServer, Term, listVars
  <1>3. /\ proc' \in [Pids -> Kinds \cup {"free"}]
        /\ same' \subseteq same
        /\ Listed'
    BY <1>1, <1>2, EndAllKeeps DEF ReaperInv
  <1>4. /\ rpc' \in {"termHelpers", "termGames"}
        /\ rpc' = "termGames" => rpc = "termGames"
        /\ todo' \subseteq Pids /\ aim' \subseteq Pids
    BY DEF StopServer, Term, ReaperInv, ReaperTyped
  <1> QED
    BY <1>2, <1>3, <1>4 DEF ReaperInv, ReaperTyped, Progress

\* A look: what is still what was listed is not passed over.
LEMMA LookKeeps ==
  ASSUME ReaperInv,
         \/ Look("termHelpers", {"helper"}) \/ Look("killHelpers", {"helper"})
         \/ Look("termGames", ReaperSees) \/ Look("killGames", ReaperSees)
  PROVE  ReaperInv'
  <1> USE DEF ReaperInv, ReaperTyped, Listed, Progress, processVars, listVars, Alive
  <1>1. CASE Look("termHelpers", {"helper"})
    BY <1>1 DEF Look
  <1>2. CASE Look("killHelpers", {"helper"})
    BY <1>2 DEF Look
  <1>3. CASE Look("termGames", ReaperSees)
    BY <1>3 DEF Look
  <1>4. CASE Look("killGames", ReaperSees)
    BY <1>4 DEF Look
  <1> QED
    BY <1>1, <1>2, <1>3, <1>4

\* The KILL ends whatever holds the pid.
LEMMA KillKeeps ==
  ASSUME ReaperInv, Kill("killHelpers") \/ Kill("killGames")
  PROVE  ReaperInv'
  <1>1. EndAll(aim) /\ UNCHANGED <<rpc, helperPids, gamePids, todo>> /\ aim' = {}
    BY DEF Kill, listVars
  <1>2. rpc \in {"killHelpers", "killGames"}
    BY DEF Kill
  <1>3. /\ proc' \in [Pids -> Kinds \cup {"free"}]
        /\ same' = same \ aim
        /\ Listed'
    BY <1>1, EndAllKeeps DEF ReaperInv
  <1> QED
    BY <1>1, <1>2, <1>3 DEF ReaperInv, ReaperTyped, Progress

\* The ends of the loops.
LEMMA LoopKeeps ==
  ASSUME ReaperInv,
         \/ LoopEnd("termHelpers", "killHelpers", helperPids)
         \/ LoopEnd("killHelpers", "termGames", gamePids)
         \/ LoopEnd("termGames", "killGames", gamePids)
         \/ LoopEnd("killGames", "done", {})
  PROVE  ReaperInv'
  <1> USE DEF ReaperInv, ReaperTyped, Listed, Progress, processVars, listVars, Alive
  <1>1. CASE LoopEnd("termHelpers", "killHelpers", helperPids)
    BY <1>1 DEF LoopEnd
  <1>2. CASE LoopEnd("killHelpers", "termGames", gamePids)
    BY <1>2 DEF LoopEnd
  <1>3. CASE LoopEnd("termGames", "killGames", gamePids)
    BY <1>3 DEF LoopEnd
  <1>4. CASE LoopEnd("killGames", "done", {})
    BY <1>4 DEF LoopEnd
  <1> QED
    BY <1>1, <1>2, <1>3, <1>4

LEMMA ReaperStepKeeps ==
  ASSUME ReaperInv, ReaperStep
  PROVE  ReaperInv'
  BY ListKeeps, TermKeeps, LookKeeps, KillKeeps, LoopKeeps DEF ReaperStep

--------------------------------------------------------------------------------
(* The bridge.                                                             *)

Labels == Untrapped \cup Trapped \cup Reset \cup Over

\* Before the subshell is started; once its pid has been forgotten for good;
\* once the launcher has been waited for; once the timer has been ended.
BeforeWatch == Untrapped \cup {"findSteam", "readOffset", "startWatch"}
AfterWatch == {"resetTrap", "ended"} \cup Reset
AfterTimer ==
  {"drainTest", "drainStart", "setDrainPid", "drainCheck", "drainWait",
   "drainEnd", "poll", "stopWatch"} \cup AfterWatch
AfterWait == {"killTimer"} \cup AfterTimer

\* What the bridge's position says of what it has started.
Control ==
  /\ bpc \in Labels
  /\ watcherPid \in BOOLEAN
  /\ watcherPid => bpc \notin BeforeWatch
  /\ bpc \in AfterWait => child = "dead"
  /\ bpc \in AfterTimer => timer # "armed"
  /\ Watching => /\ bpc \notin BeforeWatch
                 /\ bpc \notin AfterWatch
                 /\ watcherPid \/ bpc \in {"setWatcherPid", "killed"}
  /\ killer # "watcher"

LEMMA ControlInit == Init => Control
  BY DEF Init, Control, Labels, Untrapped, Watching, BeforeWatch, AfterWatch,
         AfterTimer, AfterWait, Reset

\* The steps of the bridge before the launcher has ended.
LEMMA ControlLaunch ==
  ASSUME Control,
         \/ StartChild \/ SetTrap \/ FindSteam \/ ReadOffset \/ StartWatch
         \/ SetWatcherPid \/ BeginWait \/ WaitChild \/ Waited
  PROVE  Control'
  <1> USE DEF Goto, Control, Labels, Untrapped, Trapped, Reset, Watching,
              BeforeWatch, AfterWatch, AfterTimer, AfterWait,
              processEnv, bridgeVars, receiptVars, watchVars, signalVars
  <1>1. CASE StartChild
    BY <1>1 DEF StartChild
  <1>2. CASE SetTrap
    BY <1>2 DEF SetTrap
  <1>3. CASE FindSteam
    BY <1>3 DEF FindSteam
  <1>4. CASE ReadOffset
    BY <1>4 DEF ReadOffset
  <1>5. CASE StartWatch
    BY <1>5 DEF StartWatch
  <1>6. CASE SetWatcherPid
    BY <1>6 DEF SetWatcherPid
  <1>7. CASE BeginWait
    BY <1>7 DEF BeginWait
  <1>8. CASE WaitChild
    BY <1>8 DEF WaitChild
  <1>9. CASE Waited
    BY <1>9 DEF Waited
  <1> QED
    BY <1>1, <1>2, <1>3, <1>4, <1>5, <1>6, <1>7, <1>8, <1>9

\* The steps up to the end of the watch.
LEMMA ControlDrain ==
  ASSUME Control,
         \/ KillTimer \/ DrainTest \/ DrainStart \/ SetDrainPid \/ DrainCheck
         \/ DrainWait \/ DrainEnd \/ Poll \/ StopWatch
  PROVE  Control'
  <1> USE DEF Goto, Control, Labels, Untrapped, Trapped, Reset, Watching,
              BeforeWatch, AfterWatch, AfterTimer, AfterWait,
              processEnv, bridgeVars, receiptVars, watchVars, signalVars
  <1>1. CASE KillTimer
    BY <1>1 DEF KillTimer
  <1>2. CASE DrainTest
    BY <1>2 DEF DrainTest
  <1>3. CASE DrainStart
    BY <1>3 DEF DrainStart
  <1>4. CASE SetDrainPid
    BY <1>4 DEF SetDrainPid
  <1>5. CASE DrainCheck
    BY <1>5 DEF DrainCheck
  <1>6. CASE DrainWait
    BY <1>6 DEF DrainWait
  <1>7. CASE DrainEnd
    BY <1>7 DEF DrainEnd
  <1>8. CASE Poll
    BY <1>8 DEF Poll
  <1>9. CASE StopWatch
    BY <1>9 DEF StopWatch, StopWatcher, WatcherGone
  <1> QED
    BY <1>1, <1>2, <1>3, <1>4, <1>5, <1>6, <1>7, <1>8, <1>9

\* The cleanup.
LEMMA ControlCleanup ==
  ASSUME Control,
         \/ ResetTrap \/ BridgeStartsReaper \/ ReaperReturns
         \/ LookAtCommands \/ ListSuspects
               \/ AskLsof \/ LsofEnd \/ WriteReceipt \/ RemoveMarkers
  PROVE  Control'
  <1> USE DEF Goto, Control, Labels, Untrapped, Trapped, Reset, Over, Watching,
              BeforeWatch, AfterWatch, AfterTimer, AfterWait,
              processEnv, bridgeVars, receiptVars, watchVars, signalVars
  <1>1. CASE ResetTrap
    BY <1>1 DEF ResetTrap
  <1>2. CASE BridgeStartsReaper
    BY <1>2 DEF BridgeStartsReaper
  <1>3. CASE ReaperReturns
    BY <1>3 DEF ReaperReturns
  <1>4. CASE LookAtCommands
    BY <1>4 DEF LookAtCommands
  <1>5. CASE ListSuspects \/ AskLsof \/ LsofEnd
    BY <1>5 DEF ListSuspects, AskLsof, LsofEnd
  <1>6. CASE WriteReceipt
    BY <1>6 DEF WriteReceipt
  <1>7. CASE RemoveMarkers
    BY <1>7 DEF RemoveMarkers
  <1> QED
    BY <1>1, <1>2, <1>3, <1>4, <1>5, <1>6, <1>7

\* The handler forgets the subshell's pid only with the subshell.
LEMMA ControlForward ==
  ASSUME Control, ForwardSignal
  PROVE  Control'
  <1>1. /\ UNCHANGED <<child, timer, killer>>
        /\ watcher' = IF watcherPid THEN "gone" ELSE watcher
        /\ watcherPid' = FALSE
        /\ bpc \in Trapped
        /\ \/ bpc' = bpc
           \/ bpc = "waitChild" /\ bpc' = "waited"
           \/ bpc = "drainWait" /\ bpc' = "drainEnd"
    BY DEF ForwardSignal, StopWatcher, WatcherGone, watchVars
  <1> QED
    BY <1>1 DEF Control, Labels, Untrapped, Trapped, Reset, Over, Watching,
                BeforeWatch, AfterWatch, AfterTimer, AfterWait

\* The watching subshell.
LEMMA ControlWatch ==
  ASSUME Control, WatchStep
  PROVE  Control'
  <1>1. UNCHANGED <<child, timer, watcherPid>>
    BY DEF WatchStep, WatchLeave, WatchSteamGone, WatchLook, WatchTail,
       WatchStop,
           WatchUnchanged, processEnv, bridgeVars, receiptVars
  <1>2. CASE WatchStop
    <2>1. Watching /\ ~Watching'
      BY <1>2 DEF WatchStop, WatcherGone, Watching
    <2>2. bpc \in Trapped \cup Over
      BY <2>1 DEF Control, Labels, BeforeWatch, AfterWatch
    <2>3. UNCHANGED <<bpc, killer>>
      BY <1>2, <2>2 DEF WatchStop, Deliver
    <2> QED
      BY <1>1, <2>1, <2>3 DEF Control
  <1>3. CASE WatchLeave \/ WatchSteamGone \/ WatchLook \/ WatchTail
    <2>1. UNCHANGED <<bpc, killer>> /\ Watching
      BY <1>3 DEF WatchLeave, WatchSteamGone, WatchLook, WatchTail, Watching
    <2> QED
      BY <1>1, <2>1 DEF Control
  <1> QED
    BY <1>2, <1>3 DEF WatchStep

\* Everything around the bridge: only a signal from outside touches it.
LEMMA ControlOthers ==
  ASSUME Control, ReaperRuns \/ TimerFires \/ DrainTermed \/ Environment
  PROVE  Control'
  <1>1. UNCHANGED <<watcher, watcherPid>>
    BY DEF ReaperRuns, TimerFires, DrainTermed, Environment, SignalBridge,
           ChildExit, DrainExits, Processes, ReapByHand, SteamLog, SteamExit,
       SteamStart,
           sessionVars, bridgeVars, receiptVars, watchVars
  <1>2. child' \in {child, "dead"} /\ timer' \in {timer, "dead"}
    BY DEF ReaperRuns, TimerFires, DrainTermed, Environment, SignalBridge,
           ChildExit, DrainExits, Processes, ReapByHand, SteamLog, SteamExit,
       SteamStart,
           sessionVars, processEnv
  <1>3. \/ UNCHANGED <<bpc, killer>>
        \/ bpc' = "killed" /\ killer' = "outside"
    BY DEF ReaperRuns, TimerFires, DrainTermed, Environment, SignalBridge,
       Deliver,
           ChildExit, DrainExits, Processes, ReapByHand, SteamLog, SteamExit,
       SteamStart,
           sessionVars, signalVars
  <1> QED
    BY <1>1, <1>2, <1>3
       DEF Control, Labels, Over, Watching, Untrapped, Reset,
           BeforeWatch, AfterWatch, AfterTimer, AfterWait

LEMMA ControlNext ==
  ASSUME Control, [Next]_vars
  PROVE  Control'
  <1>1. CASE BridgeStep
    BY <1>1, ControlLaunch, ControlDrain, ControlCleanup, ControlForward
       DEF BridgeStep
  <1>2. CASE UNCHANGED vars
    BY <1>2 DEF vars, sessionVars, processEnv, bridgeVars, receiptVars,
       watchVars, signalVars,
                Control, Watching
  <1> QED
    BY <1>1, <1>2, ControlWatch, ControlOthers DEF Next

\* The bridge that has ended normally has ended what it started.
THEOREM SessionIsOrderly == Spec => []NothingLeftBehind
  <1>1. Control => NothingLeftBehind
    BY DEF Control, NothingLeftBehind, AfterWait, AfterTimer, AfterWatch
  <1> QED
    BY <1>1, ControlInit, ControlNext, PTL DEF Spec

\* The subshell that reports Steam's stop never hits a bridge without its trap.
THEOREM WatcherIsHarmless == Spec => []WatcherNeverKills
  <1>1. Control => WatcherNeverKills
    BY DEF Control, WatcherNeverKills, AfterWait, AfterTimer, AfterWatch
  <1> QED
    BY <1>1, ControlInit, ControlNext, PTL DEF Spec

--------------------------------------------------------------------------------

(* What was left in the prefix.                                             *)

\* What ran in the prefix when the reaper returned is among what lsof has still
\* to be asked about, unless something has been found.
Survivors ==
  /\ proc \in [Pids -> Kinds \cup {"free"}]
  /\ survivors \subseteq Alive(Session)
  /\ bpc = "lsof" /\ prefixClean => survivors \subseteq suspects
  /\ bpc = "receipt" /\ prefixClean => survivors = {}
  /\ receipt.clean => survivors = {} /\ bpc \in {"removeMarkers"} \cup Over

LEMMA SurvivorsInit == Init => Survivors
  <1>1. Kinds \ Session \subseteq Kinds
    OBVIOUS
  <1> QED
    BY <1>1 DEF Init, ReaperInit, Survivors, NoReceipt

\* Nothing that comes to run after the reaper has returned is a survivor.
LEMMA ProcessesOutlived ==
  ASSUME Survivors, ReaperStep \/ ProcessExit \/ (\E up : ProcessStart(up))
  PROVE  /\ proc' \in [Pids -> Kinds \cup {"free"}]
         /\ survivors' \subseteq survivors
         /\ survivors' \subseteq Alive(Session)'
  <1>1. ASSUME NEW S, EndAll(S)
        PROVE  /\ proc' \in [Pids -> Kinds \cup {"free"}]
               /\ survivors' \subseteq survivors
               /\ survivors' \subseteq Alive(Session)'
    BY <1>1 DEF EndAll, Survivors, Alive
  <1>2. CASE ReaperStep
    <2>1. UNCHANGED <<proc, survivors>> \/ \E S : EndAll(S)
      BY <1>2 DEF ReaperStep, ListHelpers, ListGames, StopServer, Look, Term,
         Kill,
         LoopEnd, processVars
    <2> QED
      BY <1>1, <2>1 DEF Survivors, Alive
  <1>3. CASE ProcessExit
    BY <1>1, <1>3 DEF ProcessExit
  <1>4. CASE \E up : ProcessStart(up)
    <2>1. PICK p \in Pids, k \in Kinds :
            /\ proc[p] = "free"
            /\ proc' = [proc EXCEPT ![p] = k]
            /\ UNCHANGED survivors
      BY <1>4 DEF ProcessStart, Alive
    <2>2. "free" \notin Session
      BY ProcessAssumption DEF Session, AllGameKinds
    <2> QED
      BY <2>1, <2>2 DEF Survivors, Alive
  <1> QED
    BY <1>2, <1>3, <1>4

\* A step around the bridge.
LEMMA SurvivorsAround ==
  ASSUME Survivors, proc' \in [Pids -> Kinds \cup {"free"}],
         survivors' \subseteq survivors, survivors' \subseteq Alive(Session)',
         UNCHANGED receiptVars,
         bpc' = bpc \/ bpc' = "killed"
  PROVE  Survivors'
  BY DEF Survivors, receiptVars, Over

\* A step of the bridge before it has looked at the prefix.
LEMMA SurvivorsBefore ==
  ASSUME Survivors, bpc \notin {"suspects", "lsof", "receipt", "removeMarkers"} \cup Over,
         bpc' \notin {"lsof", "receipt"}, UNCHANGED <<proc, receipt>>,
         survivors' \in {survivors, Alive(Session)}
  PROVE  Survivors'
  BY DEF Survivors, Alive

LEMMA SurvivorsBridge ==
  ASSUME Survivors, BridgeStep
  PROVE  Survivors'
  <1> USE DEF Goto, Over
  <1>1. CASE ForwardSignal
    <2>1. bpc \notin {"suspects", "lsof", "receipt", "removeMarkers"} \cup Over
      BY <1>1 DEF ForwardSignal, Trapped
    <2>2. bpc' \notin {"lsof", "receipt"} /\ UNCHANGED <<proc, receipt, survivors>>
      BY <1>1, <2>1 DEF ForwardSignal, Trapped, receiptVars, processVars
    <2> QED
      BY <2>1, <2>2, SurvivorsBefore
  <1>2. CASE \/ StartChild \/ SetTrap \/ FindSteam \/ ReadOffset \/ StartWatch
             \/ SetWatcherPid \/ BeginWait \/ WaitChild \/ Waited \/ KillTimer
    BY <1>2, SurvivorsBefore
       DEF StartChild, SetTrap, FindSteam, ReadOffset, StartWatch,
          SetWatcherPid,
           BeginWait, WaitChild, Waited, KillTimer, bridgeVars, receiptVars,
           processVars
  <1>3. CASE \/ DrainTest \/ DrainStart \/ SetDrainPid \/ DrainCheck \/ DrainWait
             \/ DrainEnd \/ Poll \/ StopWatch \/ ResetTrap
    BY <1>3, SurvivorsBefore
       DEF DrainTest, DrainStart, SetDrainPid, DrainCheck, DrainWait, DrainEnd,
           Poll, StopWatch, ResetTrap, bridgeVars, receiptVars, processVars
  <1>4. CASE BridgeStartsReaper \/ ReaperReturns
    BY <1>4, SurvivorsBefore
       DEF BridgeStartsReaper, StartReaper, ReaperReturns, bridgeVars,
          receiptVars,
           processVars
  <1>5. CASE LookAtCommands
    BY <1>5 DEF LookAtCommands, Survivors, processVars, Alive
  <1>6. CASE ListSuspects
    BY <1>6 DEF ListSuspects, Survivors, processVars, Alive
  <1>7. CASE AskLsof
    <2>1. PICK p \in suspects :
            /\ suspects' = suspects \ {p}
            /\ prefixClean' = (prefixClean /\ p \notin Alive(Session))
      BY <1>7 DEF AskLsof
    <2>2. prefixClean' => prefixClean /\ p \notin survivors
      BY <2>1 DEF Survivors
    <2>3. bpc = "lsof" /\ bpc' = "lsof" /\ UNCHANGED <<proc, survivors, receipt>>
      BY <1>7 DEF AskLsof, processVars
    <2> QED
      BY <2>1, <2>2, <2>3 DEF Survivors, Alive
  <1>8. CASE LsofEnd
    BY <1>8 DEF LsofEnd, Survivors, bridgeVars, receiptVars, processVars, Alive
  <1>9. CASE WriteReceipt
    <2>1. receipt'.clean = prefixClean
      BY <1>9 DEF WriteReceipt
    <2> QED
      BY <1>9, <2>1 DEF WriteReceipt, Survivors, processVars, Alive
  <1>10. CASE RemoveMarkers
    BY <1>10 DEF RemoveMarkers, Survivors, bridgeVars, receiptVars,
       processVars, Alive
  <1> QED
    BY <1>1, <1>2, <1>3, <1>4, <1>5, <1>6, <1>7, <1>8, <1>9,
       <1>10 DEF BridgeStep

LEMMA SurvivorsNext ==
  ASSUME Survivors, [Next]_vars
  PROVE  Survivors'
  <1>1. CASE ReaperRuns \/ Processes
    <2>1. UNCHANGED <<bpc, receiptVars>>
      BY <1>1 DEF ReaperRuns, Processes, ReapByHand, sessionVars, bridgeVars,
         receiptVars
    <2>2. ReaperStep \/ ProcessExit \/ \E up : ProcessStart(up)
      BY <1>1 DEF ReaperRuns, Processes
    <2> QED
      BY <2>1, <2>2, ProcessesOutlived, SurvivorsAround
  <1>2. ASSUME \/ WatchStep \/ TimerFires \/ DrainTermed \/ ChildExit \/ DrainExits
               \/ (\E s \in Signals : SignalBridge(s)) \/ ReapByHand
               \/ (\E stop \in BOOLEAN : SteamLog(stop)) \/ SteamExit \/ SteamStart
               \/ UNCHANGED vars
        PROVE  UNCHANGED <<proc, survivors, receiptVars>> /\ bpc' \in {bpc, "killed"}
    <2>1. CASE WatchStep
      BY <2>1 DEF WatchStep, WatchLeave, WatchSteamGone, WatchLook, WatchTail,
         WatchStop, WatchUnchanged, Deliver, bridgeVars, receiptVars,
         processVars
    <2>2. CASE ReapByHand
      BY <2>2 DEF ReapByHand, StartReaper, sessionVars, bridgeVars,
         receiptVars, processVars
    <2>3. CASE \E s \in Signals : SignalBridge(s)
      BY <2>3 DEF SignalBridge, Deliver, bridgeVars, receiptVars, processVars
    <2>4. CASE TimerFires \/ DrainTermed \/ ChildExit \/ DrainExits
      BY <2>4 DEF TimerFires, DrainTermed, ChildExit, DrainExits, bridgeVars,
         receiptVars,
         processVars
    <2> QED
      BY <1>2, <2>1, <2>2, <2>3, <2>4 DEF SteamLog, SteamExit, SteamStart, vars,
         sessionVars, bridgeVars, receiptVars, processVars
  <1>3. CASE UNCHANGED <<proc, survivors, receiptVars>> /\ bpc' \in {bpc, "killed"}
    BY <1>3, SurvivorsAround DEF Survivors, Alive
  <1> QED
    BY <1>1, <1>2, <1>3, SurvivorsBridge DEF Next, Environment

\* A receipt that calls the prefix clean is right about all that ran in it when
\* the reaper returned, whatever ends, starts and takes a pid between the two
\* looks at the processes and lsof.
THEOREM CleanReceiptIsRight == Spec => []SurvivorsAreReported
  <1>1. Survivors => SurvivorsAreReported
    BY DEF Survivors, SurvivorsAreReported
  <1> QED
    BY <1>1, SurvivorsInit, SurvivorsNext, PTL DEF Spec

--------------------------------------------------------------------------------
(* What the receipt says of Steam.                                         *)

\* The lines from number n on, as far as they are there, are of this session.
NewFrom(n) == \A i \in 1..Len(log) : i > n /\ log[i] => asked

\* What the subshell has not read is new; a log that is shorter than what was
\* read has been started again since, so that all of it is.
Unread ==
  /\ NewFrom(watchOffset)
  /\ Len(log) < watchOffset => NewFrom(0)
  /\ watcher = "tail" =>
       watchSize > watchOffset /\ (Len(log) < watchSize => NewFrom(0))

\* The instances of Steam are numbered.
SteamNumbered ==
  /\ steamStarts \in Nat \ {0}
  /\ steam \in {0, steamStarts}
  /\ watchSteam \in 0..steamStarts

Truthful ==
  /\ bpc \notin {"start", "killed"} \/ Watching => child # "none"
  /\ log \in Seq(BOOLEAN) /\ watchOffset \in Nat /\ watchSize \in Nat
  /\ bpc = "startWatch" \/ Watching => Unread
  /\ SteamNumbered
  /\ stopMarker => asked
  /\ exitMarker => steam # 1
  /\ ReceiptIsTrue

LEMMA TruthfulInit == Init => Truthful
  <1> SUFFICES ASSUME Init PROVE Truthful
    OBVIOUS
  <1>1. <<>> \in Seq(BOOLEAN) /\ <<TRUE>> \in Seq(BOOLEAN)
    OBVIOUS
  <1>2. log \in Seq(BOOLEAN)
    BY <1>1 DEF Init
  <1>3. ~receipt.written
    BY DEF Init, NoReceipt
  <1>4. /\ bpc = "start" /\ watcher = "none" /\ watchOffset = 0 /\ watchSize = 0
        /\ steam = 1 /\ steamStarts = 1 /\ watchSteam = 0
        /\ ~stopMarker /\ ~exitMarker
    BY DEF Init
  <1> QED
    BY <1>2, <1>3, <1>4 DEF Truthful, Watching, SteamNumbered, ReceiptIsTrue

\* The subshell ends.
LEMMA TruthfulGone ==
  ASSUME Truthful, WatcherGone, bpc' # "startWatch",
         UNCHANGED <<log, asked, steam, steamStarts, markerVars, receipt, child>>,
         bpc' \notin {"start", "killed"} => bpc \notin {"start", "killed"}
  PROVE  Truthful'
  BY DEF Truthful, WatcherGone, Watching, SteamNumbered, ReceiptIsTrue,
     markerVars

\* A step that leaves alone the log, Steam, the subshell and what it has told.
LEMMA TruthfulSame ==
  ASSUME Truthful,
         UNCHANGED <<log, asked, steam, steamStarts, watchSteam, watchOffset,
                     watchSize, markerVars, receipt>>,
         UNCHANGED watcher,
         bpc' = "startWatch" => bpc = "startWatch",
         bpc' \notin {"start", "killed"} => bpc \notin {"start", "killed"},
         child' = child \/ child' = "dead"
  PROVE  Truthful'
  BY DEF Truthful, Watching, Unread, NewFrom, SteamNumbered, ReceiptIsTrue,
         markerVars

LEMMA TruthfulBridge ==
  ASSUME Control, Truthful, BridgeStep
  PROVE  Truthful'
  <1> USE DEF Goto, processEnv, bridgeVars, receiptVars, watchVars, steamVars, signalVars
  <1>1. CASE StartChild
    BY <1>1 DEF StartChild, Truthful, Watching, Unread, NewFrom, SteamNumbered,
                ReceiptIsTrue, markerVars
  <1>2. CASE FindSteam
    BY <1>2 DEF FindSteam, Control, BeforeWatch, Truthful, Watching, Unread,
                NewFrom, SteamNumbered, ReceiptIsTrue, markerVars
  <1>3. CASE ReadOffset
    <2>1. watchOffset' = Len(log) /\ Len(log) \in Nat /\ ~Watching
      BY <1>3 DEF ReadOffset, Truthful, Control, BeforeWatch
    <2>2. UNCHANGED <<log, asked, watcher>>
      BY <1>3 DEF ReadOffset, watchVars
    <2>3. Unread'
      BY <2>1, <2>2 DEF Unread, NewFrom, Watching
    <2> QED
      BY <1>3, <2>1, <2>3
         DEF ReadOffset, Truthful, Watching, SteamNumbered, ReceiptIsTrue,
             markerVars
  <1>4. CASE StartWatch
    BY <1>4 DEF StartWatch, Truthful, Watching, Unread, NewFrom, SteamNumbered,
                ReceiptIsTrue, markerVars
  <1>5. CASE WriteReceipt
    BY <1>5 DEF WriteReceipt, Truthful, Watching, Unread, NewFrom,
       SteamNumbered,
                ReceiptIsTrue, markerVars
  <1>6. CASE RemoveMarkers
    BY <1>6 DEF RemoveMarkers, Truthful, Watching, Unread, NewFrom,
                SteamNumbered, ReceiptIsTrue
  <1>7. CASE ForwardSignal \/ StopWatch
    <2>1. /\ bpc \in Trapped /\ bpc' \in Trapped
          /\ bpc' = "startWatch" => bpc = "startWatch"
          /\ StopWatcher
          /\ UNCHANGED <<log, asked, steam, steamStarts, markerVars, receipt, child>>
      BY <1>7 DEF ForwardSignal, StopWatch, Trapped
    <2>2. CASE watcherPid
      BY <2>1, <2>2, TruthfulGone DEF StopWatcher, WatcherGone, Control,
         BeforeWatch, Trapped
    <2>3. CASE ~watcherPid
      BY <2>1, <2>3, TruthfulSame DEF StopWatcher, WatcherGone, Trapped
    <2> QED
      BY <2>2, <2>3
  <1>8. CASE SetTrap \/ SetWatcherPid \/ BeginWait \/ WaitChild \/ Waited
    BY <1>8, TruthfulSame DEF SetTrap, SetWatcherPid, BeginWait, WaitChild,
       Waited
  <1>9. CASE KillTimer \/ DrainTest \/ DrainStart \/ SetDrainPid \/ DrainCheck
    BY <1>9, TruthfulSame
       DEF KillTimer, DrainTest, DrainStart, SetDrainPid, DrainCheck
  <1>10. CASE DrainWait \/ DrainEnd \/ Poll \/ ResetTrap
    BY <1>10, TruthfulSame DEF DrainWait, DrainEnd, Poll, ResetTrap
  <1>11. CASE BridgeStartsReaper \/ ReaperReturns \/ LookAtCommands \/ ListSuspects
               \/ AskLsof \/ LsofEnd
    BY <1>11, TruthfulSame DEF BridgeStartsReaper, ReaperReturns,
       LookAtCommands, ListSuspects,
       AskLsof, LsofEnd
  <1> QED
    BY <1>1, <1>2, <1>3, <1>4, <1>5, <1>6, <1>7, <1>8, <1>9, <1>10, <1>11
       DEF BridgeStep

\* The subshell says that Steam asked only of a line nobody had read, and that
\* Steam ended only when the instance of the launch is another one's number.
LEMMA TruthfulWatch ==
  ASSUME Control, Truthful, WatchStep
  PROVE  Truthful'
  <1> USE DEF WatchUnchanged, processEnv, bridgeVars, receiptVars, steamVars
  <1>1. CASE WatchLeave
    BY <1>1, TruthfulGone DEF WatchLeave, BridgeAlive, Over, markerVars
  <1>2. CASE WatchStop
    <2>1. bpc # "startWatch"
      BY <1>2 DEF WatchStop, Control, Watching, BeforeWatch
    <2> QED
      BY <1>2, <2>1, TruthfulGone DEF WatchStop, Deliver, markerVars
  <1>3. CASE WatchSteamGone
    <2>1. steam # 1
      BY <1>3 DEF WatchSteamGone, Truthful, SteamNumbered
    <2> QED
      BY <1>3, <2>1
         DEF WatchSteamGone, Truthful, Watching, Unread, NewFrom, SteamNumbered,
             ReceiptIsTrue
  <1>4. CASE WatchLook
    <2>1. Unread /\ watchOffset \in Nat /\ Len(log) \in Nat
      BY <1>4 DEF WatchLook, Truthful, Watching
    <2>2. UNCHANGED <<log, asked>> /\ watchOffset' \in Nat /\ watchSize' \in Nat
      BY <1>4, <2>1 DEF WatchLook
    <2>3. Unread'
      BY <1>4, <2>1, <2>2 DEF WatchLook, Unread, NewFrom
    <2> QED
      BY <1>4, <2>2, <2>3
         DEF WatchLook, Truthful, Watching, SteamNumbered, ReceiptIsTrue,
             markerVars
  <1>5. CASE WatchTail
    <2>1. /\ Unread /\ watchOffset \in Nat /\ watchSize \in Nat
          /\ Len(log) \in Nat /\ child # "none"
      BY <1>5 DEF WatchTail, Truthful, Watching
    <2>2. UNCHANGED <<log, asked>> /\ watchOffset' \in Nat /\ watchSize' = 0
      BY <1>5, <2>1 DEF WatchTail
    <2>3. StopInTail => asked
      BY <2>1 DEF StopInTail, Unread, NewFrom
    <2>4. CASE StopInTail
      <3>1. Unread'
        BY <1>5, <2>1, <2>2, <2>4 DEF WatchTail, Unread, NewFrom
      <3> QED
        BY <1>5, <2>2, <2>3, <2>4, <3>1
           DEF WatchTail, Truthful, Watching, SteamNumbered, ReceiptIsTrue
    <2>5. CASE ~StopInTail
      <3>1. \A i \in 1..Len(log) : i > watchOffset => ~log[i]
        BY <2>1, <2>5 DEF StopInTail
      <3>2. watchSize > watchOffset /\ (Len(log) < watchSize => NewFrom(0))
        BY <1>5, <2>1 DEF WatchTail, Unread
      <3>3. watchOffset' = watchSize /\ watcher' = "look"
        BY <1>5, <2>5 DEF WatchTail
      <3>4. Unread'
        BY <2>1, <2>2, <3>1, <3>2, <3>3 DEF Unread, NewFrom
      <3>5. /\ UNCHANGED <<bpc, child, watchSteam, steam, steamStarts,
                             exitMarker, receipt>>
            /\ stopMarker' => stopMarker
        BY <1>5, <2>5 DEF WatchTail
      <3> QED
        BY <2>1, <2>2, <3>3, <3>4, <3>5
           DEF Truthful, Watching, SteamNumbered, ReceiptIsTrue
    <2> QED
      BY <2>4, <2>5
  <1> QED
    BY <1>1, <1>2, <1>3, <1>4, <1>5 DEF WatchStep

LEMMA TruthfulOthers ==
  ASSUME Truthful,
         ReaperRuns \/ TimerFires \/ DrainTermed \/ Environment \/ UNCHANGED vars
  PROVE  Truthful'
  <1> USE DEF processEnv, bridgeVars, receiptVars, watchVars, steamVars, signalVars
  <1>1. CASE ReaperRuns \/ Processes \/ ReapByHand \/ UNCHANGED vars
    BY <1>1, TruthfulSame DEF ReaperRuns, Processes, ReapByHand, vars,
       sessionVars
  <1>2. CASE TimerFires \/ DrainTermed \/ ChildExit \/ DrainExits
    BY <1>2, TruthfulSame DEF TimerFires, DrainTermed, ChildExit, DrainExits
  <1>3. CASE \E s \in Signals : SignalBridge(s)
    BY <1>3, TruthfulSame DEF SignalBridge, Deliver
  <1>4. CASE \E stop \in BOOLEAN : SteamLog(stop)
    <2>1. PICK stop \in BOOLEAN : SteamLog(stop)
      BY <1>4
    <2>2. log \in Seq(BOOLEAN) /\ log' = Append(log, stop)
      BY <2>1 DEF SteamLog, Truthful
    <2>3. /\ log' \in Seq(BOOLEAN) /\ Len(log') = Len(log) + 1 /\ Len(log) \in Nat
          /\ \A i \in 1..Len(log) : log'[i] = log[i]
          /\ log'[Len(log) + 1] = stop
      BY <2>2
    <2>4. asked' = (asked \/ (stop /\ child # "none"))
      BY <2>1 DEF SteamLog
    <2>5. ASSUME NEW n \in Nat, NewFrom(n), child # "none"
          PROVE  \A i \in 1..Len(log') : i > n /\ log'[i] => asked'
      BY <2>3, <2>4, <2>5 DEF NewFrom
    <2>6. ASSUME Unread, child # "none", watchOffset \in Nat, watchSize \in Nat
          PROVE  Unread'
      <3>1. UNCHANGED <<watcher, watchOffset, watchSize>>
        BY <2>1 DEF SteamLog
      <3>2. NewFrom(watchOffset)'
        BY <2>5, <2>6, <3>1 DEF Unread, NewFrom
      <3>3. NewFrom(0) => NewFrom(0)'
        BY <2>5, <2>6 DEF NewFrom
      <3> QED
        BY <2>3, <2>6, <3>1, <3>2, <3>3 DEF Unread
    <2>7. UNCHANGED <<bpc, child, watcher, watchSteam, watchOffset, watchSize,
                      markerVars, receipt, steam, steamStarts>>
      BY <2>1 DEF SteamLog
    <2> QED
      BY <2>3, <2>4, <2>6, <2>7
         DEF Truthful, Watching, SteamNumbered, ReceiptIsTrue, markerVars
  <1>5. CASE SteamExit
    BY <1>5 DEF SteamExit, Truthful, Watching, Unread, NewFrom, SteamNumbered,
                ReceiptIsTrue, markerVars
  <1>6. CASE SteamStart
    <2>1. steam' # 1 /\ SteamNumbered'
      BY <1>6 DEF SteamStart, Truthful, SteamNumbered
    <2>2. log' \in {log, <<>>} /\ UNCHANGED <<asked, watcher, watchOffset, watchSize>>
      BY <1>6 DEF SteamStart
    <2>3. CASE log' = <<>>
      <3>1. <<>> \in Seq(BOOLEAN) /\ Len(<<>>) = 0
        OBVIOUS
      <3>2. \A n : NewFrom(n)'
        BY <2>3, <3>1 DEF NewFrom
      <3>3. Unread => Unread'
        BY <2>2, <3>2 DEF Unread
      <3> QED
        BY <1>6, <2>1, <2>2, <2>3, <3>1, <3>3
           DEF SteamStart, Truthful, Watching, ReceiptIsTrue, markerVars
    <2>4. CASE log' = log
      <3>1. Unread => Unread'
        BY <2>2, <2>4 DEF Unread, NewFrom
      <3> QED
        BY <1>6, <2>1, <2>2, <2>4, <3>1
           DEF SteamStart, Truthful, Watching, ReceiptIsTrue, markerVars
    <2> QED
      BY <2>2, <2>3, <2>4
  <1> QED
    BY <1>1, <1>2, <1>3, <1>4, <1>5, <1>6 DEF Environment

\* What the receipt says of Steam is true, however often the client was started
\* again and its log begun anew while the bridge read it.
THEOREM ReceiptTellsTheTruth == Spec => []ReceiptIsTrue
  <1>1. Init => Control /\ Truthful
    BY ControlInit, TruthfulInit
  <1>2. (Control /\ Truthful) /\ [Next]_vars => (Control /\ Truthful)'
    BY ControlNext, TruthfulBridge, TruthfulWatch, TruthfulOthers DEF Next
  <1>3. Control /\ Truthful => ReceiptIsTrue
    BY DEF Truthful
  <1> QED
    BY <1>1, <1>2, <1>3, PTL DEF Spec

--------------------------------------------------------------------------------
(* The reaper in the session.                                               *)

LEMMA SessionReaperInit == Init => ReaperInv
  <1>1. Kinds \ Session \subseteq Kinds
    OBVIOUS
  <1> QED
    BY <1>1 DEF Init, ReaperInit, ReaperInv, ReaperTyped, Listed, Progress

LEMMA SessionReaperNext ==
  ASSUME ReaperInv, [Next]_vars
  PROVE  ReaperInv'
  <1>1. CASE ReaperRuns
    BY <1>1, ReaperStepKeeps DEF ReaperRuns
  <1>2. CASE Processes
    BY <1>2, ProcessesKeep DEF Processes
  <1>3. CASE BridgeStartsReaper \/ ReapByHand
    BY <1>3, ListKeeps DEF BridgeStartsReaper, ReapByHand
  <1>4. CASE ReaperReturns
    BY <1>4 DEF ReaperReturns, ReaperInv, ReaperTyped, Listed, Progress, Alive,
                reaperVars, listVars
  <1>5. CASE UNCHANGED reaperEnv
    BY <1>5 DEF reaperEnv, reaperVars, listVars, processVars, ReaperInv,
                ReaperTyped, Listed, Progress, Alive
  <1>6. ASSUME \/ ForwardSignal
               \/ StartChild \/ SetTrap \/ FindSteam \/ ReadOffset \/ StartWatch
               \/ SetWatcherPid \/ BeginWait \/ WaitChild \/ Waited \/ KillTimer
               \/ DrainTest \/ DrainStart \/ SetDrainPid \/ DrainCheck
               \/ DrainWait \/ DrainEnd \/ Poll \/ StopWatch \/ ResetTrap
               \/ LookAtCommands \/ ListSuspects
               \/ AskLsof \/ LsofEnd \/ WriteReceipt \/ RemoveMarkers
        PROVE  UNCHANGED reaperEnv
    BY <1>6 DEF ForwardSignal, StartChild, SetTrap, FindSteam, ReadOffset,
         StartWatch, SetWatcherPid, BeginWait, WaitChild, Waited, KillTimer,
         DrainTest, DrainStart, SetDrainPid, DrainCheck, DrainWait, DrainEnd,
         Poll, StopWatch, ResetTrap, LookAtCommands, ListSuspects, AskLsof,
       LsofEnd, WriteReceipt, RemoveMarkers,
         reaperEnv
  <1>7. ASSUME \/ WatchStep \/ TimerFires \/ DrainTermed \/ ChildExit \/ DrainExits
               \/ (\E s \in Signals : SignalBridge(s))
               \/ (\E stop \in BOOLEAN : SteamLog(stop)) \/ SteamExit \/ SteamStart
               \/ UNCHANGED vars
        PROVE  UNCHANGED reaperEnv
    BY <1>7 DEF WatchStep, WatchLeave, WatchSteamGone, WatchLook, WatchTail,
         WatchStop, WatchUnchanged, TimerFires, DrainTermed, ChildExit,
         DrainExits, SignalBridge, SteamLog, SteamExit, SteamStart, vars,
         reaperEnv
  <1> QED
    BY <1>1, <1>2, <1>3, <1>4, <1>5, <1>6, <1>7 DEF Next, BridgeStep,
       Environment

LEMMA SessionReaperHolds == Spec => []ReaperInv
  BY SessionReaperInit, SessionReaperNext, PTL DEF Spec

\* When ullage-reap is done, nothing it had listed is running: neither the pids
\* that were reused nor what wineserver did or left undone lets one through,
\* with the bridge, Steam and the signals around it.
THEOREM SessionReaperEndsListed == Spec => []ListedAreGone
  <1>1. ReaperInv => ListedAreGone
    BY DEF ReaperInv, Progress, ListedAreGone
  <1> QED
    BY <1>1, SessionReaperHolds, PTL

--------------------------------------------------------------------------------
(* The types.                                                              *)

LEMMA EndAllTyped ==
  ASSUME ProcessesTypeOK, NEW S, EndAll(S)
  PROVE  ProcessesTypeOK'
  BY DEF ProcessesTypeOK, EndAll

LEMMA ProcessTyped ==
  ASSUME ProcessesTypeOK, ProcessExit \/ \E up : ProcessStart(up)
  PROVE  ProcessesTypeOK'
  <1>1. ASSUME ProcessExit
        PROVE  ProcessesTypeOK'
    BY <1>1, EndAllTyped DEF ProcessExit
  <1>2. ASSUME NEW up, ProcessStart(up)
        PROVE  ProcessesTypeOK'
    BY <1>2 DEF ProcessStart, ProcessesTypeOK
  <1> QED
    BY <1>1, <1>2

\* What is left of a loop's pids is of the list the loop is about.
LEMMA ReaperStepTyped ==
  ASSUME ReaperTypeOK, ReaperStep
  PROVE  ReaperTypeOK'
  <1> USE DEF ReaperTypeOK, ReaperLabels, Loops, listVars
  <1>1. CASE ListHelpers
    BY <1>1 DEF ListHelpers, ProcessesTypeOK, Alive
  <1>2. CASE ListGames
    BY <1>2 DEF ListGames, ProcessesTypeOK, Alive
  <1>3. CASE StopServer
    BY <1>3, EndAllTyped DEF StopServer
  <1>4. CASE \/ Term("termHelpers") \/ Term("termGames")
             \/ Kill("killHelpers") \/ Kill("killGames")
    <2>1. ProcessesTypeOK'
      BY <1>4, EndAllTyped DEF Term, Kill
    <2> QED
      BY <1>4, <2>1 DEF Term, Kill
  <1>5. CASE \/ Look("termHelpers", {"helper"}) \/ Look("killHelpers", {"helper"})
             \/ Look("termGames", ReaperSees) \/ Look("killGames", ReaperSees)
    BY <1>5 DEF Look, processVars, ProcessesTypeOK
  <1>6. CASE \/ LoopEnd("termHelpers", "killHelpers", helperPids)
             \/ LoopEnd("killHelpers", "termGames", gamePids)
             \/ LoopEnd("termGames", "killGames", gamePids)
             \/ LoopEnd("killGames", "done", {})
    BY <1>6 DEF LoopEnd, processVars, ProcessesTypeOK
  <1> QED
    BY <1>1, <1>2, <1>3, <1>4, <1>5, <1>6 DEF ReaperStep

\* The rest of the session's type invariant, by what it is about.
BridgeTyped ==
  /\ bpc \in Labels
  /\ pending \in BOOLEAN /\ signal \in BOOLEAN
  /\ child \in {"none", "running", "dead"}
  /\ timer \in {"none", "armed", "dead"}
  /\ drain \in {"none", "running", "termed", "dead"}
  /\ drainPid \in BOOLEAN
  /\ drainPid => bpc \in {"drainCheck", "drainWait", "drainEnd"} \cup Over
  /\ signalsSent \in 0..MaxSignals
  /\ killer \in {"none", "outside", "watcher"}

WatchTyped ==
  /\ watcher \in {"none", "look", "tail", "stop", "gone"}
  /\ watcherPid \in BOOLEAN
  /\ watchSteam \in 0..MaxSteam
  /\ watchOffset \in 0..MaxLog
  /\ watchSize \in 0..MaxLog

SteamTyped ==
  /\ steam \in 0..MaxSteam
  /\ steamStarts \in 1..MaxSteam
  /\ log \in Seq(BOOLEAN) /\ Len(log) <= MaxLog
  /\ asked \in BOOLEAN

ReceiptTyped ==
  /\ stopMarker \in BOOLEAN /\ exitMarker \in BOOLEAN
  /\ suspects \subseteq Pids
  /\ prefixClean \in BOOLEAN
  /\ receipt \in [written : BOOLEAN, signal : BOOLEAN, nativeStop : BOOLEAN,
                  steamExit : BOOLEAN, clean : BOOLEAN]

SessionTyped == BridgeTyped /\ WatchTyped /\ SteamTyped /\ ReceiptTyped

LEMMA TypedParts == TypeOK <=> ReaperTypeOK /\ SessionTyped
  BY DEF TypeOK, SessionTyped, BridgeTyped, WatchTyped, SteamTyped,
     ReceiptTyped,
         Labels

LEMMA TypedInit == Init => TypeOK
  <1> SUFFICES ASSUME Init PROVE ReaperTypeOK /\ SessionTyped
    BY TypedParts
  <1>0. 0 \in 0..MaxSignals /\ 0 \in 0..MaxSteam /\ 1 \in 0..MaxSteam
        /\ 1 \in 1..MaxSteam /\ 0 \in 0..MaxLog
    BY BridgeAssumption
  <1>1. ReaperTypeOK
    <2>1. proc \in [Pids -> Kinds \cup {"free"}]
      BY DEF Init
    <2> QED
      BY <2>1 DEF Init, ReaperInit, ReaperTypeOK, ReaperLabels, ProcessesTypeOK
  <1>2. BridgeTyped
    BY <1>0 DEF Init, BridgeTyped, Labels, Untrapped
  <1>3. WatchTyped
    BY <1>0 DEF Init, WatchTyped
  <1>4. SteamTyped
    <2>1. <<>> \in Seq(BOOLEAN) /\ <<TRUE>> \in Seq(BOOLEAN)
      OBVIOUS
    <2>2. log \in Seq(BOOLEAN) /\ Len(log) <= MaxLog
      BY <2>1 DEF Init
    <2>3. steam = 1 /\ steamStarts = 1 /\ asked = FALSE
      BY DEF Init
    <2> QED
      BY <1>0, <2>2, <2>3 DEF SteamTyped
  <1>5. ReceiptTyped
    BY DEF Init, ReceiptTyped, NoReceipt
  <1> QED
    BY <1>1, <1>2, <1>3, <1>4, <1>5 DEF SessionTyped

\* Each part of the invariant has the steps that touch it, and one case for the
\* others.
LEMMA BridgeTypedNext ==
  ASSUME SessionTyped, [Next]_vars
  PROVE  BridgeTyped'
  <1> USE DEF SessionTyped, BridgeTyped, Goto, Labels, Untrapped, Trapped, Reset,
              Over, processEnv, bridgeVars, receiptVars, signalVars
  <1>1. CASE StartChild \/ SetTrap \/ FindSteam \/ ReadOffset \/ StartWatch
    BY <1>1 DEF StartChild, SetTrap, FindSteam, ReadOffset, StartWatch
  <1>2. CASE SetWatcherPid \/ BeginWait \/ WaitChild \/ Waited \/ KillTimer
    BY <1>2 DEF SetWatcherPid, BeginWait, WaitChild, Waited, KillTimer
  <1>3. CASE DrainTest \/ DrainStart \/ DrainCheck \/ DrainWait
    BY <1>3 DEF DrainTest, DrainStart, DrainCheck, DrainWait
  <1>4. CASE SetDrainPid \/ DrainEnd
    <2>1. /\ UNCHANGED <<pending, signal, child, timer, drain, signalsSent, killer>>
          /\ \/ drainPid' = TRUE /\ bpc' = "drainCheck"
             \/ drainPid' = FALSE /\ bpc' = "poll"
      BY <1>4 DEF SetDrainPid, DrainEnd
    <2> QED
      BY <2>1
  <1>5. CASE ReaperReturns \/ LookAtCommands \/ ListSuspects
               \/ AskLsof \/ LsofEnd \/ WriteReceipt \/ RemoveMarkers
    BY <1>5 DEF ReaperReturns, LookAtCommands, ListSuspects, AskLsof, LsofEnd,
       WriteReceipt, RemoveMarkers
  <1>6. CASE ForwardSignal
    BY <1>6 DEF ForwardSignal
  <1>7. CASE \E s \in Signals : SignalBridge(s)
    <2>1. PICK s \in Signals : SignalBridge(s)
      BY <1>7
    <2>2. signalsSent' \in 0..MaxSignals
      BY <2>1, BridgeAssumption DEF SignalBridge
    <2>3. UNCHANGED <<signal, child, timer, drain, drainPid>>
      BY <2>1 DEF SignalBridge
    <2>4. \/ bpc' = "killed" /\ killer' = "outside" /\ pending' = pending
          \/ UNCHANGED <<bpc, killer>> /\ pending' \in {TRUE, pending}
      BY <2>1 DEF SignalBridge, Deliver
    <2>5. pending' \in BOOLEAN
      BY <2>4
    <2>6. drainPid => bpc' \in {"drainCheck", "drainWait", "drainEnd"} \cup Over
      BY <2>4
    <2>7. bpc' \in Labels /\ killer' \in {"none", "outside", "watcher"}
      BY <2>4
    <2> QED
      BY <2>2, <2>3, <2>5, <2>6, <2>7
  <1>8. CASE WatchStep
    <2>1. UNCHANGED <<signal, child, timer, drain, drainPid, signalsSent>>
      BY <1>8 DEF WatchStep, WatchLeave, WatchSteamGone, WatchLook, WatchTail,
         WatchStop, WatchUnchanged
    <2>2. UNCHANGED <<bpc, pending, killer>> \/ Deliver("watcher")
      BY <1>8 DEF WatchStep, WatchLeave, WatchSteamGone, WatchLook, WatchTail,
         WatchStop
    <2>3. \/ bpc' = "killed" /\ killer' = "watcher" /\ pending' = pending
          \/ UNCHANGED <<bpc, killer>> /\ pending' \in {TRUE, pending}
      BY <2>2 DEF Deliver
    <2>4. pending' \in BOOLEAN
      BY <2>3
    <2>5. drainPid => bpc' \in {"drainCheck", "drainWait", "drainEnd"} \cup Over
      BY <2>3
    <2>6. bpc' \in Labels /\ killer' \in {"none", "outside", "watcher"}
      BY <2>3
    <2> QED
      BY <2>1, <2>4, <2>5, <2>6
  <1>9. CASE TimerFires \/ DrainTermed \/ ChildExit \/ DrainExits
    BY <1>9 DEF TimerFires, DrainTermed, ChildExit, DrainExits
  <1>10. CASE \/ ReaperRuns \/ Processes \/ ReapByHand \/ UNCHANGED vars \/ SteamExit
              \/ SteamStart
              \/ \E stop \in BOOLEAN : SteamLog(stop)
    <2>1. UNCHANGED <<bpc, processEnv, bridgeVars, signalVars>>
      BY <1>10 DEF ReaperRuns, Processes, ReapByHand, vars, sessionVars,
         SteamExit, SteamStart,
         SteamLog
    <2> QED
      BY <2>1
  <1>11. CASE Poll \/ StopWatch \/ ResetTrap \/ BridgeStartsReaper
    BY <1>11 DEF Poll, StopWatch, ResetTrap, BridgeStartsReaper
  <1> QED
    BY <1>1, <1>2, <1>3, <1>4, <1>5, <1>6, <1>7, <1>8, <1>9, <1>10, <1>11
       DEF Next, BridgeStep, Environment

LEMMA WatchTypedNext ==
  ASSUME SessionTyped, [Next]_vars
  PROVE  WatchTyped'
  <1> USE DEF SessionTyped, WatchTyped, bridgeVars, receiptVars, watchVars
  <1>1. log \in Seq(BOOLEAN) /\ Len(log) \in 0..MaxLog /\ steam \in 0..MaxSteam
    BY BridgeAssumption DEF SteamTyped
  <1>2. CASE FindSteam \/ ReadOffset
    BY <1>1, <1>2 DEF FindSteam, ReadOffset
  <1>3. CASE StartWatch \/ SetWatcherPid
    BY <1>3 DEF StartWatch, SetWatcherPid
  <1>4. CASE StopWatch \/ ForwardSignal
    <2>1. 0 \in 0..MaxSteam /\ 0 \in 0..MaxLog
      BY BridgeAssumption
    <2>2. /\ watcherPid' = FALSE
          /\ WatcherGone \/ UNCHANGED watchVars
      BY <1>4 DEF StopWatch, ForwardSignal, StopWatcher
    <2> QED
      BY <2>1, <2>2 DEF WatcherGone
  <1>5. CASE WatchLook
    <2>1. 0 \in 0..MaxLog
      BY BridgeAssumption
    <2> QED
      BY <1>1, <1>5, <2>1 DEF WatchLook, WatchUnchanged
  <1>6. CASE WatchLeave \/ WatchSteamGone \/ WatchStop
    <2>1. 0 \in 0..MaxSteam /\ 0 \in 0..MaxLog
      BY BridgeAssumption
    <2>2. /\ UNCHANGED watcherPid
          /\ \/ WatcherGone
             \/ watcher' = "stop" /\ UNCHANGED <<watchSteam, watchOffset, watchSize>>
      BY <1>6 DEF WatchLeave, WatchSteamGone, WatchStop, WatchUnchanged
    <2> QED
      BY <2>1, <2>2 DEF WatcherGone
  <1>7. CASE WatchTail
    <2>1. 0 \in 0..MaxLog
      BY BridgeAssumption
    <2> QED
      BY <1>7, <2>1 DEF WatchTail, WatchUnchanged
  <1>8. ASSUME \/ StartChild \/ SetTrap \/ BeginWait \/ WaitChild \/ Waited
               \/ KillTimer \/ DrainTest \/ DrainStart \/ SetDrainPid \/ DrainCheck
               \/ DrainWait \/ DrainEnd \/ Poll \/ ResetTrap \/ BridgeStartsReaper
               \/ ReaperReturns \/ LookAtCommands \/ ListSuspects
               \/ AskLsof \/ LsofEnd \/ WriteReceipt \/ RemoveMarkers
        PROVE  UNCHANGED <<watcherPid, watchVars>>
    BY <1>8 DEF StartChild, SetTrap, BeginWait, WaitChild, Waited, KillTimer,
       DrainTest, DrainStart, SetDrainPid, DrainCheck, DrainWait, DrainEnd,
       Poll,
       ResetTrap, BridgeStartsReaper, ReaperReturns, LookAtCommands,
       ListSuspects, AskLsof, LsofEnd, WriteReceipt,
       RemoveMarkers
  <1>9. ASSUME \/ ReaperRuns \/ TimerFires \/ DrainTermed \/ Environment
               \/ UNCHANGED vars
        PROVE  UNCHANGED <<watcherPid, watchVars>>
    BY <1>9 DEF ReaperRuns, TimerFires, DrainTermed, Environment, SignalBridge,
       ChildExit, DrainExits, Processes, ReapByHand, SteamLog, SteamExit,
       SteamStart, vars,
       sessionVars
  <1>10. CASE UNCHANGED <<watcherPid, watchVars>>
    BY <1>10
  <1> QED
    BY <1>2, <1>3, <1>4, <1>5, <1>6, <1>7, <1>8, <1>9, <1>10
       DEF Next, BridgeStep, WatchStep

LEMMA SteamTypedNext ==
  ASSUME SessionTyped, [Next]_vars
  PROVE  SteamTyped'
  <1> USE DEF SessionTyped, SteamTyped, steamVars
  <1>1. CASE \E stop \in BOOLEAN : SteamLog(stop)
    <2>1. PICK stop \in BOOLEAN : SteamLog(stop)
      BY <1>1
    <2>2. log' = Append(log, stop) /\ Len(log) < MaxLog
      BY <2>1 DEF SteamLog
    <2>3. log' \in Seq(BOOLEAN) /\ Len(log') <= MaxLog
      BY <2>2, BridgeAssumption
    <2>4. asked' = (asked \/ (stop /\ child # "none"))
      BY <2>1 DEF SteamLog
    <2>5. asked' \in BOOLEAN
      BY <2>4
    <2>6. UNCHANGED <<steam, steamStarts>>
      BY <2>1 DEF SteamLog
    <2> QED
      BY <2>3, <2>5, <2>6
  <1>2. CASE SteamExit
    <2>1. 0 \in 0..MaxSteam
      BY BridgeAssumption
    <2> QED
      BY <1>2, <2>1 DEF SteamExit
  <1>3. CASE SteamStart
    <2>1. steamStarts + 1 \in 1..MaxSteam /\ steamStarts + 1 \in 0..MaxSteam
      BY <1>3, BridgeAssumption DEF SteamStart
    <2>2. /\ steamStarts' = steamStarts + 1 /\ steam' = steamStarts + 1
          /\ UNCHANGED asked
      BY <1>3 DEF SteamStart
    <2>3. log' \in Seq(BOOLEAN) /\ Len(log') <= MaxLog
      <3>1. <<>> \in Seq(BOOLEAN) /\ Len(<<>>) <= MaxLog
        BY BridgeAssumption
      <3> QED
        BY <1>3, <3>1 DEF SteamStart
    <2> QED
      BY <2>1, <2>2, <2>3
  <1>4. ASSUME BridgeStep
        PROVE  UNCHANGED steamVars
    BY <1>4 DEF BridgeStep, ForwardSignal, StartChild, SetTrap, FindSteam,
       ReadOffset, StartWatch, SetWatcherPid, BeginWait, WaitChild, Waited,
       KillTimer, DrainTest, DrainStart, SetDrainPid, DrainCheck, DrainWait,
       DrainEnd, Poll, StopWatch, ResetTrap, BridgeStartsReaper, ReaperReturns,
       LookAtCommands, ListSuspects, AskLsof, LsofEnd, WriteReceipt,
       RemoveMarkers
  <1>5. ASSUME \/ WatchStep \/ ReaperRuns \/ TimerFires \/ DrainTermed
               \/ (\E s \in Signals : SignalBridge(s))
               \/ ChildExit \/ DrainExits \/ Processes \/ ReapByHand \/ UNCHANGED vars
        PROVE  UNCHANGED steamVars
    BY <1>5 DEF WatchStep, WatchLeave, WatchSteamGone, WatchLook, WatchTail,
       WatchStop, WatchUnchanged, ReaperRuns, TimerFires, DrainTermed,
       SignalBridge, ChildExit, DrainExits, Processes, ReapByHand, vars,
       sessionVars
  <1>6. CASE UNCHANGED steamVars
    BY <1>6
  <1> QED
    BY <1>1, <1>2, <1>3, <1>4, <1>5, <1>6 DEF Next, Environment

LEMMA ReceiptTypedNext ==
  ASSUME SessionTyped, [Next]_vars
  PROVE  ReceiptTyped'
  <1> USE DEF SessionTyped, ReceiptTyped, markerVars, bridgeVars, receiptVars
  <1>1. CASE WriteReceipt
    <2>1. signal \in BOOLEAN
      BY DEF BridgeTyped
    <2> QED
      BY <1>1, <2>1 DEF WriteReceipt
  <1>2. CASE LookAtCommands \/ ListSuspects \/ AskLsof
    <2>1. prefixClean' \in BOOLEAN
      BY <1>2 DEF LookAtCommands, ListSuspects, AskLsof
    <2>2. suspects' \subseteq Pids
      BY <1>2 DEF LookAtCommands, ListSuspects, AskLsof, Alive
    <2> QED
      BY <1>2, <2>1, <2>2 DEF LookAtCommands, ListSuspects, AskLsof
  <1>3. CASE RemoveMarkers
    BY <1>3 DEF RemoveMarkers
  <1>4. CASE WatchSteamGone
    BY <1>4 DEF WatchSteamGone, WatchUnchanged
  <1>5. CASE WatchTail
    <2>1. stopMarker' \in BOOLEAN
      BY <1>5 DEF WatchTail
    <2> QED
      BY <1>5, <2>1 DEF WatchTail, WatchUnchanged
  <1>6. ASSUME BridgeStep, ~WriteReceipt, ~LookAtCommands, ~ListSuspects, ~AskLsof,
               ~RemoveMarkers
        PROVE  UNCHANGED <<markerVars, receiptVars>>
    BY <1>6 DEF BridgeStep, ForwardSignal, StartChild, SetTrap, FindSteam,
       ReadOffset, StartWatch, SetWatcherPid, BeginWait, WaitChild, Waited,
       KillTimer, DrainTest, DrainStart, SetDrainPid, DrainCheck, DrainWait,
       DrainEnd, Poll, StopWatch, ResetTrap, BridgeStartsReaper, ReaperReturns,
       LsofEnd
  <1>7. ASSUME \/ WatchLeave \/ WatchLook \/ WatchStop \/ ReaperRuns \/ TimerFires
               \/ DrainTermed \/ Environment \/ UNCHANGED vars
        PROVE  UNCHANGED <<markerVars, receiptVars>>
    BY <1>7 DEF WatchLeave, WatchLook, WatchStop, WatchUnchanged, ReaperRuns,
       TimerFires, DrainTermed, Environment, SignalBridge, ChildExit,
       DrainExits,
       Processes, ReapByHand, SteamLog, SteamExit, SteamStart, vars, sessionVars
  <1>8. CASE UNCHANGED <<markerVars, receiptVars>>
    BY <1>8
  <1> QED
    BY <1>1, <1>2, <1>3, <1>4, <1>5, <1>6, <1>7, <1>8 DEF Next, WatchStep

LEMMA ReaperTypedNext ==
  ASSUME ReaperTypeOK, signal \in BOOLEAN, [Next]_vars
  PROVE  ReaperTypeOK'
  <1>1. CASE ReaperRuns
    BY <1>1, ReaperStepTyped DEF ReaperRuns
  <1>2. CASE Processes
    BY <1>2, ProcessTyped DEF Processes, ReaperTypeOK, reaperVars, listVars
  <1>3. CASE BridgeStartsReaper
    BY <1>3 DEF BridgeStartsReaper, StartReaper, ReaperTypeOK, ReaperLabels,
       ProcessesTypeOK, processVars
  <1>4. CASE ReapByHand
    BY <1>4 DEF ReapByHand, StartReaper, ReaperTypeOK, ReaperLabels,
       ProcessesTypeOK, processVars
  <1>5. CASE ReaperReturns
    <2>1. /\ UNCHANGED proc
          /\ survivors' = Alive(Session)
          /\ \/ UNCHANGED <<reaperVars, same>>
             \/ /\ rpc' = "failed"
                /\ killGames' = FALSE
                /\ helperPids' = {} /\ gamePids' = {} /\ todo' = {} /\ aim' = {}
                /\ same' = {}
      BY <1>5 DEF ReaperReturns
    <2>2. ProcessesTypeOK'
      BY <2>1 DEF ReaperTypeOK, ProcessesTypeOK, Alive
    <2>3. CASE UNCHANGED <<reaperVars, same>>
      BY <2>2, <2>3 DEF ReaperTypeOK, reaperVars, listVars
    <2> QED
      BY <2>1, <2>2, <2>3 DEF ReaperTypeOK, ReaperLabels
  <1>6. CASE UNCHANGED reaperEnv
    BY <1>6 DEF reaperEnv, reaperVars, listVars, processVars, ReaperTypeOK,
       ProcessesTypeOK
  <1>7. ASSUME BridgeStep, ~BridgeStartsReaper, ~ReaperReturns
        PROVE  UNCHANGED reaperEnv
    BY <1>7 DEF BridgeStep, ForwardSignal, StartChild, SetTrap, FindSteam,
       ReadOffset, StartWatch, SetWatcherPid, BeginWait, WaitChild, Waited,
       KillTimer, DrainTest, DrainStart, SetDrainPid, DrainCheck, DrainWait,
       DrainEnd, Poll, StopWatch, ResetTrap, LookAtCommands, ListSuspects,
       AskLsof, LsofEnd, WriteReceipt,
       RemoveMarkers, reaperEnv
  <1>8. ASSUME \/ WatchStep \/ TimerFires \/ DrainTermed \/ ChildExit \/ DrainExits
               \/ (\E s \in Signals : SignalBridge(s))
               \/ (\E stop \in BOOLEAN : SteamLog(stop)) \/ SteamExit \/ SteamStart
               \/ UNCHANGED vars
        PROVE  UNCHANGED reaperEnv
    BY <1>8 DEF WatchStep, WatchLeave, WatchSteamGone, WatchLook, WatchTail,
         WatchStop, WatchUnchanged, TimerFires, DrainTermed, ChildExit,
         DrainExits, SignalBridge, SteamLog, SteamExit, SteamStart, vars,
         reaperEnv
  <1> QED
    BY <1>1, <1>2, <1>3, <1>4, <1>5, <1>6, <1>7, <1>8 DEF Next, Environment

\* A session's variables keep their types: wineserver's pid is known only while
\* it is waited for, and a loop of the reaper is about the pids it listed.
THEOREM SessionTypes == Spec => []TypeOK
  <1>1. ReaperTypeOK /\ SessionTyped /\ [Next]_vars
        => ReaperTypeOK' /\ SessionTyped'
    <2> SUFFICES ASSUME ReaperTypeOK, SessionTyped, [Next]_vars
                 PROVE  (ReaperTypeOK /\ SessionTyped)'
      OBVIOUS
    <2>1. signal \in BOOLEAN
      BY DEF SessionTyped, BridgeTyped
    <2> QED
      BY <2>1, ReaperTypedNext, BridgeTypedNext, WatchTypedNext, SteamTypedNext,
         ReceiptTypedNext DEF SessionTyped
  <1> QED
    BY <1>1, TypedInit, TypedParts, PTL DEF Spec
================================================================================
