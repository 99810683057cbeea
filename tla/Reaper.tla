--------------------------------- MODULE Reaper ---------------------------------
(***************************************************************************)
(* bin/ullage-reap: it lists the prefix's helpers and, when asked to, its  *)
(* games, asks wineserver to end the session, and then sends TERM and      *)
(* KILL to what it had listed, looking at each pid again before each       *)
(* signal.  The look, which is a ps and an lsof of the pid, is one step;   *)
(* the signal that follows it is another, and reaches whatever holds the   *)
(* pid by then.                                                            *)
(***************************************************************************)
EXTENDS WineProcesses

VARIABLES
  rpc,         \* the next command of the script
  killGames,   \* KILL_GAME_PROCESSES
  helperPids,  \* helper_pids
  gamePids,    \* game_pids
  todo,        \* the pids the current loop has still to look at
  aim          \* the pid it has looked at and is about to signal, if any

listVars == <<killGames, helperPids, gamePids>>
reaperVars == <<rpc, listVars, todo, aim>>

Loops == {"termHelpers", "killHelpers", "termGames", "killGames"}

ReaperLabels ==
  {"idle", "listHelpers", "listGames", "stopServer", "done", "failed"} \cup Loops

ReaperTypeOK ==
  /\ ProcessesTypeOK
  /\ rpc \in ReaperLabels
  /\ killGames \in BOOLEAN
  /\ helperPids \subseteq Pids
  /\ gamePids \subseteq Pids
  /\ todo \cup aim \subseteq
       CASE rpc \in {"termHelpers", "killHelpers"} -> helperPids
         [] rpc \in {"termGames", "killGames"} -> gamePids
         [] OTHER -> {}

ReaperInit ==
  /\ rpc = "idle"
  /\ killGames = FALSE
  /\ helperPids = {}
  /\ gamePids = {}
  /\ todo = {}
  /\ aim = {}
  /\ same = {}
  /\ survivors = {}

--------------------------------------------------------------------------------

\* The command line: --kill-game-processes or not.
StartReaper(games) ==
  /\ rpc = "idle"
  /\ rpc' = "listHelpers"
  /\ killGames' = games
  /\ UNCHANGED <<processVars, helperPids, gamePids, todo, aim>>

ListHelpers ==
  /\ rpc = "listHelpers"
  /\ rpc' = "listGames"
  /\ helperPids' = Alive({"helper"})
  /\ same' = Alive(Session)
  /\ UNCHANGED <<proc, survivors, killGames, gamePids, todo, aim>>

ListGames ==
  /\ rpc = "listGames"
  /\ rpc' = "stopServer"
  /\ gamePids' = IF killGames THEN Alive(ReaperSees) ELSE {}
  /\ same' = same \cup gamePids'
  /\ UNCHANGED <<proc, survivors, killGames, helperPids, todo, aim>>

\* wineserver -k ends some of the session's processes within its two seconds,
\* or none: it is stopped when it takes longer.
StopServer ==
  /\ rpc = "stopServer"
  /\ rpc' = "termHelpers"
  /\ todo' = helperPids
  /\ \E S \in SUBSET Alive(Session) : EndAll(S)
  /\ UNCHANGED <<listVars, aim>>

\* One turn of a loop: the next pid is looked at, and passed over unless it is
\* still what the loop is about.
Look(here, kinds) ==
  /\ rpc = here
  /\ aim = {}
  /\ \E p \in todo :
       /\ todo' = todo \ {p}
       /\ aim' = {p} \cap Alive(kinds)
  /\ UNCHANGED <<processVars, rpc, listVars>>

\* The TERM, of which a process may take notice or not.
Term(here) ==
  /\ rpc = here
  /\ aim # {}
  /\ aim' = {}
  /\ \E S \in SUBSET aim : EndAll(S)
  /\ UNCHANGED <<rpc, listVars, todo>>

Kill(here) ==
  /\ rpc = here
  /\ aim # {}
  /\ aim' = {}
  /\ EndAll(aim)
  /\ UNCHANGED <<rpc, listVars, todo>>

\* Mutant of LoopEnd: the first loop over each list is the last.
LoopEndNoKill(here, next, pids) ==
  /\ rpc = here
  /\ todo \cup aim = {}
  /\ IF next = "killGames"
     THEN rpc' = "done" /\ todo' = {}
     ELSE rpc' = next /\ todo' = pids
  /\ UNCHANGED <<processVars, listVars, aim>>

LoopEnd(here, next, pids) ==
  /\ rpc = here
  /\ todo \cup aim = {}
  /\ rpc' = next
  /\ todo' = pids
  /\ UNCHANGED <<processVars, listVars, aim>>

ReaperStep ==
  \/ ListHelpers
  \/ ListGames
  \/ StopServer
  \/ Look("termHelpers", {"helper"}) \/ Term("termHelpers")
  \/ LoopEnd("termHelpers", "killHelpers", helperPids)
  \/ Look("killHelpers", {"helper"}) \/ Kill("killHelpers")
  \/ LoopEnd("killHelpers", "termGames", gamePids)
  \/ Look("termGames", ReaperSees) \/ Term("termGames")
  \/ LoopEnd("termGames", "killGames", gamePids)
  \/ Look("killGames", ReaperSees) \/ Kill("killGames")
  \/ LoopEnd("killGames", "done", {})

Reaping == rpc \notin {"idle", "done", "failed"}

--------------------------------------------------------------------------------
(* Properties.                                                             *)

\* When it has ended, no process it listed is still running, however often the
\* pids were reused and whatever wineserver did.
ListedAreGone ==
  rpc = "done" => same \cap (helperPids \cup gamePids) = {}
================================================================================
