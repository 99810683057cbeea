----------------------------- MODULE WineProcesses -----------------------------
(***************************************************************************)
(* The process table as bin/ullage-bridge and bin/ullage-reap see it with  *)
(* ps and lsof.  A pid is free or holds a process of some kind; a freed    *)
(* pid may be given to another process at any time.                        *)
(***************************************************************************)
CONSTANTS
  Pids,
  Kinds  \* the kinds of processes there may be

\* "game": an executable of GAME_DIR, the working directory of the launch.
\* "sibling": an executable elsewhere in the depot, GAME_ROOT.
\* "unpacked": an executable the game unpacked into the prefix.
AllGameKinds == {"game", "sibling", "unpacked"}
\* "helper": Wine's own, in the selected prefix.
\* "foreign": anything that has nothing to do with the prefix.
ASSUME ProcessAssumption == Kinds \subseteq AllGameKinds \cup {"helper", "foreign"}

GameKinds == Kinds \cap AllGameKinds

\* What runs in the selected prefix.
Session == Kinds \ {"foreign"}

\* ullage-reap takes a game process for one when it is of GAME_DIR or of the
\* prefix; the bridge's own look finds the depot's path in the command line.
ReaperSees == {"game", "unpacked"}
BridgeSees == {"game", "sibling"}

VARIABLES
  proc,      \* what each pid holds
  same,      \* history: pids that hold what they held when the reaper listed them
  survivors  \* history: the same for the prefix, when the bridge's reaper returned

processVars == <<proc, same, survivors>>

ProcessesTypeOK ==
  /\ proc \in [Pids -> Kinds \cup {"free"}]
  /\ same \subseteq Pids
  /\ survivors \subseteq Pids

Alive(kinds) == {p \in Pids : proc[p] \in kinds}

\* The processes of S end.
EndAll(S) ==
  /\ proc' = [p \in Pids |-> IF p \in S THEN "free" ELSE proc[p]]
  /\ same' = same \ S
  /\ survivors' = survivors \ S

\* Any process may end.
ProcessExit == \E p \in Alive(Kinds) : EndAll({p})

\* What belongs to the prefix is started by the launcher or by whatever runs in
\* the prefix, a game by a helper too; a foreign process by anybody.
ProcessStart(launcher) ==
  \E p \in Alive({"free"}), k \in Kinds :
    /\ k \in Session => launcher \/ Alive(Session) # {}
    /\ proc' = [proc EXCEPT ![p] = k]
    /\ UNCHANGED <<same, survivors>>
================================================================================
