----------------------------- MODULE LaunchMapping -----------------------------
(***************************************************************************)
(* The launch options of one game in appinfo.vdf, entry by entry: what     *)
(* bin/ullage-appinfo.py writes there for an install and a remove, how     *)
(* bin/ullage-mapping.py judges and repairs it, and native Steam, which    *)
(* writes the same record.  A repair looks several times before it writes; *)
(* each look is an action, and anybody may write between two of them.  The *)
(* transactions around an install and a remove are InstallTxn and          *)
(* RemoveTxn; here each is one step.                                       *)
(***************************************************************************)
EXTENDS Naturals, FiniteSets

CONSTANTS
  Entries,    \* the game's Windows launch options
  Published,  \* the executables Steam may publish for an option
  Launcher,   \* the generated launcher of an option
  Absent,     \* an option that is not there
  ConfigFile, \* APPID.conf, beside the launchers
  NoState,    \* launch.json is missing
  BadState,   \* launch.json cannot be used
  MaxOps,     \* bound: installs, removes and repairs started
  MaxWrites,  \* bound: writes by Steam
  MaxFaults   \* bound: generated files lost

VARIABLES
  rec,        \* the record in appinfo.vdf
  readable,   \* appinfo.vdf holds the record
  state,      \* APPID.launch.json
  generated,  \* the launchers, by their entry, and ConfigFile
  steam,      \* native Steam is running
  job,        \* the repair: its next step and what it has read
  ops, writes, faults,
  pub,        \* history variable: the record as Steam last wrote each field
  fresh,      \* history variable: the repair's looks that nobody came after
  overrun     \* history variable: a repair took back what it had not seen

launchVars == <<rec, readable, state, generated>>
boundVars == <<ops, writes, faults>>
vars == <<launchVars, steam, job, boundVars, pub, fresh, overrun>>

Exe == Published \cup {Launcher, Absent}
Config == {"plain", "changed", "hidden"}
Record == [exe : [Entries -> Exe], config : [Entries -> Config]]

\* map: the options given a launcher; hid: the ones hidden from Steam; exe and
\* config: what they replaced.
State ==
  [map : (SUBSET Entries) \ {{}}, hid : SUBSET Entries,
   exe : [Entries -> Exe], config : [Entries -> Config]]

ASSUME LaunchAssumption ==
  /\ Launcher \notin Published
  /\ Absent \notin Published \cup {Launcher}
  /\ ConfigFile \notin Entries
  /\ NoState \notin State
  /\ BadState \notin State
  /\ NoState # BadState
  /\ MaxOps \in Nat
  /\ MaxWrites \in Nat
  /\ MaxFaults \in Nat

\* tool: "repair" and "reconcile" of the CLI, or ullage-mapping.py "direct";
\* want and seen: the state and the executables that were inspected; copy: the
\* record in the temporary file.
Job ==
  [pc : {"idle", "look", "inspect", "guard", "backup", "copy", "replace"},
   tool : {"repair", "reconcile", "direct"}, force : BOOLEAN,
   want : State \cup {NoState}, seen : [Entries -> Exe],
   backup : Record, copy : Record]

Native(v) == [exe |-> [e \in Entries |-> v],
              config |-> [e \in Entries |-> "plain"]]

NoJob == [pc |-> "idle", tool |-> "direct", force |-> FALSE, want |-> NoState,
          seen |-> Native(Absent).exe, backup |-> Native(Absent),
          copy |-> Native(Absent)]

TypeOK ==
  /\ rec \in Record /\ pub \in Record
  /\ readable \in BOOLEAN
  /\ state \in State \cup {NoState, BadState}
  /\ generated \subseteq Entries \cup {ConfigFile}
  /\ steam \in BOOLEAN
  /\ job \in Job
  /\ job.pc \in {"guard", "backup", "copy", "replace"} => job.want \in State
  /\ ops \in 0..MaxOps /\ writes \in 0..MaxWrites /\ faults \in 0..MaxFaults
  /\ fresh \subseteq {"steam", "mapping"}
  /\ overrun \in BOOLEAN

--------------------------------------------------------------------------------
(* bin/ullage-appinfo.py on one record.                                    *)

With(f, S, v) == [e \in Entries |-> IF e \in S THEN v ELSE f[e]]
Merge(f, S, g) == [e \in Entries |-> IF e \in S THEN g[e] ELSE f[e]]

\* A hidden option is no Windows option for the editor, and an option with a
\* launcher is not one that windows_launches can map.
Windows(r) == {e \in Entries : r.exe[e] # Absent /\ r.config[e] # "hidden"}
Mappable(r) == {e \in Windows(r) : r.exe[e] # Launcher}

\* Mutant of Usable: an install goes on without any option it can start.
UsableOrNone(r) == SUBSET Mappable(r)

\* The options that the depot may hold; without one there is nothing to map.
Usable(r) == (SUBSET Mappable(r)) \ {{}}

\* patch-all maps every option that the depot can start, patch one of them.
\* The one that --match or --entry names need not be usable, and --entry hides
\* nothing: that is the case of a depot that can start them all.
Maps(usable) == {usable} \cup {{e} : e \in usable}

\* Both hide the Windows options that the depot cannot start.
Patched(r, map, usable) ==
  [exe    |-> With(r.exe, map, Launcher),
   config |-> With(r.config, Windows(r) \ usable, "hidden")]

PatchState(r, map, usable) ==
  [map |-> map, hid |-> Windows(r) \ usable, exe |-> r.exe,
   config |-> r.config]

\* restore_state refuses what is neither the original nor its own.
Restorable(st, r) ==
  /\ \A e \in st.map : r.exe[e] \in {st.exe[e], Launcher} \ {Absent}
  /\ \A e \in st.hid :
       r.exe[e] # Absent /\ r.config[e] \in {st.config[e], "hidden"}

Restored(st, r) ==
  [exe    |-> Merge(r.exe, st.map, st.exe),
   config |-> Merge(r.config, st.hid, st.config)]

--------------------------------------------------------------------------------
(* inspect_mapping.                                                        *)

Foreign(st) ==
  {e \in st.map : rec.exe[e] \notin {Launcher, st.exe[e], Absent}}
Stale(st) == {e \in st.map : rec.exe[e] # Launcher}
Broken(st) == {e \in st.map : ~({e, ConfigFile} \subseteq generated)}

Status ==
  CASE state = NoState -> "missing"
    [] state = BadState -> "invalid"
    [] state \in State /\ ~readable -> "unavailable"
    [] OTHER -> IF Foreign(state) # {} THEN "foreign"
                ELSE IF Stale(state) # {} THEN "stale"
                ELSE IF Broken(state) # {} THEN "broken"
                ELSE "healthy"

--------------------------------------------------------------------------------
(* bin/ullage-mapping.py repair, from the CLI or directly.                 *)

At(here) == job.pc = here
Stay == UNCHANGED <<launchVars, steam, boundVars, pub, overrun>>
Ended == job' = NoJob

\* The CLI inspects first: a healthy mapping is no work, and needs no look at
\* Steam.  ullage-mapping.py goes straight to its own inspection.
RepairBegin(t, f) ==
  /\ At("idle")
  /\ ops < MaxOps
  /\ ops' = ops + 1
  /\ t # "direct" => Status # "healthy"
  /\ job' = [NoJob EXCEPT !.pc = IF t = "direct" THEN "inspect" ELSE "look",
                          !.tool = t, !.force = f]
  /\ fresh' = {}
  /\ UNCHANGED <<launchVars, steam, writes, faults, pub, overrun>>

\* The CLI's look at the process list.
Look ==
  /\ At("look")
  /\ IF steam THEN Ended ELSE job' = [job EXCEPT !.pc = "inspect"]
  /\ fresh' = {"steam"}
  /\ Stay

\* What a repair may take on.
Wanted == Status = "stale" \/ (job.force /\ Status = "foreign")

\* Mutant of Complete: the launchers are not looked for.
CompleteConfig == ConfigFile \in generated

\* A repair recreates nothing: config and launchers must be there.
Complete == ConfigFile \in generated /\ state.map \subseteq generated

\* reconcile leaves the second look at Steam out (check_steam=False).
Inspect ==
  /\ At("inspect")
  /\ IF Wanted /\ Complete
     THEN job' = [job EXCEPT
                   !.pc = IF job.tool = "reconcile" THEN "backup" ELSE "guard",
                   !.want = state, !.seen = rec.exe]
     ELSE Ended
  /\ fresh' = fresh \cup {"mapping"}
  /\ Stay

\* _steam_pids, just before the first write.
Guard ==
  /\ At("guard")
  /\ IF steam THEN Ended ELSE job' = [job EXCEPT !.pc = "backup"]
  /\ fresh' = fresh \cup {"steam"}
  /\ Stay

BackUp ==
  /\ At("backup")
  /\ job' = [job EXCEPT !.pc = "copy", !.backup = rec]
  /\ UNCHANGED fresh
  /\ Stay

\* With a single entry, one that was absent when it was seen may hold anything
\* by now (expect=None).
Unchecked(e) == Cardinality(job.want.map) = 1 /\ job.seen[e] = Absent

\* The optimistic check of replace_launch and replace_launches: an entry must
\* be there and hold what was seen.
Expected ==
  \A e \in job.want.map :
    rec.exe[e] # Absent /\ (rec.exe[e] = job.seen[e] \/ Unchecked(e))

\* The record is copied to a temporary file, read back and edited there.
Copy ==
  /\ At("copy")
  /\ readable
  /\ Expected
  /\ job' = [job EXCEPT !.pc = "replace", !.copy = rec]
  /\ UNCHANGED fresh
  /\ Stay

\* What the edit of the copy makes of it.
Edited == [job.copy EXCEPT !.exe = With(@, job.want.map, Launcher)]

\* The repair takes back what it did not see: Steam wrote after the copy, the
\* mapping was removed or replaced, or an entry was not compared.
Unseen ==
  \/ job.force
  \/ rec # job.copy
  \/ state # job.want
  \/ \E e \in job.want.map : Unchecked(e)

\* os.replace; what Steam wrote since the copy is gone.
Replace ==
  /\ At("replace")
  /\ rec' = Edited
  /\ readable' = TRUE
  /\ overrun' = (overrun \/ Unseen)
  /\ Ended
  /\ UNCHANGED <<state, generated, steam, boundVars, pub, fresh>>

\* An error, or the process is killed: only a temporary file is left.
Stop ==
  /\ ~At("idle")
  /\ Ended
  /\ UNCHANGED fresh
  /\ Stay

Repair ==
  \/ \E t \in {"repair", "reconcile", "direct"}, f \in BOOLEAN : RepairBegin(t, f)
  \/ Look \/ Inspect \/ Guard \/ BackUp \/ Copy \/ Replace \/ Stop

--------------------------------------------------------------------------------
(* Everybody else; what they do while a repair runs makes its looks old.   *)

Outside == fresh' = {} /\ UNCHANGED <<job, overrun>>

Operation ==
  /\ ops < MaxOps
  /\ ops' = ops + 1
  /\ ~steam
  /\ readable
  /\ UNCHANGED <<steam, readable, writes, faults, pub>>
  /\ Outside

\* Mutant of Install: an old mapping is not restored before the new one.
InstallOver ==
  /\ Operation
  /\ state # BadState
  /\ \E usable \in Usable(rec) :
       \E map \in Maps(usable) :
         /\ rec' = Patched(rec, map, usable)
         /\ state' = PatchState(rec, map, usable)
         /\ generated' = {ConfigFile} \cup map

\* ullage-install: an old mapping is restored first, or the install refuses.
Install ==
  /\ Operation
  /\ state \in State => Restorable(state, rec)
  /\ state # BadState
  /\ LET r == IF state \in State THEN Restored(state, rec) ELSE rec
     IN \E usable \in Usable(r) :
          \E map \in Maps(usable) :
            /\ rec' = Patched(r, map, usable)
            /\ state' = PatchState(r, map, usable)
            /\ generated' = {ConfigFile} \cup map

Remove ==
  /\ Operation
  /\ state \in State
  /\ Restorable(state, rec)
  /\ rec' = Restored(state, rec)
  /\ state' = NoState
  /\ generated' = {}

SteamStart ==
  /\ ~steam
  /\ writes < MaxWrites
  /\ steam' = TRUE
  /\ UNCHANGED <<launchVars, boundVars, pub>>
  /\ Outside

SteamStop ==
  /\ steam
  /\ steam' = FALSE
  /\ UNCHANGED <<launchVars, boundVars, pub>>
  /\ Outside

\* Steam writes what it now publishes, for some options or all of them.
SteamWrite ==
  /\ steam
  /\ writes < MaxWrites
  /\ writes' = writes + 1
  /\ \E S \in SUBSET Entries, v \in Published \cup {Absent},
       c \in {"plain", "changed"} :
       /\ rec' = [exe |-> With(rec.exe, S, v), config |-> With(rec.config, S, c)]
       /\ pub' = [exe |-> With(pub.exe, S, v), config |-> With(pub.config, S, c)]
  /\ readable' \in BOOLEAN
  /\ UNCHANGED <<state, generated, steam, ops, faults>>
  /\ Outside

\* A generated file is deleted by hand, or launch.json is damaged.
Lose ==
  /\ faults < MaxFaults
  /\ faults' = faults + 1
  /\ \/ \E f \in generated : generated' = generated \ {f} /\ UNCHANGED state
     \/ state' = BadState /\ UNCHANGED generated
  /\ UNCHANGED <<rec, readable, steam, ops, writes, pub>>
  /\ Outside

Init ==
  /\ \E v \in Published : rec = Native(v)
  /\ pub = rec
  /\ readable = TRUE
  /\ state = NoState
  /\ generated = {}
  /\ steam = FALSE
  /\ job = NoJob
  /\ ops = 0 /\ writes = 0 /\ faults = 0
  /\ fresh = {}
  /\ overrun = FALSE

Next ==
  Repair \/ Install \/ Remove \/ SteamStart \/ SteamStop \/ SteamWrite \/ Lose

Spec == Init /\ [][Next]_vars

--------------------------------------------------------------------------------
(* Properties.                                                             *)

\* A game without a mapping has the record Steam published, and a mapping that
\* the code agrees to undo gives exactly that record back, the executables and
\* the options it hid, whatever installs, repairs and rewrites came before;
\* unless a repair was forced or took back what it had not seen.
UndoGivesPublished ==
  ~overrun =>
    /\ state = NoState => rec = pub
    /\ state \in State /\ Restorable(state, rec) => Restored(state, rec) = pub

\* A repair that nobody disturbed after its inspection leaves a mapping that is
\* healthy, with its config and every launcher.
RepairHeals == [][Replace /\ "mapping" \in fresh => Status' = "healthy"]_vars

\* The record is replaced while Steam is stopped, and the backup holds what is
\* replaced, unless somebody came after the last look at Steam.
RepairIsGuarded ==
  [][Replace /\ "steam" \in fresh =>
       ~steam /\ job.backup = rec /\ job.copy = rec]_vars
================================================================================
