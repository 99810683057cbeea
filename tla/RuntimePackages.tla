---------------------------- MODULE RuntimePackages ----------------------------
(***************************************************************************)
(* bin/ullage-runtime.py: the bridge packages under runtimes/, the pointer *)
(* current.json, the list history.json that a rollback chooses from, and   *)
(* the download cache.  Several processes may run an operation each: there *)
(* is no lock.  Every file is written to a temporary name and renamed, so  *)
(* each read and each rename is an action.                                 *)
(*                                                                         *)
(* A build is a package's contents, named by its manifest's digest; two    *)
(* builds may carry the same runtime id and version, which is the          *)
(* directory they are installed in.                                        *)
(***************************************************************************)
EXTENDS Naturals, Sequences, SequencesExt, PointerHistory

CONSTANTS
  Procs,       \* the processes that use one state directory
  Builds,
  VersionOf,   \* the runtime id and version of each build
  Released,    \* the builds the release index pins
  None,        \* no build: an absent package or pointer
  HistoryCap,  \* how many pointers history.json keeps: 16 in the code
  MaxOps,      \* bound: operations started
  MaxFaults    \* bound: packages and archives damaged or deleted from outside

Versions == {VersionOf[b] : b \in Builds}

ASSUME RuntimeAssumption ==
  /\ VersionOf \in [Builds -> Versions]
  /\ Released \subseteq Builds
  /\ None \notin Builds
  /\ HistoryCap \in Nat \ {0}
  /\ MaxOps \in Nat
  /\ MaxFaults \in Nat

VARIABLES
  pkg,      \* the build in each version's directory
  damaged,  \* versions with an artifact that no longer matches its manifest
  cache,    \* the archive of each release
  current,  \* current.json
  history,  \* history.json, the most recent first
  pc,       \* the next step of each process
  want,     \* the build a process installs or switches to
  old,      \* the pointer it read
  entries,  \* the history it is about to write
  default,  \* history variable: a rollback without a named version
  ops,
  faults,
  recent,   \* history variable: earlier current builds, the most recent first
  raced,    \* history variable: two activations have overlapped
  deleted   \* history variable: versions deleted from outside

diskVars == <<pkg, damaged, cache, current, history>>
procVars == <<pc, want, old, entries, default>>
boundVars == <<ops, faults, deleted>>
ghostVars == <<recent, raced>>
vars == <<diskVars, procVars, boundVars, ghostVars>>

\* From the look at the current pointer to the writing of the new one.
Activating == {"choose", "readCurrent", "readHistory", "writeHistory",
               "writeCurrent"}
Labels ==
  {"idle", "cached", "download", "extract", "check", "stage", "rename",
   "readInstalled", "rollback", "named"} \cup Activating

TypeOK ==
  /\ pkg \in [Versions -> Builds \cup {None}]
  /\ \A v \in Versions : pkg[v] # None => VersionOf[pkg[v]] = v
  /\ damaged \subseteq {v \in Versions : pkg[v] # None}
  /\ cache \in [Released -> {"absent", "good", "bad"}]
  /\ current \in Builds \cup {None}
  /\ history \in Seq(Builds) /\ Len(history) <= HistoryCap
  /\ pc \in [Procs -> Labels]
  /\ want \in [Procs -> Builds \cup {None}]
  /\ \A p \in Procs :
       pc[p] \notin {"idle", "rollback", "named", "choose"} => want[p] # None
  /\ old \in [Procs -> Builds \cup {None}]
  /\ entries \in [Procs -> Seq(Builds)]
  /\ default \in [Procs -> BOOLEAN]
  /\ ops \in 0..MaxOps
  /\ faults \in 0..MaxFaults
  /\ recent \in Seq(Builds)
  /\ raced \in BOOLEAN
  /\ deleted \subseteq Versions

Init ==
  /\ pkg = [v \in Versions |-> None]
  /\ damaged = {}
  /\ cache = [b \in Released |-> "absent"]
  /\ current = None
  /\ history = <<>>
  /\ pc = [p \in Procs |-> "idle"]
  /\ want = [p \in Procs |-> None]
  /\ old = [p \in Procs |-> None]
  /\ entries = [p \in Procs |-> <<>>]
  /\ default = [p \in Procs |-> FALSE]
  /\ ops = 0
  /\ faults = 0
  /\ recent = <<>>
  /\ raced = FALSE
  /\ deleted = {}

--------------------------------------------------------------------------------

\* _installed_package and current_package: the manifest, its artifacts and the
\* provenance are there and match the pointer's digest.
Ready(b) ==
  /\ b # None
  /\ pkg[VersionOf[b]] = b
  /\ VersionOf[b] \notin damaged

Goto(p, here, next) ==
  /\ pc[p] = here
  /\ pc' = [pc EXCEPT ![p] = next]

\* The process is about to look at the pointers in order to change them.
Enter(p) ==
  raced' = (raced \/ \E q \in Procs \ {p} : pc[q] \in Activating)

\* The i-th entry of the history can be rolled back to from build x.
Eligible(i, x) == history[i] # x /\ Ready(history[i])

\* Build b is in the most recent such entry.
Previous(b, x) ==
  \E i \in DOMAIN history :
    /\ history[i] = b
    /\ Eligible(i, x)
    /\ \A j \in 1..(i - 1) : ~Eligible(j, x)

--------------------------------------------------------------------------------
(* The operations begin.                                                   *)

Begin(p, first, b) ==
  /\ ops < MaxOps
  /\ ops' = ops + 1
  /\ Goto(p, "idle", first)
  /\ want' = [want EXCEPT ![p] = b]
  /\ default' = [default EXCEPT ![p] = FALSE]
  /\ UNCHANGED <<diskVars, old, entries, faults, deleted, ghostVars>>

\* fetch_release of a pinned build.
Fetch(p, b) == b \in Released /\ Begin(p, "cached", b)

\* install_manifest of a verified local package.
Install(p, b) == Begin(p, "check", b)

\* rollback, to the previous build or to a named version.
Rollback(p) == Begin(p, "rollback", None)
RollbackTo(p, b) == Begin(p, "named", b)

--------------------------------------------------------------------------------
(* fetch_release.                                                          *)

ProcOnly == UNCHANGED <<diskVars, old, entries, default, boundVars>>

\* A good archive in the cache is used as it is.
LookInCache(p) ==
  /\ Goto(p, "cached", IF cache[want[p]] = "good" THEN "extract" ELSE "download")
  /\ UNCHANGED <<want, ghostVars>>
  /\ ProcOnly

\* The download is verified before it gets the archive's name.
Download(p) ==
  /\ Goto(p, "download", "extract")
  /\ cache' = [cache EXCEPT ![want[p]] = "good"]
  /\ UNCHANGED <<pkg, damaged, current, history, want, old, entries, default,
                 boundVars, ghostVars>>

\* The archive is verified again and opened again, in one step here: what was
\* extracted is verified against its manifest whatever came between.
Extract(p) ==
  /\ Goto(p, "extract", IF cache[want[p]] = "good" THEN "check" ELSE "idle")
  /\ UNCHANGED <<want, ghostVars>>
  /\ ProcOnly

--------------------------------------------------------------------------------
(* install_manifest.                                                       *)

\* A directory that is there is used if it holds the same build and is ready,
\* and is an error otherwise.
Check(p) ==
  /\ pc[p] = "check"
  /\ \/ /\ pkg[VersionOf[want[p]]] = None
        /\ pc' = [pc EXCEPT ![p] = "stage"]
        /\ UNCHANGED raced
     \/ /\ Ready(want[p])
        /\ pc' = [pc EXCEPT ![p] = "readCurrent"]
        /\ Enter(p)
     \/ /\ pkg[VersionOf[want[p]]] # None
        /\ ~Ready(want[p])
        /\ pc' = [pc EXCEPT ![p] = "idle"]
        /\ UNCHANGED raced
  /\ UNCHANGED <<want, recent>>
  /\ ProcOnly

\* The copy is verified in its temporary directory.
Stage(p) ==
  /\ Goto(p, "stage", "rename")
  /\ UNCHANGED <<want, ghostVars>>
  /\ ProcOnly

\* Mutant of Rename: what is in place is replaced.
RenameOver(p) ==
  /\ Goto(p, "rename", "readInstalled")
  /\ pkg' = [pkg EXCEPT ![VersionOf[want[p]]] = want[p]]
  /\ UNCHANGED <<damaged, cache, current, history, want, old, entries,
                 default, boundVars, ghostVars>>

\* A rename onto a directory that has come to be there meanwhile fails.
Rename(p) ==
  LET v == VersionOf[want[p]]
  IN /\ Goto(p, "rename", IF pkg[v] = None THEN "readInstalled" ELSE "idle")
     /\ pkg' = IF pkg[v] = None THEN [pkg EXCEPT ![v] = want[p]] ELSE pkg
     /\ UNCHANGED <<damaged, cache, current, history, want, old, entries,
                    default, boundVars, ghostVars>>

\* What is in the directory now is made current, whether it is ready or not.
ReadInstalled(p) ==
  LET b == pkg[VersionOf[want[p]]]
  IN /\ Goto(p, "readInstalled", IF b = None THEN "idle" ELSE "readCurrent")
     /\ want' = [want EXCEPT ![p] = IF b = None THEN @ ELSE b]
     /\ IF b = None THEN UNCHANGED raced ELSE Enter(p)
     /\ UNCHANGED recent
     /\ ProcOnly

--------------------------------------------------------------------------------
(* rollback.                                                               *)

\* The current package must be ready, and a named one too.
LookNamed(p) ==
  LET b == pkg[VersionOf[want[p]]]
      ok == Ready(current) /\ Ready(b)
  IN /\ Goto(p, "named", IF ok THEN "readCurrent" ELSE "idle")
     /\ want' = [want EXCEPT ![p] = IF ok THEN b ELSE @]
     /\ IF ok THEN Enter(p) ELSE UNCHANGED raced
     /\ UNCHANGED recent
     /\ ProcOnly

LookCurrent(p) ==
  /\ Goto(p, "rollback", IF Ready(current) THEN "choose" ELSE "idle")
  /\ old' = [old EXCEPT ![p] = current]
  /\ IF Ready(current) THEN Enter(p) ELSE UNCHANGED raced
  /\ UNCHANGED <<diskVars, want, entries, default, boundVars, recent>>

\* Mutant of Choose: the first ready entry, be it the current build.
ChooseFirst(p) ==
  /\ Goto(p, "choose", "readCurrent")
  /\ \E i \in DOMAIN history :
       /\ Ready(history[i])
       /\ \A j \in 1..(i - 1) : ~Ready(history[j])
       /\ want' = [want EXCEPT ![p] = history[i]]
  /\ default' = [default EXCEPT ![p] = TRUE]
  /\ UNCHANGED <<diskVars, old, entries, boundVars, ghostVars>>

\* The most recent entry of the history that is ready and not current, or an
\* error if there is none.
Choose(p) ==
  /\ \/ /\ Goto(p, "choose", "readCurrent")
        /\ \E b \in Builds :
             Previous(b, old[p]) /\ want' = [want EXCEPT ![p] = b]
        /\ default' = [default EXCEPT ![p] = TRUE]
     \/ /\ Goto(p, "choose", "idle")
        /\ \A i \in DOMAIN history : ~Eligible(i, old[p])
        /\ UNCHANGED <<want, default>>
  /\ UNCHANGED <<diskVars, old, entries, boundVars, ghostVars>>

--------------------------------------------------------------------------------
(* _activate_package.                                                      *)

\* Mutant of ReadCurrent: the history is not written.
ReadCurrentOnly(p) ==
  /\ Goto(p, "readCurrent", "writeCurrent")
  /\ old' = [old EXCEPT ![p] = current]
  /\ UNCHANGED <<diskVars, want, entries, default, boundVars, ghostVars>>

\* The history changes only when there is a pointer and it changes.
ReadCurrent(p) ==
  /\ Goto(p, "readCurrent",
          IF current \in {None, want[p]} THEN "writeCurrent" ELSE "readHistory")
  /\ old' = [old EXCEPT ![p] = current]
  /\ UNCHANGED <<diskVars, want, entries, default, boundVars, ghostVars>>

\* Mutant of ReadHistory: the oldest pointers are kept.
ReadHistoryAppend(p) ==
  LET all == Append(Others(history, old[p]), old[p])
  IN /\ Goto(p, "readHistory", "writeHistory")
     /\ entries' = [entries EXCEPT ![p] =
                      SubSeq(all, 1, IF Len(all) < HistoryCap THEN Len(all)
                                     ELSE HistoryCap)]
     /\ UNCHANGED <<diskVars, want, old, default, boundVars, ghostVars>>

\* The pointer read goes in front, and the list keeps its first HistoryCap.
ReadHistory(p) ==
  LET all == <<old[p]>> \o Others(history, old[p])
  IN /\ Goto(p, "readHistory", "writeHistory")
     /\ entries' = [entries EXCEPT ![p] =
                      SubSeq(all, 1, IF Len(all) < HistoryCap THEN Len(all)
                                     ELSE HistoryCap)]
     /\ UNCHANGED <<diskVars, want, old, default, boundVars, ghostVars>>

WriteHistory(p) ==
  /\ Goto(p, "writeHistory", "writeCurrent")
  /\ history' = entries[p]
  /\ UNCHANGED <<pkg, damaged, cache, current, want, old, entries, default,
                 boundVars, ghostVars>>

WriteCurrent(p) ==
  /\ Goto(p, "writeCurrent", "idle")
  /\ current' = want[p]
  /\ recent' = IF current \in {None, want[p]} THEN recent
               ELSE <<current>> \o Others(Others(recent, want[p]), current)
  /\ UNCHANGED <<pkg, damaged, cache, history, want, old, entries, default,
                 boundVars, raced>>

--------------------------------------------------------------------------------

\* An OSError, or the process is killed: temporary files and directories are
\* removed or left behind under names nobody looks at.
Stop(p) ==
  /\ pc[p] # "idle"
  /\ pc' = [pc EXCEPT ![p] = "idle"]
  /\ UNCHANGED <<diskVars, want, old, entries, default, boundVars, ghostVars>>

Fault ==
  /\ faults < MaxFaults
  /\ faults' = faults + 1
  /\ UNCHANGED <<current, history, procVars, ops, ghostVars>>

\* A file of an installed package is changed.
Damage(v) ==
  /\ Fault
  /\ pkg[v] # None
  /\ damaged' = damaged \cup {v}
  /\ UNCHANGED <<pkg, cache, deleted>>

\* An installed package is deleted by hand.
Delete(v) ==
  /\ Fault
  /\ pkg[v] # None
  /\ pkg' = [pkg EXCEPT ![v] = None]
  /\ damaged' = damaged \ {v}
  /\ deleted' = deleted \cup {v}
  /\ UNCHANGED cache

\* An archive in the cache is changed.
SpoilCache(b) ==
  /\ Fault
  /\ cache[b] = "good"
  /\ cache' = [cache EXCEPT ![b] = "bad"]
  /\ UNCHANGED <<pkg, damaged, deleted>>

Step(p) ==
  \/ LookInCache(p) \/ Download(p) \/ Extract(p)
  \/ Check(p) \/ Stage(p) \/ Rename(p) \/ ReadInstalled(p)
  \/ LookNamed(p) \/ LookCurrent(p) \/ Choose(p)
  \/ ReadCurrent(p) \/ ReadHistory(p) \/ WriteHistory(p) \/ WriteCurrent(p)
  \/ Stop(p)

Next ==
  \/ \E p \in Procs :
       \/ \E b \in Builds : Fetch(p, b) \/ Install(p, b) \/ RollbackTo(p, b)
       \/ Rollback(p)
       \/ Step(p)
  \/ \E v \in Versions : Damage(v) \/ Delete(v)
  \/ \E b \in Released : SpoilCache(b)

Spec == Init /\ [][Next]_vars

--------------------------------------------------------------------------------
(* Properties.                                                             *)

\* The build is in its directory, or somebody deleted what was there by hand.
Held(b) == pkg[VersionOf[b]] = b \/ VersionOf[b] \in deleted

\* Whatever runs at once and wherever it stops, the pointer names a build that
\* is in its directory, unless somebody deleted it by hand.
CurrentIsInstalled == current # None => Held(current)

\* The inductive form: so does what a process is about to write.
WantedIsInstalled ==
  \A p \in Procs :
    pc[p] \in {"readCurrent", "readHistory", "writeHistory", "writeCurrent"} =>
      want[p] # None /\ Held(want[p])

\* The packages are a registry: one that is installed stays as it is while its
\* directory is there, though several processes install at once, and the pointer
\* names a package in its directory unless somebody deleted it.
Registry == INSTANCE PackageRegistry
  WITH Items <- Builds, DirOf <- VersionOf, Nothing <- None,
       place <- pkg, removed <- deleted, active <- current

PackagesAreARegistry == Registry!Spec

Earlier == Others(history, current)

\* history.json tells what was current before, in that order, with nothing
\* missing but what is beyond its cap, whether or not an activation was stopped
\* between the two files; unless two activations overlapped.
HistoryIsRecent ==
  ~raced =>
    /\ IsPrefix(Earlier, recent)
    /\ Len(Earlier) < HistoryCap - 1 => Earlier = recent

\* A rollback that names no version and ends leaves another build current, and
\* one that had been current before, though an activation was stopped before.
RollbackSwitches ==
  [][\A p \in Procs :
       WriteCurrent(p) /\ default[p] /\ ~raced =>
         \E i \in 1..Len(recent) : recent[i] = current' /\ current' # current]_vars
================================================================================
