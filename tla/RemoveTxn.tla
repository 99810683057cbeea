------------------------------- MODULE RemoveTxn -------------------------------
(***************************************************************************)
(* bin/ullage-remove: the record is restored in a copy, the copy replaces  *)
(* appinfo.vdf, and the launchers, the config and the state files are      *)
(* moved to backups.  The trap puts appinfo.vdf back when the exit status  *)
(* is not 0, and nothing else.                                             *)
(***************************************************************************)
EXTENDS MappingDisk

CONSTANT MaxRemoves  \* bound: removes started

\* There has been an install to remove.
ASSUME RemoveAssumption == MaxRemoves \in Nat /\ MaxRuns > 0

VARIABLES
  pc,            \* the next command of the script
  removes,       \* removes started so far
  appinfoTmp,    \* APPINFO_TMP
  appinfoBackup, \* APPINFO_BACKUP
  todo,          \* LAUNCHER_LIST, the lines not read yet
  fileMoved,     \* the *.bridge-backup.STAMP of the files
  launcherMoved, \* and of the launchers
  code,          \* the exit status
  pre,           \* history: the disk when the run began
  stopAt,        \* history: the pc the rollback interrupted
  steamWrote     \* history: Steam rewrote the record during this run

movedVars == <<fileMoved, launcherMoved>>
historyVars == <<removes, code, pre, stopAt, steamWrote>>
removeVars ==
  <<pc, appinfoTmp, appinfoBackup, todo, movedVars, historyVars>>
vars == <<diskVars, removeVars>>

Commands ==
  {"restore", "restoreCloud", "mvAppinfo", "listLaunchers", "moveLaunchers",
   "moveConfig", "moveState", "moveCloud", "disarm"}
Ended == {"idle", "refused", "removed", "rolledBack", "crashed"}
Labels == {"copy"} \cup Commands \cup {"rollback"} \cup Ended

\* The mapping record the state files hold, while they exist.
State == recorded[file["state"]]
CloudState == recorded[file["cloud"]]

StateLaunchers == {State.map[e] : e \in Entries} \ {Native}

TypeOK ==
  /\ DiskTypeOK
  /\ pc \in Labels
  /\ removes \in 0..MaxRemoves
  /\ appinfoTmp \in Appinfo
  /\ appinfoBackup \in Appinfo
  /\ todo \subseteq Launchers
  /\ fileMoved \in [Files -> Run]
  /\ launcherMoved \in [Launchers -> Run]
  /\ code \in {0, 1}
  /\ pre \in [appinfo : Appinfo, file : [Files -> Run],
              launcher : [Launchers -> Run], links : SUBSET Roots]
  /\ stopAt \in Commands \cup {"idle"}
  /\ steamWrote \in BOOLEAN

Snapshot ==
  [appinfo |-> appinfo, file |-> file, launcher |-> launcher, links |-> links]

\* The script's own variables before it runs.
ScriptInit ==
  /\ pc = "idle"
  /\ removes = 0
  /\ appinfoTmp = NoAppinfo
  /\ appinfoBackup = NoAppinfo
  /\ todo = {}
  /\ fileMoved = [f \in Files |-> 0]
  /\ launcherMoved = [l \in Launchers |-> 0]
  /\ code = 0
  /\ pre = Snapshot
  /\ stopAt = "idle"
  /\ steamWrote = FALSE

\* What a first install can leave behind: a plan for at least one entry, with
\* or without the Cloud mapping, owning some of its links.
InstalledDisk(map, cloud, owned) ==
  LET present(b) == IF b THEN 1 ELSE 0
  IN /\ appinfo = [launch |-> map, cloud |-> cloud]
     /\ file = [f \in Files |-> present(f = "cloud" => cloud)]
     /\ launcher =
          [l \in Launchers |-> present(\E e \in Entries : map[e] = l)]
     /\ links = IF cloud THEN Roots ELSE {}
     /\ manifest = 0
     /\ recorded =
          [g \in Run |->
             IF g = 1 THEN [map |-> map, orig |-> AllNative,
                            cloudOrig |-> FALSE, owned |-> owned]
             ELSE NoRecord]
     /\ runs = 1
     /\ steamRunning = FALSE
     /\ steamWrites = 0

\* The plans of an install: one launcher for one entry, or each entry its own.
InstalledMaps ==
  {[AllNative EXCEPT ![e] = Main] : e \in Entries}
  \cup {[e \in Entries |-> IF e \in S THEN e ELSE Native] :
          S \in {T \in SUBSET Entries : Cardinality(T) > 1}}

Init ==
  /\ \E map \in InstalledMaps, cloud \in BOOLEAN, owned \in SUBSET Roots :
       /\ owned # {} => cloud
       /\ InstalledDisk(map, cloud, owned)
  /\ ScriptInit

--------------------------------------------------------------------------------
(* The script.                                                             *)

\* Steam must be stopped, which the script looks at once, and a state file
\* must exist.
Begin ==
  /\ pc \in Ended
  /\ removes < MaxRemoves
  /\ removes' = removes + 1
  /\ pc' = IF steamRunning \/ file["state"] = 0 THEN "refused" ELSE "copy"
  /\ code' = IF steamRunning \/ file["state"] = 0 THEN 1 ELSE 0
  /\ appinfoTmp' = NoAppinfo
  /\ appinfoBackup' = NoAppinfo
  /\ todo' = {}
  /\ fileMoved' = [f \in Files |-> 0]
  /\ launcherMoved' = [l \in Launchers |-> 0]
  /\ pre' = Snapshot
  /\ stopAt' = "idle"
  /\ steamWrote' = FALSE
  /\ UNCHANGED diskVars

Copy ==
  /\ pc = "copy"
  /\ pc' = "restore"
  /\ appinfoBackup' = appinfo
  /\ appinfoTmp' = appinfo
  /\ UNCHANGED <<diskVars, todo, movedVars, historyVars>>

\* The trap runs: c is the status of the command it interrupted.
Abort(c) ==
  /\ pc' = "rollback"
  /\ code' = c
  /\ stopAt' = pc
  /\ UNCHANGED <<diskVars, appinfoTmp, appinfoBackup, todo, movedVars, removes,
                 pre, steamWrote>>

Restore ==
  /\ pc = "restore"
  /\ IF Restorable(State, appinfoTmp.launch)
     THEN /\ pc' = "restoreCloud"
          /\ appinfoTmp' = [appinfoTmp EXCEPT
                              !.launch = RestoredLaunch(State, appinfoTmp.launch)]
          /\ UNCHANGED <<diskVars, appinfoBackup, todo, movedVars, historyVars>>
     ELSE Abort(1)

\* Mutant of RestoreCloud: the links go before the override is looked at.
RestoreCloudLinksFirst ==
  /\ pc = "restoreCloud"
  /\ LET ok == file["cloud"] = 0 \/ CloudRestorable(appinfoTmp)
     IN /\ pc' = IF ok THEN "mvAppinfo" ELSE "rollback"
        /\ code' = IF ok THEN code ELSE 1
        /\ stopAt' = IF ok THEN stopAt ELSE pc
        /\ appinfoTmp' = IF ok /\ file["cloud"] # 0
                         THEN RestoredCloud(CloudState, appinfoTmp)
                         ELSE appinfoTmp
  /\ links' = IF file["cloud"] # 0 THEN links \ CloudState.owned ELSE links
  /\ UNCHANGED <<appinfo, file, launcher, manifest, recorded, runs,
                 steamRunning, steamWrites, appinfoBackup, todo, movedVars,
                 removes, pre, steamWrote>>

\* The override goes from the copy, but the links go from the disk.
RestoreCloud ==
  /\ pc = "restoreCloud"
  /\ IF file["cloud"] # 0 /\ ~CloudRestorable(appinfoTmp)
     THEN Abort(1)
     ELSE /\ pc' = "mvAppinfo"
          /\ IF file["cloud"] # 0
             THEN /\ appinfoTmp' = RestoredCloud(CloudState, appinfoTmp)
                  /\ links' = links \ CloudState.owned
             ELSE UNCHANGED <<appinfoTmp, links>>
          /\ UNCHANGED <<appinfo, file, launcher, manifest, recorded, runs,
                         steamRunning, steamWrites, appinfoBackup, todo,
                         movedVars, historyVars>>

MvAppinfo ==
  /\ pc = "mvAppinfo"
  /\ pc' = "listLaunchers"
  /\ appinfo' = appinfoTmp
  /\ UNCHANGED <<file, launcher, links, manifest, recorded, runs, steamRunning,
                 steamWrites, appinfoTmp, appinfoBackup, todo, movedVars,
                 historyVars>>

\* Mutant of ListLaunchers: only APPID.sh, as before there were entry launchers.
ListMainLauncher ==
  /\ pc = "listLaunchers"
  /\ pc' = "moveLaunchers"
  /\ todo' = {Main}
  /\ UNCHANGED <<diskVars, appinfoTmp, appinfoBackup, movedVars, historyVars>>

ListLaunchers ==
  /\ pc = "listLaunchers"
  /\ pc' = "moveLaunchers"
  /\ todo' = IF StateLaunchers = {} THEN {Main} ELSE StateLaunchers
  /\ UNCHANGED <<diskVars, appinfoTmp, appinfoBackup, movedVars, historyVars>>

MoveLauncher(l) ==
  /\ pc = "moveLaunchers"
  /\ l \in todo
  /\ todo' = todo \ {l}
  /\ launcher' = [launcher EXCEPT ![l] = 0]
  /\ launcherMoved' = [launcherMoved EXCEPT ![l] = launcher[l]]
  /\ UNCHANGED <<pc, appinfo, file, links, manifest, recorded, runs,
                 steamRunning, steamWrites, appinfoTmp, appinfoBackup,
                 fileMoved, historyVars>>

MoveLaunchersEnd ==
  /\ pc = "moveLaunchers"
  /\ todo = {}
  /\ pc' = "moveConfig"
  /\ UNCHANGED <<diskVars, appinfoTmp, appinfoBackup, todo, movedVars,
                 historyVars>>

\* Mutant of MoveFile: the file is unlinked.
UnlinkFile(f, here, next) ==
  /\ pc = here
  /\ pc' = next
  /\ file' = [file EXCEPT ![f] = 0]
  /\ UNCHANGED <<appinfo, launcher, links, manifest, recorded, runs,
                 steamRunning, steamWrites, appinfoTmp, appinfoBackup, todo,
                 movedVars, historyVars>>

MoveFile(f, here, next) ==
  /\ pc = here
  /\ pc' = next
  /\ file' = [file EXCEPT ![f] = 0]
  /\ fileMoved' = [fileMoved EXCEPT ![f] = file[f]]
  /\ UNCHANGED <<appinfo, launcher, links, manifest, recorded, runs,
                 steamRunning, steamWrites, appinfoTmp, appinfoBackup, todo,
                 launcherMoved, historyVars>>

Disarm ==
  /\ pc = "disarm"
  /\ pc' = "removed"
  /\ UNCHANGED <<diskVars, appinfoTmp, appinfoBackup, todo, movedVars,
                 historyVars>>

\* Mutant of Rollback: the exit status is not looked at.
RollbackIgnoresStatus ==
  /\ pc = "rollback"
  /\ pc' = "rolledBack"
  /\ UNCHANGED <<diskVars, appinfoTmp, appinfoBackup, todo, movedVars,
                 historyVars>>

Rollback ==
  /\ pc = "rollback"
  /\ pc' = "rolledBack"
  /\ appinfo' = IF code # 0 THEN appinfoBackup ELSE appinfo
  /\ UNCHANGED <<file, launcher, links, manifest, recorded, runs, steamRunning,
                 steamWrites, appinfoTmp, appinfoBackup, todo, movedVars,
                 historyVars>>

--------------------------------------------------------------------------------
(* Faults.                                                                 *)

\* With no Cloud state the last command of all is the move of the state file.
Fail ==
  /\ "fail" \in Faults
  /\ pc \in Commands \ {"disarm"}
  /\ pc = "moveCloud" => file["cloud"] # 0
  /\ Abort(1)

Signal ==
  /\ "signal" \in Faults
  /\ pc \in Commands
  /\ \E c \in {0, 1} : Abort(c)

\* KILL, a power cut, or any end before the trap is set.
Crash ==
  /\ "crash" \in Faults
  /\ pc \notin Ended
  /\ pc' = "crashed"
  /\ code' = 1
  /\ UNCHANGED <<diskVars, appinfoTmp, appinfoBackup, todo, movedVars, removes,
                 pre, stopAt, steamWrote>>

Steam ==
  \/ /\ SteamStart \/ SteamStop
     /\ UNCHANGED removeVars
  \/ /\ SteamRewrite
     /\ steamWrote' = TRUE
     /\ UNCHANGED <<pc, appinfoTmp, appinfoBackup, todo, movedVars, removes,
                    code, pre, stopAt>>

--------------------------------------------------------------------------------

Script ==
  \/ Copy
  \/ Restore
  \/ RestoreCloud
  \/ MvAppinfo
  \/ ListLaunchers
  \/ \E l \in Launchers : MoveLauncher(l)
  \/ MoveLaunchersEnd
  \/ MoveFile("config", "moveConfig", "moveState")
  \/ MoveFile("state", "moveState", "moveCloud")
  \/ MoveFile("cloud", "moveCloud", "disarm")
  \/ Disarm
  \/ Rollback

Next == Begin \/ Script \/ Fail \/ Signal \/ Crash \/ Steam

Spec == Init /\ [][Next]_vars

--------------------------------------------------------------------------------
(* Properties.                                                             *)

\* Whatever happens, and wherever the script stops, the files, the launchers
\* and the record it found are still on disk, in place or moved to a backup.
RemoveLosesNothing ==
  pc # "idle" =>
    /\ \A f \in Files : pre.file[f] \in {0, file[f], fileMoved[f]}
    /\ \A l \in Launchers : pre.launcher[l] \in {0, launcher[l], launcherMoved[l]}
    /\ ~steamWrote => pre.appinfo \in {appinfo, appinfoBackup}

\* A remove that succeeds leaves the game as it was before the install: native
\* entries, the overrides and links gone, no launcher, no config and no state.
RemovedMeansNative ==
  pc = "removed" =>
    LET rec == recorded[pre.file["state"]]
        cloudRec == recorded[pre.file["cloud"]]
    IN /\ \A e \in Entries : rec.map[e] # Native =>
            /\ appinfo.launch[e] \in {rec.orig[e], Native}
            /\ launcher[rec.map[e]] = 0
       /\ file = [f \in Files |-> 0]
       /\ pre.file["cloud"] # 0 =>
            /\ links \cap cloudRec.owned = {}
            /\ ~steamWrote => appinfo.cloud = cloudRec.cloudOrig

\* A remove that refuses, because the record or an override is no longer what
\* the install wrote, has changed nothing.
RefusalChangesNothing ==
  pc = "rolledBack" /\ stopAt \in {"restore", "restoreCloud"} /\ ~steamWrote =>
    Snapshot = pre

\* A remove that fails leaves appinfo.vdf as it was.
FailureKeepsRecord ==
  pc = "rolledBack" /\ code # 0 /\ ~steamWrote => appinfo = pre.appinfo

\* The checks of a remove that would now be run succeed.
Removable(info, stateFile, cloudFile) ==
  /\ stateFile # 0 /\ Restorable(recorded[stateFile], info.launch)
  /\ cloudFile # 0 => CloudRestorable(info)

\* A remove that fails can be tried again: if the record could be restored
\* before, it can be restored still, until the state file has been moved.
RetryAfterFailure ==
  (/\ pc = "rolledBack" /\ code # 0 /\ ~steamWrote
   /\ stopAt \notin {"moveCloud", "disarm"}
   /\ Removable(pre.appinfo, pre.file["state"], pre.file["cloud"]))
  => Removable(appinfo, file["state"], file["cloud"])
================================================================================
