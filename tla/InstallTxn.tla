------------------------------ MODULE InstallTxn ------------------------------
(***************************************************************************)
(* bin/ullage-install as a transaction: one action per command that        *)
(* changes the disk, and one per shell variable the rollback trap reads,   *)
(* because a signal may land between the two.  The shell runs its trap     *)
(* once the command in progress has ended, so a signal is an alternative   *)
(* to the next step and the rollback sees exactly the variables set so far.*)
(***************************************************************************)
EXTENDS MappingDisk

VARIABLES
  pc,             \* the next command of the script
  opt,            \* the options and the depot of this run
  appinfoTmp,     \* APPINFO_TMP, the copy the edits are made on
  appinfoBackup,  \* APPINFO_BACKUP
  plan,           \* which launcher each entry is given: LAUNCHER_PLAN
  temps,          \* which of APPINFO_TMP, LAUNCHER_PLAN and CLOUD_STATE_TMP exist
  done,           \* the plan's launchers the current loop has dealt with
  fileBackup,     \* CONFIG_BACKUP, STATE_BACKUP, CLOUD_STATE_BACKUP
  launcherBackup, \* the launchers' *.backup.STAMP files
  flags,          \* which of the variables in FlagNames are 1
  code,           \* the exit status
  pre,            \* history: the disk when the run began
  stopAt,         \* history: the pc the rollback interrupted
  steamWrote      \* history: Steam rewrote the record during this run

editVars == <<appinfoTmp, appinfoBackup, plan, temps>>
undoVars == <<fileBackup, launcherBackup, flags>>
runVars == <<opt, code, pre, stopAt, steamWrote>>
installVars == <<pc, editVars, done, undoVars, runVars>>
vars == <<diskVars, installVars>>

\* The number of the install in progress, which its files carry.
gen == runs

NoEntry == Native

Options ==
  [force : BOOLEAN, cloud : BOOLEAN, client : BOOLEAN,
   entry : Entries \cup {NoEntry},   \* LAUNCH_ENTRY
   depot : SUBSET Entries]           \* the entries whose PE is in the depot

\* "appinfo" is APPINFO_INSTALLED, "config" CONFIG_INSTALLED, "state"
\* STATE_INSTALLED, "cloud" CLOUD_STATE_INSTALLED, "launchers"
\* LAUNCHERS_COMMITTED and "links" CLOUD_NATIVE_APPLIED.
FlagNames == {"appinfo", "links", "launchers"} \cup Files

PlannedLaunchers == {plan[e] : e \in Entries} \ {Native}

\* Where the script can be: before its trap, with the trap armed (at a command
\* or at an assignment), in the rollback, or ended.
Unarmed == {"client", "check"}
Commands ==
  {"copy", "restoreState", "restoreCloud", "makeLaunchers", "patch",
   "cloudInstall", "mvAppinfo", "backupConfig", "backupState", "backupCloud",
   "commitPlan", "mvConfig", "mvLaunchers", "mvState", "mvCloud",
   "mvManifest", "dropPlan", "disarm"}
Assignments ==
  {"flagLinks", "flagAppinfo", "flagConfig", "flagLaunchers", "flagState",
   "flagCloud"}
Armed == Commands \cup Assignments
RollingBack ==
  {"rbCloud", "rbLaunchers", "rbAppinfo", "rbRemoveConfig", "rbRemoveState",
   "rbRemoveCloud", "rbRestoreConfig", "rbRestoreState", "rbRestoreCloud"}
Ended == {"idle", "refused", "committed", "rolledBack", "crashed"}
Labels == Unarmed \cup Armed \cup RollingBack \cup Ended

Snapshot ==
  [appinfo |-> appinfo, file |-> file, launcher |-> launcher,
   links |-> links, manifest |-> manifest]

TypeOK ==
  /\ DiskTypeOK
  /\ pc \in Labels
  /\ opt \in Options
  /\ appinfoTmp \in Appinfo
  /\ appinfoBackup \in Appinfo
  /\ plan \in Launch
  /\ temps \subseteq {"appinfo", "plan", "cloudState"}
  /\ done \subseteq Launchers
  /\ fileBackup \in [Files -> Run]
  /\ launcherBackup \in [Launchers -> Run]
  /\ flags \subseteq FlagNames
  /\ code \in {0, 1}
  /\ pre \in [appinfo : Appinfo, file : [Files -> Run],
              launcher : [Launchers -> Run], links : SUBSET Roots,
              manifest : Run]
  /\ stopAt \in Armed \cup {"idle"}
  /\ steamWrote \in BOOLEAN

Init ==
  /\ DiskInit
  /\ pc = "idle"
  /\ opt = [force |-> FALSE, cloud |-> FALSE, client |-> FALSE,
            entry |-> NoEntry, depot |-> {}]
  /\ appinfoTmp = NoAppinfo
  /\ appinfoBackup = NoAppinfo
  /\ plan = AllNative
  /\ temps = {}
  /\ done = {}
  /\ fileBackup = [f \in Files |-> 0]
  /\ launcherBackup = [l \in Launchers |-> 0]
  /\ flags = {}
  /\ code = 0
  /\ pre = Snapshot
  /\ stopAt = "idle"
  /\ steamWrote = FALSE

--------------------------------------------------------------------------------
(* Before the trap is armed.                                               *)

\* A run starts only with Steam stopped; the script looks once, here.
Begin(o) ==
  /\ pc \in Ended
  /\ runs < MaxRuns
  /\ ~steamRunning
  /\ runs' = runs + 1
  /\ pc' = "client"
  /\ opt' = o
  /\ plan' = AllNative
  /\ temps' = {}
  /\ done' = {}
  /\ fileBackup' = [f \in Files |-> 0]
  /\ launcherBackup' = [l \in Launchers |-> 0]
  /\ flags' = {}
  /\ code' = 0
  /\ pre' = Snapshot
  /\ stopAt' = "idle"
  /\ steamWrote' = FALSE
  /\ appinfoTmp' = NoAppinfo
  /\ appinfoBackup' = NoAppinfo
  /\ UNCHANGED <<appinfo, file, launcher, links, manifest, recorded,
                 steamRunning, steamWrites>>

\* die, where no trap is armed yet: nothing is undone.
Refuse ==
  /\ pc' = "refused"
  /\ code' = 1
  /\ UNCHANGED <<diskVars, editVars, done, undoVars, opt, pre, stopAt,
                 steamWrote>>

\* The user-owned Steam client files go into the prefix, and their manifest
\* into a temporary file.
StageSteamClient ==
  /\ pc = "client"
  /\ IF opt.client /\ manifest # 0 /\ ~opt.force
     THEN Refuse
     ELSE /\ pc' = "check"
          /\ UNCHANGED <<diskVars, editVars, done, undoVars, runVars>>

\* Without --force nothing that was generated before may exist.
CheckExisting ==
  /\ pc = "check"
  /\ IF /\ ~opt.force
        /\ \/ file["config"] # 0
           \/ file["state"] # 0
           \/ launcher[Main] # 0
           \/ opt.cloud /\ file["cloud"] # 0
     THEN Refuse
     ELSE /\ pc' = "copy"
          /\ UNCHANGED <<diskVars, editVars, done, undoVars, runVars>>

\* Mutant of FailUnarmed: the trap is armed before the staging.
FailUnarmedTrapped ==
  /\ "fail" \in Faults
  /\ pc \in Unarmed
  /\ pc' = "rbCloud"
  /\ code' = 1
  /\ stopAt' = pc
  /\ UNCHANGED <<diskVars, editVars, done, undoVars, opt, pre, steamWrote>>

\* A file the script needs is missing, or staging fails.
FailUnarmed ==
  /\ "fail" \in Faults
  /\ pc \in Unarmed
  /\ Refuse

--------------------------------------------------------------------------------
(* With the trap armed: the edits, all made on copies except for the links.*)

\* The trap runs: c is the status of the command it interrupted.
Abort(c) ==
  /\ pc' = "rbCloud"
  /\ code' = c
  /\ stopAt' = pc
  /\ UNCHANGED <<diskVars, editVars, done, undoVars, opt, pre, steamWrote>>

CopyAppinfo ==
  /\ pc = "copy"
  /\ pc' = "restoreState"
  /\ appinfoBackup' = appinfo
  /\ appinfoTmp' = appinfo
  /\ temps' = temps \cup {"appinfo"}
  /\ UNCHANGED <<diskVars, plan, done, undoVars, runVars>>

\* Mutant of RestoreOldState: the previous mapping is not undone.
RestoreOldStateSkipped ==
  /\ pc = "restoreState"
  /\ pc' = "restoreCloud"
  /\ UNCHANGED <<diskVars, editVars, done, undoVars, runVars>>

\* The previous install's record is undone in the copy, or the run dies.
RestoreOldState ==
  LET rec == recorded[file["state"]]
  IN /\ pc = "restoreState"
     /\ IF file["state"] # 0 /\ ~Restorable(rec, appinfoTmp.launch)
        THEN Abort(1)
        ELSE /\ pc' = "restoreCloud"
             /\ appinfoTmp' =
                  IF file["state"] = 0 THEN appinfoTmp
                  ELSE [appinfoTmp EXCEPT
                          !.launch = RestoredLaunch(rec, appinfoTmp.launch)]
             /\ UNCHANGED <<diskVars, appinfoBackup, plan, temps, done,
                            undoVars, runVars>>

\* The override is undone in the copy, but the old links are removed for real.
RestoreOldCloud ==
  LET rec == recorded[file["cloud"]]
      old == opt.cloud /\ file["cloud"] # 0
  IN /\ pc = "restoreCloud"
     /\ IF old /\ ~CloudRestorable(appinfoTmp)
        THEN Abort(1)
        ELSE /\ pc' = "makeLaunchers"
             /\ appinfoTmp' =
                  IF old THEN RestoredCloud(rec, appinfoTmp) ELSE appinfoTmp
             /\ links' = IF old THEN links \ rec.owned ELSE links
             /\ UNCHANGED <<appinfo, file, launcher, manifest, recorded, runs,
                            steamRunning, steamWrites, appinfoBackup, plan,
                            temps, done, undoVars, runVars>>

\* The entries windows_launches lists: still native, and present in the depot.
WindowsEntries == {e \in opt.depot : appinfoTmp.launch[e] = Native}

\* One launcher when one entry was asked for or only one is usable, and else
\* one for each usable entry.  With one that is usable the script asks for the
\* first whose name matches, which may be another of that name: the plans are
\* those of opt.entry.
ChosenPlan ==
  LET one(e) == [AllNative EXCEPT ![e] = Main]
  IN IF opt.entry # NoEntry
     THEN one(opt.entry)
     ELSE IF \E e \in Entries : WindowsEntries = {e}
          THEN one(CHOOSE e \in Entries : WindowsEntries = {e})
          ELSE [e \in Entries |-> IF e \in WindowsEntries THEN e ELSE Native]

\* No usable entry, or a per-entry launcher that exists and no --force: die.
MakeLaunchers ==
  /\ pc = "makeLaunchers"
  /\ IF \/ ChosenPlan = AllNative
        \/ ~opt.force /\ \E e \in Entries : ChosenPlan[e] = e /\ launcher[e] # 0
     THEN Abort(1)
     ELSE /\ pc' = "patch"
          /\ plan' = ChosenPlan
          /\ temps' = temps \cup {"plan"}
          /\ UNCHANGED <<diskVars, appinfoTmp, appinfoBackup, done, undoVars,
                         runVars>>

\* CONFIG_TMP is written, the copy patched, and STATE_TMP records the patch.
Patch ==
  /\ pc = "patch"
  /\ pc' = IF opt.cloud THEN "cloudInstall" ELSE "mvAppinfo"
  /\ appinfoTmp' =
       [appinfoTmp EXCEPT !.launch =
          [e \in Entries |-> IF plan[e] # Native THEN plan[e] ELSE @[e]]]
  /\ recorded' =
       [recorded EXCEPT ![gen] = [@ EXCEPT !.map = plan,
                                           !.orig = appinfoTmp.launch]]
  /\ UNCHANGED <<appinfo, file, launcher, links, manifest, runs, steamRunning,
                 steamWrites, appinfoBackup, plan, temps, done, undoVars,
                 runVars>>

\* ullage-cloud-native install: a link that is already right is used, not owned.
CloudInstall ==
  /\ pc = "cloudInstall"
  /\ pc' = "flagLinks"
  /\ appinfoTmp' = [appinfoTmp EXCEPT !.cloud = TRUE]
  /\ links' = Roots
  /\ recorded' =
       [recorded EXCEPT ![gen] = [@ EXCEPT !.cloudOrig = appinfoTmp.cloud,
                                           !.owned = Roots \ links]]
  /\ temps' = temps \cup {"cloudState"}
  /\ UNCHANGED <<appinfo, file, launcher, manifest, runs, steamRunning,
                 steamWrites, appinfoBackup, plan, done, undoVars, runVars>>

SetFlag(flag, here, next) ==
  /\ pc = here
  /\ pc' = next
  /\ flags' = flags \cup {flag}
  /\ UNCHANGED <<diskVars, editVars, done, fileBackup, launcherBackup, runVars>>

--------------------------------------------------------------------------------
(* The commit.                                                             *)

MvAppinfo ==
  /\ pc = "mvAppinfo"
  /\ pc' = "flagAppinfo"
  /\ appinfo' = appinfoTmp
  /\ temps' = temps \ {"appinfo"}
  /\ UNCHANGED <<file, launcher, links, manifest, recorded, runs, steamRunning,
                 steamWrites, appinfoTmp, appinfoBackup, plan, done, undoVars,
                 runVars>>

\* Mutant of BackupFile: the new file is moved over the old one.
BackupFileSkipped(f, here, next) ==
  /\ pc = here
  /\ pc' = next
  /\ UNCHANGED <<diskVars, editVars, done, undoVars, runVars>>

\* The script names the backup before it moves the file.  A rollback between
\* the two finds the file in place and leaves it, so one action stands for both.
BackupFile(f, here, next) ==
  /\ pc = here
  /\ pc' = next
  /\ IF file[f] # 0 /\ (f = "cloud" => opt.cloud)
     THEN /\ file' = [file EXCEPT ![f] = 0]
          /\ fileBackup' = [fileBackup EXCEPT ![f] = file[f]]
     ELSE UNCHANGED <<file, fileBackup>>
  /\ UNCHANGED <<appinfo, launcher, links, manifest, recorded, runs,
                 steamRunning, steamWrites, editVars, done, launcherBackup,
                 flags, runVars>>

\* One line of LAUNCHER_COMMIT_PLAN, written before the launcher is moved.
CommitPlanLine(l) ==
  /\ pc = "commitPlan"
  /\ l \in PlannedLaunchers \ done
  /\ done' = done \cup {l}
  /\ IF launcher[l] # 0
     THEN /\ launcher' = [launcher EXCEPT ![l] = 0]
          /\ launcherBackup' = [launcherBackup EXCEPT ![l] = launcher[l]]
     ELSE UNCHANGED <<launcher, launcherBackup>>
  /\ UNCHANGED <<pc, appinfo, file, links, manifest, recorded, runs,
                 steamRunning, steamWrites, editVars, fileBackup, flags,
                 runVars>>

CommitPlanEnd ==
  /\ pc = "commitPlan"
  /\ done = PlannedLaunchers
  /\ pc' = "mvConfig"
  /\ done' = {}
  /\ UNCHANGED <<diskVars, editVars, undoVars, runVars>>

RenameFile(f, here, next) ==
  /\ pc = here
  /\ pc' = next
  /\ file' = [file EXCEPT ![f] = gen]
  /\ temps' = IF f = "cloud" THEN temps \ {"cloudState"} ELSE temps
  /\ UNCHANGED <<appinfo, launcher, links, manifest, recorded, runs,
                 steamRunning, steamWrites, appinfoTmp, appinfoBackup, plan,
                 done, undoVars, runVars>>

MvLauncher(l) ==
  /\ pc = "mvLaunchers"
  /\ l \in PlannedLaunchers \ done
  /\ done' = done \cup {l}
  /\ launcher' = [launcher EXCEPT ![l] = gen]
  /\ UNCHANGED <<pc, appinfo, file, links, manifest, recorded, runs,
                 steamRunning, steamWrites, editVars, undoVars, runVars>>

MvLaunchersEnd ==
  /\ pc = "mvLaunchers"
  /\ done = PlannedLaunchers
  /\ pc' = "mvState"
  /\ done' = {}
  /\ UNCHANGED <<diskVars, editVars, undoVars, runVars>>

\* The manifest has neither a backup nor a flag.
MvManifest ==
  /\ pc = "mvManifest"
  /\ pc' = "dropPlan"
  /\ manifest' = IF opt.client THEN gen ELSE manifest
  /\ UNCHANGED <<appinfo, file, launcher, links, recorded, runs, steamRunning,
                 steamWrites, editVars, done, undoVars, runVars>>

DropPlan ==
  /\ pc = "dropPlan"
  /\ pc' = "disarm"
  /\ temps' = temps \ {"plan"}
  /\ UNCHANGED <<diskVars, appinfoTmp, appinfoBackup, plan, done, undoVars,
                 runVars>>

Disarm ==
  /\ pc = "disarm"
  /\ pc' = "committed"
  /\ UNCHANGED <<diskVars, editVars, done, undoVars, runVars>>

--------------------------------------------------------------------------------
(* The rollback.                                                           *)

\* Mutant of RollbackCloud: the restore helper is not called.
RollbackCloudSkipped ==
  /\ pc = "rbCloud"
  /\ pc' = "rbLaunchers"
  /\ temps' = temps \ {"appinfo", "cloudState"}
  /\ done' = {}
  /\ UNCHANGED <<diskVars, appinfoTmp, appinfoBackup, plan, undoVars, runVars>>

\* The new Cloud mapping is undone with its own record, if that is still a
\* temporary file and the appinfo it names exists; a failure is ignored.
RollbackCloud ==
  LET live == "appinfo" \in flags
      info == IF live THEN appinfo ELSE appinfoTmp
      undo == /\ "links" \in flags /\ "cloudState" \in temps
              /\ live \/ "appinfo" \in temps
              /\ CloudRestorable(info)
  IN /\ pc = "rbCloud"
     /\ pc' = "rbLaunchers"
     /\ appinfo' = IF undo /\ live THEN RestoredCloud(recorded[gen], appinfo)
                   ELSE appinfo
     /\ links' = IF undo THEN links \ recorded[gen].owned ELSE links
     /\ temps' = temps \ {"appinfo", "cloudState"}
     /\ done' = {}
     /\ UNCHANGED <<file, launcher, manifest, recorded, runs, steamRunning,
                    steamWrites, appinfoTmp, appinfoBackup, plan, undoVars,
                    runVars>>

\* The launchers restore_launchers finds a plan line for.
RollbackPlan == IF "plan" \in temps THEN PlannedLaunchers ELSE {}

\* Mutant of RollbackLauncher: new launchers go, old ones do not come back.
RollbackLauncherRemoveOnly(l) ==
  /\ pc = "rbLaunchers"
  /\ l \in RollbackPlan \ done
  /\ done' = done \cup {l}
  /\ launcher' = IF "launchers" \in flags THEN [launcher EXCEPT ![l] = 0]
                 ELSE launcher
  /\ UNCHANGED <<pc, appinfo, file, links, manifest, recorded, runs,
                 steamRunning, steamWrites, editVars, undoVars, runVars>>

RollbackLauncher(l) ==
  LET kept == IF "launchers" \in flags THEN 0 ELSE launcher[l]
  IN /\ pc = "rbLaunchers"
     /\ l \in RollbackPlan \ done
     /\ done' = done \cup {l}
     /\ IF kept = 0
        THEN /\ launcher' = [launcher EXCEPT ![l] = launcherBackup[l]]
             /\ launcherBackup' = [launcherBackup EXCEPT ![l] = 0]
        ELSE UNCHANGED <<launcher, launcherBackup>>
     /\ UNCHANGED <<pc, appinfo, file, links, manifest, recorded, runs,
                    steamRunning, steamWrites, editVars, fileBackup, flags,
                    runVars>>

RollbackLaunchersEnd ==
  /\ pc = "rbLaunchers"
  /\ done = RollbackPlan
  /\ pc' = "rbAppinfo"
  /\ done' = {}
  /\ UNCHANGED <<diskVars, editVars, undoVars, runVars>>

RollbackAppinfo ==
  /\ pc = "rbAppinfo"
  /\ pc' = "rbRemoveConfig"
  /\ appinfo' = IF "appinfo" \in flags THEN appinfoBackup ELSE appinfo
  /\ UNCHANGED <<file, launcher, links, manifest, recorded, runs, steamRunning,
                 steamWrites, editVars, done, undoVars, runVars>>

\* Mutant of RemoveInstalled: the new file stays, so the old one stays away.
RemoveInstalledSkipped(f, here, next) ==
  /\ pc = here
  /\ pc' = next
  /\ UNCHANGED <<diskVars, editVars, done, undoVars, runVars>>

RemoveInstalled(f, here, next) ==
  /\ pc = here
  /\ pc' = next
  /\ file' = IF f \in flags THEN [file EXCEPT ![f] = 0] ELSE file
  /\ UNCHANGED <<appinfo, launcher, links, manifest, recorded, runs,
                 steamRunning, steamWrites, editVars, done, undoVars, runVars>>

RestoreBackup(f, here, next) ==
  /\ pc = here
  /\ pc' = next
  /\ IF fileBackup[f] # 0 /\ file[f] = 0
     THEN /\ file' = [file EXCEPT ![f] = fileBackup[f]]
          /\ fileBackup' = [fileBackup EXCEPT ![f] = 0]
     ELSE UNCHANGED <<file, fileBackup>>
  /\ UNCHANGED <<appinfo, launcher, links, manifest, recorded, runs,
                 steamRunning, steamWrites, editVars, done, launcherBackup,
                 flags, runVars>>

--------------------------------------------------------------------------------
(* Faults.                                                                 *)

\* A command with the trap armed fails and set -e ends the script.  A step that
\* has no command to run for these options fails as the one after it would.
Fail ==
  /\ "fail" \in Faults
  /\ pc \in Commands \ {"disarm"}
  /\ Abort(1)

\* A signal: $? is the status of the last command, usually 0.
Signal ==
  /\ "signal" \in Faults
  /\ pc \in Armed
  /\ \E c \in {0, 1} : Abort(c)

\* KILL, a power cut, or a second fault inside the rollback.
Crash ==
  /\ "crash" \in Faults
  /\ pc \notin Ended
  /\ pc' = "crashed"
  /\ code' = 1
  /\ UNCHANGED <<diskVars, editVars, done, undoVars, opt, pre, stopAt,
                 steamWrote>>

Steam ==
  \/ /\ SteamStart \/ SteamStop
     /\ UNCHANGED installVars
  \/ /\ SteamRewrite
     /\ steamWrote' = TRUE
     /\ UNCHANGED <<pc, editVars, done, undoVars, opt, code, pre, stopAt>>

--------------------------------------------------------------------------------

AfterState == IF opt.cloud THEN "mvCloud" ELSE "mvManifest"

Prepare ==
  \/ StageSteamClient
  \/ CheckExisting
  \/ CopyAppinfo
  \/ RestoreOldState
  \/ RestoreOldCloud
  \/ MakeLaunchers
  \/ Patch
  \/ CloudInstall
  \/ SetFlag("links", "flagLinks", "mvAppinfo")

Commit ==
  \/ MvAppinfo
  \/ SetFlag("appinfo", "flagAppinfo", "backupConfig")
  \/ BackupFile("config", "backupConfig", "backupState")
  \/ BackupFile("state", "backupState", "backupCloud")
  \/ BackupFile("cloud", "backupCloud", "commitPlan")
  \/ \E l \in Launchers : CommitPlanLine(l)
  \/ CommitPlanEnd
  \/ RenameFile("config", "mvConfig", "flagConfig")
  \/ SetFlag("config", "flagConfig", "flagLaunchers")
  \/ SetFlag("launchers", "flagLaunchers", "mvLaunchers")
  \/ \E l \in Launchers : MvLauncher(l)
  \/ MvLaunchersEnd
  \/ RenameFile("state", "mvState", "flagState")
  \/ SetFlag("state", "flagState", AfterState)
  \/ RenameFile("cloud", "mvCloud", "flagCloud")
  \/ SetFlag("cloud", "flagCloud", "mvManifest")
  \/ MvManifest
  \/ DropPlan
  \/ Disarm

Rollback ==
  \/ RollbackCloud
  \/ \E l \in Launchers : RollbackLauncher(l)
  \/ RollbackLaunchersEnd
  \/ RollbackAppinfo
  \/ RemoveInstalled("config", "rbRemoveConfig", "rbRemoveState")
  \/ RemoveInstalled("state", "rbRemoveState", "rbRemoveCloud")
  \/ RemoveInstalled("cloud", "rbRemoveCloud", "rbRestoreConfig")
  \/ RestoreBackup("config", "rbRestoreConfig", "rbRestoreState")
  \/ RestoreBackup("state", "rbRestoreState", "rbRestoreCloud")
  \/ RestoreBackup("cloud", "rbRestoreCloud", "rolledBack")

Script == Prepare \/ Commit \/ Rollback

Next ==
  \/ \E o \in Options : Begin(o)
  \/ Script
  \/ FailUnarmed \/ Fail \/ Signal \/ Crash
  \/ Steam

Spec == Init /\ [][Next]_vars

--------------------------------------------------------------------------------
(* Properties.                                                             *)

\* Whatever happens, and wherever the script stops, everything the run found
\* is still on disk: in place, or in the backup the run made of it.
NothingLost ==
  pc # "idle" =>
    /\ \A f \in Files : pre.file[f] \in {0, file[f], fileBackup[f]}
    /\ \A l \in Launchers : pre.launcher[l] \in {0, launcher[l], launcherBackup[l]}
    /\ ~steamWrote => pre.appinfo \in {appinfo, appinfoBackup}

\* The assignment after the rename of each file.
FlagOf(f) ==
  CASE f = "config" -> "flagConfig"
    [] f = "state"  -> "flagState"
    [] f = "cloud"  -> "flagCloud"

\* After the cloud state has its final name the rollback no longer undoes the
\* links, and before CLOUD_NATIVE_APPLIED is set it does not know of them.
LinksUncovered ==
  {"flagLinks", "flagAppinfo", "flagCloud", "mvManifest", "dropPlan", "disarm"}

\* A rolled-back install leaves every file as it was, except the one whose
\* rename had ended and whose variable had not been set when a signal came, and
\* the launchers and the manifest of a signal in the script's last two steps.
RollbackRestoresFiles ==
  pc = "rolledBack" =>
    /\ \A f \in Files : stopAt # FlagOf(f) => file[f] = pre.file[f]
    /\ stopAt # "disarm" => launcher = pre.launcher
    /\ stopAt \notin {"dropPlan", "disarm"} => manifest = pre.manifest

\* It leaves appinfo.vdf as it was too, unless Steam wrote it meanwhile, and the
\* native Cloud links, unless there was a Cloud mapping before.
RollbackRestoresSteam ==
  pc = "rolledBack" /\ ~steamWrote =>
    /\ stopAt # "flagAppinfo" => appinfo = pre.appinfo
    /\ \/ stopAt \in LinksUncovered
       \/ opt.cloud /\ pre.file["cloud"] # 0
       \/ links = pre.links

AtRest == pc \in Ended \ {"crashed"}

\* Between runs, pressing Play on a mapped entry finds a launcher and a config.
PlayFindsLauncher ==
  AtRest =>
    \A e \in Entries : appinfo.launch[e] # Native =>
      launcher[appinfo.launch[e]] # 0 /\ file["config"] # 0

\* Between runs, every mapped entry is in the state file, which knows the
\* native executable to put back.
MappingIsRemovable ==
  AtRest =>
    \A e \in Entries : appinfo.launch[e] # Native =>
      /\ file["state"] # 0
      /\ recorded[file["state"]].map[e] = appinfo.launch[e]
      /\ recorded[file["state"]].orig[e] = Native
================================================================================
