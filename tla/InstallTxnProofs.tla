--------------------------- MODULE InstallTxnProofs ---------------------------
(***************************************************************************)
(* Proofs about InstallTxn, for any launch options, any Cloud roots, any   *)
(* number of installs and all the faults.                                  *)
(***************************************************************************)
EXTENDS InstallTxn, TLAPS

(* Where each file is while the script runs.  A file is kept in place, then *)
(* moved away to its backup, then replaced by the new one, and last its     *)
(* variable is set.                                                         *)

Editing ==
  Unarmed \cup
  {"copy", "restoreState", "restoreCloud", "makeLaunchers", "patch",
   "cloudInstall", "flagLinks", "mvAppinfo", "flagAppinfo"}

KeptAt(f) ==
  Editing \cup
  CASE f = "config" -> {"backupConfig"}
    [] f = "state"  -> {"backupConfig", "backupState"}
    [] f = "cloud"  -> {"backupConfig", "backupState", "backupCloud"}

AwayAt(f) ==
  CASE f = "config" -> {"backupState", "backupCloud", "commitPlan", "mvConfig"}
    [] f = "state"  -> {"backupCloud", "commitPlan", "mvConfig", "flagConfig",
                        "flagLaunchers", "mvLaunchers", "mvState"}
    [] f = "cloud"  -> {"commitPlan", "mvConfig", "flagConfig", "flagLaunchers",
                        "mvLaunchers", "mvState", "flagState", "mvCloud"}

FlaggedAt(f) ==
  {"mvManifest", "dropPlan", "disarm"} \cup
  CASE f = "config" -> {"flagLaunchers", "mvLaunchers", "mvState", "flagState",
                        "mvCloud", "flagCloud"}
    [] f = "state"  -> {"mvCloud", "flagCloud"}
    [] f = "cloud"  -> {}

\* The rollback before it has removed the new f, and before it restores the old.
ToRemoveAt(f) ==
  {"rbCloud", "rbLaunchers", "rbAppinfo", "rbRemoveConfig"} \cup
  CASE f = "config" -> {}
    [] f = "state"  -> {"rbRemoveState"}
    [] f = "cloud"  -> {"rbRemoveState", "rbRemoveCloud"}

ToRestoreAt(f) ==
  {"rbRestoreConfig"} \cup
  CASE f = "config" -> {"rbRemoveState", "rbRemoveCloud"}
    [] f = "state"  -> {"rbRemoveCloud", "rbRestoreState"}
    [] f = "cloud"  -> {"rbRestoreState", "rbRestoreCloud"}

RestoredAt(f) ==
  {"rolledBack"} \cup
  CASE f = "config" -> {"rbRestoreState", "rbRestoreCloud"}
    [] f = "state"  -> {"rbRestoreCloud"}
    [] f = "cloud"  -> {}

Kept(f) == file[f] = pre.file[f] /\ fileBackup[f] = 0
Away(f) == file[f] = 0 /\ fileBackup[f] = pre.file[f]
New(f) == file[f] = gen /\ fileBackup[f] = pre.file[f]

\* Only an install with --cloud-native replaces the Cloud state.
Replaced(f) == f = "cloud" => opt.cloud

FileInvAt(f) ==
  /\ pc \in KeptAt(f) => Kept(f) /\ f \notin flags
  /\ pc \in Unarmed \cup Armed /\ ~Replaced(f) => Kept(f) /\ f \notin flags
  /\ pc \in AwayAt(f) /\ Replaced(f) => Away(f) /\ f \notin flags
  /\ pc = FlagOf(f) => New(f) /\ f \notin flags /\ Replaced(f)
  /\ pc \in FlaggedAt(f) /\ Replaced(f) => New(f) /\ f \in flags
  /\ pc \in ToRemoveAt(f) =>
       \/ (Kept(f) \/ Away(f)) /\ f \notin flags
       \/ New(f) /\ (f \in flags \/ stopAt = FlagOf(f))
  /\ pc \in ToRestoreAt(f) =>
       Kept(f) \/ Away(f) \/ (New(f) /\ stopAt = FlagOf(f))
  /\ pc \in RestoredAt(f) => file[f] = pre.file[f] \/ stopAt = FlagOf(f)
  /\ pc # "idle" => pre.file[f] \in {0, file[f], fileBackup[f]}
  /\ pc = "mvCloud" => opt.cloud

FileInv == \A f \in Files : FileInvAt(f)

(* Where each launcher is.  Only a planned launcher is ever moved; the      *)
(* loops over the plan have dealt with the launchers in done.               *)

Untouched == Editing \cup {"backupConfig", "backupState", "backupCloud"}
MovedAway == {"mvConfig", "flagConfig", "flagLaunchers"}
MovedIn ==
  {"mvState", "flagState", "mvCloud", "flagCloud", "mvManifest", "dropPlan",
   "disarm"}
PlanWritten ==
  {"patch", "cloudInstall", "flagLinks", "mvAppinfo", "flagAppinfo",
   "backupConfig", "backupState", "backupCloud", "commitPlan", "mvLaunchers"}
  \cup MovedAway \cup (MovedIn \ {"disarm"})

KeptL(l) == launcher[l] = pre.launcher[l] /\ launcherBackup[l] = 0
AwayL(l) == launcher[l] = 0 /\ launcherBackup[l] = pre.launcher[l]
NewL(l) == launcher[l] = gen /\ launcherBackup[l] = pre.launcher[l]
BackL(l) == launcher[l] = pre.launcher[l]
Planned(l) == l \in PlannedLaunchers
Committed == "launchers" \in flags

\* What the rollback can find of a launcher it has not dealt with.
UndoableL(l) ==
  \/ KeptL(l) /\ ~(Committed /\ Planned(l))
  \/ AwayL(l) /\ Planned(l)
  \/ NewL(l) /\ Planned(l) /\ Committed

\* The rollback has a plan to work from whenever there is work to do, except
\* after a signal in the script's last step.
PlanThere ==
  \/ "plan" \in temps
  \/ stopAt = "disarm"
  \/ \A l \in Launchers : KeptL(l)

PlanInv ==
  /\ pc \in Untouched \cup MovedAway => done = {} /\ ~Committed
  /\ pc \in PlanWritten => "plan" \in temps
  /\ pc = "commitPlan" => done \subseteq PlannedLaunchers /\ ~Committed
  /\ pc = "mvLaunchers" => done \subseteq PlannedLaunchers /\ Committed
  /\ pc \in MovedIn => Committed
  /\ pc \in {"rbCloud", "rbLaunchers"} => PlanThere

LauncherAt(l) ==
  /\ pc \in Untouched => KeptL(l)
  /\ pc = "commitPlan" => IF l \in done THEN AwayL(l) ELSE KeptL(l)
  /\ pc \in MovedAway => IF Planned(l) THEN AwayL(l) ELSE KeptL(l)
  /\ pc = "mvLaunchers" =>
       IF l \in done THEN NewL(l)
       ELSE IF Planned(l) THEN AwayL(l) ELSE KeptL(l)
  /\ pc \in MovedIn => IF Planned(l) THEN NewL(l) ELSE KeptL(l)
  /\ pc = "rbCloud" => UndoableL(l)
  /\ pc = "rbLaunchers" => IF l \in done THEN BackL(l) ELSE UndoableL(l)
  /\ pc \in (RollingBack \cup {"rolledBack"}) \ {"rbCloud", "rbLaunchers"} =>
       BackL(l) \/ stopAt = "disarm"
  /\ pc # "idle" =>
       pre.launcher[l] \in {0, launcher[l], launcherBackup[l]}

LauncherInv == \A l \in Launchers : LauncherAt(l)

(* The manifest is replaced last, and nothing puts it back.                 *)
ManifestInv ==
  /\ pc \in (Unarmed \cup Armed) \ {"dropPlan", "disarm"} =>
       manifest = pre.manifest
  /\ pc \in RollingBack \cup {"rolledBack"} =>
       manifest = pre.manifest \/ stopAt \in {"dropPlan", "disarm"}

(* appinfo.vdf, unless Steam wrote it during the run.  Until its backup     *)
(* exists it is not touched, and once it is replaced the backup is what the *)
(* run found.                                                               *)

BeforeCopy == Unarmed \cup {"copy"}
BeforeMove ==
  BeforeCopy \cup
  {"restoreState", "restoreCloud", "makeLaunchers", "patch", "cloudInstall",
   "flagLinks", "mvAppinfo"}
AfterMove == Armed \ (BeforeMove \cup {"flagAppinfo"})
BeforeUndo == {"rbCloud", "rbLaunchers", "rbAppinfo"}
AfterUndo == (RollingBack \cup {"rolledBack"}) \ BeforeUndo

Unchanged == appinfo = pre.appinfo
BackedUp == appinfoBackup = pre.appinfo
Live == "appinfo" \in flags

AppinfoInv ==
  pc # "idle" /\ ~steamWrote =>
    /\ pc \in BeforeMove => Unchanged /\ ~Live
    /\ pc \in Armed \ {"copy"} => BackedUp
    /\ pc = "flagAppinfo" => ~Live
    /\ pc \in AfterMove => Live
    /\ pc \in BeforeUndo =>
         (Unchanged /\ ~Live) \/ (BackedUp /\ (Live \/ stopAt = "flagAppinfo"))
    /\ pc \in AfterUndo => Unchanged \/ (BackedUp /\ stopAt = "flagAppinfo")
    /\ Unchanged \/ BackedUp

(* The native Cloud links of a run that had no Cloud mapping to replace.    *)

FirstCloud == ~(opt.cloud /\ pre.file["cloud"] # 0)

BeforeLinks ==
  Unarmed \cup
  {"copy", "restoreState", "restoreCloud", "makeLaunchers", "patch",
   "cloudInstall"}
AfterLinks == Armed \ BeforeLinks
CloudStateTemporary == AfterLinks \ {"flagCloud", "mvManifest", "dropPlan", "disarm"}

LinksKept == links = pre.links /\ "links" \notin flags
LinksMade == links = Roots /\ recorded[gen].owned = Roots \ pre.links

\* What RollbackCloud needs to be able to undo the links.
LinksUndoable ==
  /\ "links" \in flags /\ "cloudState" \in temps
  /\ IF Live THEN appinfo.cloud ELSE "appinfo" \in temps /\ appinfoTmp.cloud

LinksInv ==
  pc # "idle" /\ ~steamWrote /\ FirstCloud =>
    /\ pc \in BeforeLinks => LinksKept
    /\ pc \in Unarmed \cup Armed /\ ~opt.cloud => LinksKept
    /\ pc \in {"cloudInstall", "flagLinks"} => opt.cloud
    /\ pc \in AfterLinks /\ opt.cloud => LinksMade /\ appinfoTmp.cloud
    /\ pc \in AfterLinks \ {"flagLinks"} /\ opt.cloud => "links" \in flags
    /\ pc \in CloudStateTemporary /\ opt.cloud => "cloudState" \in temps
    /\ pc \in {"flagLinks", "mvAppinfo"} => "appinfo" \in temps
    /\ pc \in {"restoreState", "restoreCloud", "makeLaunchers", "patch",
               "cloudInstall"} => "appinfo" \in temps
    /\ pc \in {"flagAppinfo"} \cup AfterMove => appinfo = appinfoTmp
    /\ pc = "rbCloud" =>
         \/ stopAt \in LinksUncovered
         \/ LinksKept
         \/ LinksMade /\ LinksUndoable
    /\ pc \in (RollingBack \cup {"rolledBack"}) \ {"rbCloud"} =>
         stopAt \in LinksUncovered \/ links = pre.links

(* The mapping of a script that only fails: no signal, no crash.  x follows *)
(* y when every entry x maps is mapped by y, to the same launcher; what     *)
(* Steam does to the record always follows what was there.                  *)

Follows(x, y) == \A e \in Entries : x[e] \in {Native, y[e]}

\* The launch list of a record, the files and the launchers agree.
Playable(launch, f, ls) ==
  \A e \in Entries : launch[e] # Native =>
    ls[launch[e]] # 0 /\ f["config"] # 0
Removable(launch, f) ==
  \A e \in Entries : launch[e] # Native =>
    f["state"] # 0 /\ recorded[f["state"]].map[e] = launch[e]
Reversible(f) ==
  f["state"] # 0 =>
    \A e \in Entries : recorded[f["state"]].map[e] # Native =>
      recorded[f["state"]].orig[e] = Native
Fits(launch, f, ls) ==
  Playable(launch, f, ls) /\ Removable(launch, f) /\ Reversible(f)

Running == Labels \ Ended

FailOnlyInv ==
  /\ pc # "crashed"
  /\ stopAt \in (Commands \ {"disarm"}) \cup {"idle"}

DiskFits ==
  /\ pc \in Ended =>
       Fits(appinfo.launch, file, launcher) /\ file["state"] <= runs
  /\ pc \in Running =>
       Fits(pre.appinfo.launch, pre.file, pre.launcher) /\ pre.file["state"] < runs

\* The copy: the old mapping is undone before the plan is made, and the record
\* of the new one says so.
AfterChoice == (Armed \ BeforeMove) \cup {"cloudInstall", "flagLinks", "mvAppinfo"}
CopyInv ==
  /\ pc = "restoreState" => Follows(appinfoTmp.launch, pre.appinfo.launch)
  /\ pc \in {"restoreCloud", "makeLaunchers", "patch"} =>
       \A e \in Entries : appinfoTmp.launch[e] = Native
  /\ pc \in {"cloudInstall", "flagLinks", "mvAppinfo"} =>
       \A e \in Entries : appinfoTmp.launch[e] = plan[e]
  /\ pc \in AfterChoice =>
       /\ recorded[gen].map = plan
       /\ \A e \in Entries : recorded[gen].orig[e] = Native

\* The record in place: what was there until the move, then the plan.
PlaceInv ==
  /\ pc \in BeforeMove => Follows(appinfo.launch, pre.appinfo.launch) /\ ~Live
  /\ pc = "flagAppinfo" => ~Live
  /\ pc \in AfterMove => Live
  /\ pc \in {"flagAppinfo"} \cup AfterMove => Follows(appinfo.launch, plan)
  /\ pc \in Armed \ {"copy"} =>
       Follows(appinfoBackup.launch, pre.appinfo.launch)
  /\ pc \in BeforeUndo =>
       \/ ~Live /\ Follows(appinfo.launch, pre.appinfo.launch)
       \/ Live /\ Follows(appinfoBackup.launch, pre.appinfo.launch)
  /\ pc \in AfterUndo => Follows(appinfo.launch, pre.appinfo.launch)

MappingInv == FailOnlyInv /\ DiskFits /\ CopyInv /\ PlaceInv

\* The inductive invariant.
IInv ==
  /\ TypeOK
  /\ FileInv
  /\ PlanInv /\ LauncherInv
  /\ ManifestInv
  /\ AppinfoInv /\ LinksInv

--------------------------------------------------------------------------------
(* Types.                                                                  *)

\* An edit of a launch list in the copy, or of a record, keeps its type.
LEMMA AppinfoEdits ==
  ASSUME NEW info \in Appinfo, NEW rec \in Record
  PROVE  /\ RestoredLaunch(rec, info.launch) \in Launch
         /\ [info EXCEPT !.launch = RestoredLaunch(rec, info.launch)] \in Appinfo
         /\ RestoredCloud(rec, info) \in Appinfo
  BY DEF Appinfo, Record, Launch, RestoredLaunch, RestoredCloud

LEMMA RecordEdits ==
  ASSUME NEW rec \in Record, NEW info \in Appinfo, NEW p \in Launch,
         NEW S \in SUBSET Roots
  PROVE  /\ [rec EXCEPT !.map = p, !.orig = info.launch] \in Record
         /\ [rec EXCEPT !.cloudOrig = info.cloud, !.owned = S] \in Record
  BY DEF Record, Appinfo

LEMMA ChosenPlanType ==
  ASSUME TypeOK
  PROVE  ChosenPlan \in Launch
<1> DEFINE one(e) == [AllNative EXCEPT ![e] = Main]
<1>1. AllNative \in Launch /\ \A e \in Entries : one(e) \in Launch
  BY DEF AllNative, Launch, Launchers
<1>2. CASE opt.entry # NoEntry
  <2>1. opt.entry \in Entries
    BY <1>2 DEF TypeOK, Options
  <2> QED  BY <1>1, <1>2, <2>1 DEF ChosenPlan
<1>3. CASE opt.entry = NoEntry /\ \E e \in Entries : WindowsEntries = {e}
  <2> DEFINE c == CHOOSE e \in Entries : WindowsEntries = {e}
  <2>1. c \in Entries
    BY <1>3
  <2>2. ChosenPlan = one(c)
    BY <1>3 DEF ChosenPlan
  <2> QED  BY <1>1, <2>1, <2>2
<1>4. CASE opt.entry = NoEntry /\ ~ \E e \in Entries : WindowsEntries = {e}
  BY <1>4 DEF ChosenPlan, Launch, Launchers
<1> QED  BY <1>2, <1>3, <1>4

LEMMA TypeInit == Init => TypeOK
<1> SUFFICES ASSUME Init PROVE TypeOK
  OBVIOUS
<1> USE DEF Init
<1>1. AllNative \in Launch /\ NoAppinfo \in Appinfo /\ NoRecord \in Record
  BY DEF AllNative, NoAppinfo, NoRecord, Launch, Appinfo, Record
<1>2. 0 \in Run /\ 0 \in 0..MaxSteamWrites
  BY DiskAssumption DEF Run
<1>3. DiskTypeOK
  BY <1>1, <1>2 DEF DiskInit, DiskTypeOK
<1>4. opt \in Options
  BY DEF Options, NoEntry
<1>5. pc \in Labels /\ stopAt \in Armed \cup {"idle"}
  BY DEF Labels, Ended
<1>6. pre \in [appinfo : Appinfo, file : [Files -> Run],
               launcher : [Launchers -> Run], links : SUBSET Roots,
               manifest : Run]
  BY <1>3 DEF DiskTypeOK, Snapshot
<1> QED  BY <1>1, <1>2, <1>3, <1>4, <1>5, <1>6 DEF TypeOK

\* Each action leads to a label.
LEMMA LabelNext ==
  ASSUME pc \in Labels, stopAt \in Armed \cup {"idle"}, [Next]_vars
  PROVE  pc' \in Labels /\ stopAt' \in Armed \cup {"idle"}
<1> USE DEF Labels, Ended, Unarmed, Armed, Commands, Assignments, RollingBack
<1>1. CASE \E o \in Options : Begin(o)
  BY <1>1 DEF Begin
<1>2. CASE Prepare
  <2>1. CASE StageSteamClient \/ CheckExisting
    BY <2>1 DEF StageSteamClient, CheckExisting, Refuse, runVars
  <2>2. CASE CopyAppinfo \/ RestoreOldState \/ RestoreOldCloud
    BY <2>2 DEF CopyAppinfo, RestoreOldState, RestoreOldCloud, Abort, runVars
  <2>3. CASE MakeLaunchers \/ Patch \/ CloudInstall
    BY <2>3 DEF MakeLaunchers, Patch, CloudInstall, Abort, runVars
  <2>4. CASE SetFlag("links", "flagLinks", "mvAppinfo")
    BY <2>4 DEF SetFlag, runVars
  <2> QED  BY <1>2, <2>1, <2>2, <2>3, <2>4 DEF Prepare
<1>3. CASE Commit
  BY <1>3 DEF Commit, AfterState, MvAppinfo, SetFlag, BackupFile, RenameFile,
    CommitPlanLine, CommitPlanEnd, MvLauncher, MvLaunchersEnd, MvManifest,
    DropPlan, Disarm, runVars
<1>4. CASE Rollback
  BY <1>4 DEF Rollback, RollbackCloud, RollbackLauncher, RollbackLaunchersEnd,
    RollbackAppinfo, RemoveInstalled, RestoreBackup, runVars
<1>5. CASE FailUnarmed \/ Fail \/ Signal \/ Crash
  BY <1>5 DEF FailUnarmed, Refuse, Fail, Signal, Crash, Abort
<1>6. CASE Steam \/ UNCHANGED vars
  BY <1>6 DEF Steam, vars, installVars, runVars
<1> QED  BY <1>1, <1>2, <1>3, <1>4, <1>5, <1>6 DEF Next, Script

\* Each action keeps the types, in the order of Next.
LEMMA TypeNext == TypeOK /\ [Next]_vars => TypeOK'
<1> SUFFICES ASSUME TypeOK, [Next]_vars PROVE TypeOK'
  OBVIOUS
<1>0. pc' \in Labels /\ stopAt' \in Armed \cup {"idle"}
  BY LabelNext DEF TypeOK
<1> USE <1>0 DEF TypeOK, DiskTypeOK, vars, diskVars, installVars, editVars,
      undoVars, runVars
<1>z. 0 \in Run
  BY DiskAssumption DEF Run
<1>1. CASE \E o \in Options : Begin(o)
  <2> PICK o \in Options : Begin(o)
    BY <1>1
  <2>1. runs' \in Run
    BY DiskAssumption DEF Begin, Run
  <2>2. 0 \in Run /\ AllNative \in Launch /\ NoAppinfo \in Appinfo
    BY DiskAssumption DEF Run, AllNative, NoAppinfo, Launch, Appinfo
  <2>3. /\ fileBackup' \in [Files -> Run]
        /\ launcherBackup' \in [Launchers -> Run]
    BY <2>2 DEF Begin
  <2>4. pre' \in [appinfo : Appinfo, file : [Files -> Run],
                  launcher : [Launchers -> Run], links : SUBSET Roots,
                  manifest : Run]
    BY DEF Begin, Snapshot
  <2> QED  BY <2>1, <2>2, <2>3, <2>4 DEF Begin
<1>2. CASE Prepare
  <2>1. CASE StageSteamClient
    BY <2>1 DEF StageSteamClient, Refuse
  <2>2. CASE CheckExisting
    BY <2>2 DEF CheckExisting, Refuse
  <2>3. CASE CopyAppinfo
    BY <2>3 DEF CopyAppinfo
  <2>4. CASE RestoreOldState
    BY <2>4, AppinfoEdits DEF RestoreOldState, Abort, Files
  <2>5. CASE RestoreOldCloud
    <3> DEFINE rec == recorded[file["cloud"]]
    <3>1. rec \in Record
      BY DEF Files
    <3>2. RestoredCloud(rec, appinfoTmp) \in Appinfo
      BY <3>1, AppinfoEdits
    <3> HIDE DEF rec
    <3>3. appinfoTmp' \in {appinfoTmp, RestoredCloud(rec, appinfoTmp)}
      BY <2>5 DEF RestoreOldCloud, Abort, rec
    <3>4. links' \subseteq links
      BY <2>5 DEF RestoreOldCloud, Abort
    <3> QED  BY <2>5, <3>2, <3>3, <3>4 DEF RestoreOldCloud, Abort
  <2>6. CASE MakeLaunchers
    BY <2>6, ChosenPlanType DEF MakeLaunchers, Abort
  <2>7. CASE Patch
    <3>1. appinfoTmp' \in Appinfo
      BY <2>7 DEF Patch, Launch, Appinfo
    <3>2. recorded' \in [Run -> Record]
      BY <2>7, RecordEdits DEF Patch, gen
    <3> QED  BY <2>7, <3>1, <3>2 DEF Patch
  <2>8. CASE CloudInstall
    <3>1. appinfoTmp' \in Appinfo
      BY <2>8 DEF CloudInstall, Appinfo
    <3>2. recorded' \in [Run -> Record]
      BY <2>8, RecordEdits DEF CloudInstall, gen
    <3> QED  BY <2>8, <3>1, <3>2 DEF CloudInstall
  <2>9. CASE SetFlag("links", "flagLinks", "mvAppinfo")
    BY <2>9 DEF SetFlag, FlagNames
  <2> QED  BY <1>2, <2>1, <2>2, <2>3, <2>4, <2>5, <2>6, <2>7, <2>8, <2>9 DEF Prepare
<1>3. CASE Commit
  <2>1. CASE MvAppinfo
    BY <2>1 DEF MvAppinfo
  <2>2. ASSUME NEW f \in Files, NEW here, NEW next, BackupFile(f, here, next)
        PROVE  TypeOK'
    BY <2>2, <1>z DEF BackupFile
  <2>3. ASSUME NEW f \in Files, NEW here, NEW next, RenameFile(f, here, next)
        PROVE  TypeOK'
    BY <2>3 DEF RenameFile, gen
  <2>4. ASSUME NEW f \in FlagNames, NEW here, NEW next, SetFlag(f, here, next)
        PROVE  TypeOK'
    BY <2>4 DEF SetFlag
  <2>5. ASSUME NEW l \in Launchers, CommitPlanLine(l)
        PROVE  TypeOK'
    BY <2>5, <1>z DEF CommitPlanLine
  <2>6. ASSUME NEW l \in Launchers, MvLauncher(l)
        PROVE  TypeOK'
    BY <2>6 DEF MvLauncher, gen
  <2>7. CASE CommitPlanEnd \/ MvLaunchersEnd
    BY <2>7 DEF CommitPlanEnd, MvLaunchersEnd
  <2>8. CASE MvManifest \/ DropPlan \/ Disarm
    BY <2>8 DEF MvManifest, DropPlan, Disarm, gen
  <2> QED  BY <1>3, <2>1, <2>2, <2>3, <2>4, <2>5, <2>6, <2>7, <2>8
           DEF Commit, Files, FlagNames
<1>4. CASE Rollback
  <2>1. CASE RollbackCloud
    BY <2>1, AppinfoEdits DEF RollbackCloud, gen
  <2>2. ASSUME NEW l \in Launchers, RollbackLauncher(l)
        PROVE  TypeOK'
    BY <2>2, <1>z DEF RollbackLauncher
  <2>3. CASE RollbackLaunchersEnd \/ RollbackAppinfo
    BY <2>3 DEF RollbackLaunchersEnd, RollbackAppinfo
  <2>4. ASSUME NEW f \in Files, NEW here, NEW next, RemoveInstalled(f, here, next)
        PROVE  TypeOK'
    BY <2>4, <1>z DEF RemoveInstalled
  <2>5. ASSUME NEW f \in Files, NEW here, NEW next, RestoreBackup(f, here, next)
        PROVE  TypeOK'
    BY <2>5, <1>z DEF RestoreBackup
  <2> QED  BY <1>4, <2>1, <2>2, <2>3, <2>4, <2>5 DEF Rollback, Files
<1>5. CASE FailUnarmed \/ Fail \/ Signal \/ Crash
  BY <1>5 DEF FailUnarmed, Refuse, Fail, Signal, Crash, Abort
<1>6. CASE Steam
  <2>1. CASE (SteamStart \/ SteamStop) /\ UNCHANGED installVars
    BY <2>1 DEF SteamStart, SteamStop
  <2>2. CASE /\ SteamRewrite
             /\ UNCHANGED <<pc, editVars, done, undoVars, opt, code, pre, stopAt>>
             /\ steamWrote' = TRUE
    <3>1. appinfo' \in Appinfo
      BY <2>2 DEF SteamRewrite, Appinfo, Launch
    <3>2. steamWrites' \in 0..MaxSteamWrites
      BY <2>2, DiskAssumption DEF SteamRewrite
    <3> QED  BY <2>2, <3>1, <3>2 DEF SteamRewrite
  <2> QED  BY <1>6, <2>1, <2>2 DEF Steam
<1>7. CASE UNCHANGED vars
  BY <1>7
<1> QED  BY <1>1, <1>2, <1>3, <1>4, <1>5, <1>6, <1>7 DEF Next, Script

\* The type invariant holds for every value of the constants.
THEOREM TypeCorrect == Spec => []TypeOK
  BY TypeInit, TypeNext, PTL DEF Spec

--------------------------------------------------------------------------------
(* Files.                                                                  *)

LEMMA FileInit == Init => FileInv
  BY DEF Init, DiskInit, FileInv, FileInvAt, KeptAt, AwayAt, FlaggedAt, FlagOf,
     ToRemoveAt, ToRestoreAt, RestoredAt, Editing, Unarmed, Armed, Commands,
     Assignments, Files

\* A step that touches no file, and takes the script from one label to another
\* with every file in the same place, keeps the invariant.
LEMMA FileStep ==
  ASSUME TypeOK, FileInv, NEW f \in Files, [Next]_vars
  PROVE  FileInvAt(f)'
<1> USE DEF FileInv, FileInvAt, KeptAt, AwayAt, FlaggedAt, FlagOf,
     ToRemoveAt, ToRestoreAt, RestoredAt, Editing, Unarmed, Armed, Commands,
     Assignments, Files, Kept, Away, New, Replaced, gen, vars, diskVars, installVars, editVars, undoVars, runVars
<1>1. CASE \E o \in Options : Begin(o)
  BY <1>1 DEF Begin, Snapshot
<1>2. CASE Prepare
  <2>1. CASE StageSteamClient
    BY <2>1 DEF StageSteamClient, Refuse
  <2>2. CASE CheckExisting
    BY <2>2 DEF CheckExisting, Refuse
  <2>3. CASE CopyAppinfo
    BY <2>3 DEF CopyAppinfo
  <2>4. CASE RestoreOldState
    BY <2>4 DEF RestoreOldState, Abort
  <2>5. CASE RestoreOldCloud
    BY <2>5 DEF RestoreOldCloud, Abort
  <2>6. CASE MakeLaunchers
    BY <2>6 DEF MakeLaunchers, Abort
  <2>7. CASE Patch
    BY <2>7 DEF Patch
  <2>8. CASE CloudInstall
    BY <2>8 DEF CloudInstall
  <2>9. CASE SetFlag("links", "flagLinks", "mvAppinfo")
    BY <2>9 DEF SetFlag
  <2> QED  BY <1>2, <2>1, <2>2, <2>3, <2>4, <2>5, <2>6, <2>7, <2>8, <2>9 DEF Prepare
<1>3. CASE Commit
  <2>1. CASE MvAppinfo
    BY <2>1 DEF MvAppinfo
  <2>2. CASE SetFlag("appinfo", "flagAppinfo", "backupConfig")
    BY <2>2 DEF SetFlag
  <2>3. CASE BackupFile("config", "backupConfig", "backupState")
    BY <2>3 DEF BackupFile, TypeOK, DiskTypeOK
  <2>4. CASE BackupFile("state", "backupState", "backupCloud")
    BY <2>4 DEF BackupFile, TypeOK, DiskTypeOK
  <2>5. CASE BackupFile("cloud", "backupCloud", "commitPlan")
    BY <2>5 DEF BackupFile, TypeOK, DiskTypeOK
  <2>6. CASE \E l \in Launchers : CommitPlanLine(l)
    BY <2>6 DEF CommitPlanLine
  <2>7. CASE CommitPlanEnd
    BY <2>7 DEF CommitPlanEnd
  <2>8. CASE RenameFile("config", "mvConfig", "flagConfig")
    BY <2>8 DEF RenameFile, TypeOK, DiskTypeOK
  <2>9. CASE SetFlag("config", "flagConfig", "flagLaunchers")
    BY <2>9 DEF SetFlag
  <2>10. CASE SetFlag("launchers", "flagLaunchers", "mvLaunchers")
    BY <2>10 DEF SetFlag
  <2>11. CASE \E l \in Launchers : MvLauncher(l)
    BY <2>11 DEF MvLauncher
  <2>12. CASE MvLaunchersEnd
    BY <2>12 DEF MvLaunchersEnd
  <2>13. CASE RenameFile("state", "mvState", "flagState")
    BY <2>13 DEF RenameFile, TypeOK, DiskTypeOK
  <2>14. CASE SetFlag("state", "flagState", AfterState)
    BY <2>14 DEF SetFlag, AfterState
  <2>15. CASE RenameFile("cloud", "mvCloud", "flagCloud")
    BY <2>15 DEF RenameFile, TypeOK, DiskTypeOK
  <2>16. CASE SetFlag("cloud", "flagCloud", "mvManifest")
    BY <2>16 DEF SetFlag
  <2>17. CASE MvManifest
    BY <2>17 DEF MvManifest
  <2>18. CASE DropPlan
    BY <2>18 DEF DropPlan
  <2>19. CASE Disarm
    BY <2>19 DEF Disarm, TypeOK, DiskTypeOK
  <2> QED  BY <1>3, <2>1, <2>2, <2>3, <2>4, <2>5, <2>6, <2>7, <2>8, <2>9, <2>10, <2>11, <2>12, <2>13, <2>14, <2>15, <2>16, <2>17, <2>18, <2>19 DEF Commit
<1>4. CASE Rollback
  <2>1. CASE RollbackCloud
    BY <2>1 DEF RollbackCloud
  <2>2. CASE \E l \in Launchers : RollbackLauncher(l)
    BY <2>2 DEF RollbackLauncher
  <2>3. CASE RollbackLaunchersEnd
    BY <2>3 DEF RollbackLaunchersEnd
  <2>4. CASE RollbackAppinfo
    BY <2>4 DEF RollbackAppinfo
  <2>5. CASE RemoveInstalled("config", "rbRemoveConfig", "rbRemoveState")
    BY <2>5 DEF RemoveInstalled, TypeOK, DiskTypeOK
  <2>6. CASE RemoveInstalled("state", "rbRemoveState", "rbRemoveCloud")
    BY <2>6 DEF RemoveInstalled, TypeOK, DiskTypeOK
  <2>7. CASE RemoveInstalled("cloud", "rbRemoveCloud", "rbRestoreConfig")
    BY <2>7 DEF RemoveInstalled, TypeOK, DiskTypeOK
  <2>8. CASE RestoreBackup("config", "rbRestoreConfig", "rbRestoreState")
    BY <2>8 DEF RestoreBackup, TypeOK, DiskTypeOK
  <2>9. CASE RestoreBackup("state", "rbRestoreState", "rbRestoreCloud")
    BY <2>9 DEF RestoreBackup, TypeOK, DiskTypeOK
  <2>10. CASE RestoreBackup("cloud", "rbRestoreCloud", "rolledBack")
    BY <2>10 DEF RestoreBackup, TypeOK, DiskTypeOK
  <2> QED  BY <1>4, <2>1, <2>2, <2>3, <2>4, <2>5, <2>6, <2>7, <2>8, <2>9, <2>10 DEF Rollback
<1>5. CASE FailUnarmed \/ Crash
  BY <1>5 DEF FailUnarmed, Refuse, Crash, Ended
<1>6. CASE Fail \/ Signal
  BY <1>6 DEF Fail, Signal, Abort
<1>7. CASE Steam \/ UNCHANGED vars
  BY <1>7 DEF Steam, SteamStart, SteamStop, SteamRewrite
<1> QED  BY <1>1, <1>2, <1>3, <1>4, <1>5, <1>6, <1>7 DEF Next, Script

--------------------------------------------------------------------------------
(* Launchers.                                                              *)

LEMMA LauncherInit == Init => PlanInv /\ LauncherInv
  BY DEF Init, DiskInit, PlanInv, LauncherInv, LauncherAt, Untouched, MovedAway,
     MovedIn, PlanWritten, Editing, Unarmed, RollingBack

LEMMA PlanStep ==
  ASSUME TypeOK, PlanInv, LauncherInv, [Next]_vars
  PROVE  PlanInv'
<1> USE DEF PlanInv, Untouched, MovedAway, MovedIn, PlanWritten, PlanThere,
     Committed, Editing, Unarmed, Armed, Commands, Assignments, PlannedLaunchers,
     vars, diskVars, installVars, editVars, undoVars, runVars
<1>1. CASE \E o \in Options : Begin(o)
  BY <1>1 DEF Begin, Snapshot
<1>2. CASE Prepare
  <2>1. CASE StageSteamClient
    BY <2>1 DEF StageSteamClient, Refuse
  <2>2. CASE CheckExisting
    BY <2>2 DEF CheckExisting, Refuse
  <2>3. CASE CopyAppinfo
    BY <2>3 DEF CopyAppinfo
  <2>4. CASE RestoreOldState
    BY <2>4 DEF RestoreOldState, Abort, LauncherInv, LauncherAt, KeptL
  <2>5. CASE RestoreOldCloud
    BY <2>5 DEF RestoreOldCloud, Abort, LauncherInv, LauncherAt, KeptL
  <2>6. CASE MakeLaunchers
    BY <2>6 DEF MakeLaunchers, Abort, LauncherInv, LauncherAt, KeptL
  <2>7. CASE Patch
    BY <2>7 DEF Patch
  <2>8. CASE CloudInstall
    BY <2>8 DEF CloudInstall
  <2>9. CASE SetFlag("links", "flagLinks", "mvAppinfo")
    BY <2>9 DEF SetFlag
  <2> QED
    BY <1>2, <2>1, <2>2, <2>3, <2>4, <2>5, <2>6, <2>7, <2>8, <2>9
    DEF Prepare
<1>3. CASE Commit
  <2>1. CASE MvAppinfo
    BY <2>1 DEF MvAppinfo
  <2>2. CASE SetFlag("appinfo", "flagAppinfo", "backupConfig")
    BY <2>2 DEF SetFlag
  <2>3. CASE BackupFile("config", "backupConfig", "backupState")
    BY <2>3 DEF BackupFile
  <2>4. CASE BackupFile("state", "backupState", "backupCloud")
    BY <2>4 DEF BackupFile
  <2>5. CASE BackupFile("cloud", "backupCloud", "commitPlan")
    BY <2>5 DEF BackupFile
  <2>6. CASE \E l \in Launchers : CommitPlanLine(l)
    BY <2>6 DEF CommitPlanLine
  <2>7. CASE CommitPlanEnd
    BY <2>7 DEF CommitPlanEnd
  <2>8. CASE RenameFile("config", "mvConfig", "flagConfig")
    BY <2>8 DEF RenameFile
  <2>9. CASE SetFlag("config", "flagConfig", "flagLaunchers")
    BY <2>9 DEF SetFlag
  <2>10. CASE SetFlag("launchers", "flagLaunchers", "mvLaunchers")
    BY <2>10 DEF SetFlag
  <2>11. CASE \E l \in Launchers : MvLauncher(l)
    BY <2>11 DEF MvLauncher
  <2>12. CASE MvLaunchersEnd
    BY <2>12 DEF MvLaunchersEnd
  <2>13. CASE RenameFile("state", "mvState", "flagState")
    BY <2>13 DEF RenameFile
  <2>14. CASE SetFlag("state", "flagState", AfterState)
    BY <2>14 DEF SetFlag, AfterState
  <2>15. CASE RenameFile("cloud", "mvCloud", "flagCloud")
    BY <2>15 DEF RenameFile
  <2>16. CASE SetFlag("cloud", "flagCloud", "mvManifest")
    BY <2>16 DEF SetFlag
  <2>17. CASE MvManifest
    BY <2>17 DEF MvManifest
  <2>18. CASE DropPlan
    BY <2>18 DEF DropPlan
  <2>19. CASE Disarm
    BY <2>19 DEF Disarm
  <2> QED
    BY <1>3, <2>1, <2>2, <2>3, <2>4, <2>5, <2>6, <2>7, <2>8, <2>9, <2>10, <2>11, <2>12, <2>13, <2>14, <2>15, <2>16, <2>17, <2>18, <2>19
    DEF Commit
<1>4. CASE Rollback
  <2>1. CASE RollbackCloud
    BY <2>1 DEF RollbackCloud, KeptL
  <2>2. CASE \E l \in Launchers : RollbackLauncher(l)
    BY <2>2 DEF RollbackLauncher, RollbackPlan
  <2>3. CASE RollbackLaunchersEnd
    BY <2>3 DEF RollbackLaunchersEnd
  <2>4. CASE RollbackAppinfo
    BY <2>4 DEF RollbackAppinfo
  <2>5. CASE RemoveInstalled("config", "rbRemoveConfig", "rbRemoveState")
    BY <2>5 DEF RemoveInstalled
  <2>6. CASE RemoveInstalled("state", "rbRemoveState", "rbRemoveCloud")
    BY <2>6 DEF RemoveInstalled
  <2>7. CASE RemoveInstalled("cloud", "rbRemoveCloud", "rbRestoreConfig")
    BY <2>7 DEF RemoveInstalled
  <2>8. CASE RestoreBackup("config", "rbRestoreConfig", "rbRestoreState")
    BY <2>8 DEF RestoreBackup
  <2>9. CASE RestoreBackup("state", "rbRestoreState", "rbRestoreCloud")
    BY <2>9 DEF RestoreBackup
  <2>10. CASE RestoreBackup("cloud", "rbRestoreCloud", "rolledBack")
    BY <2>10 DEF RestoreBackup
  <2> QED
    BY <1>4, <2>1, <2>2, <2>3, <2>4, <2>5, <2>6, <2>7, <2>8, <2>9, <2>10
    DEF Rollback
<1>5. CASE FailUnarmed \/ Crash
  BY <1>5 DEF FailUnarmed, Refuse, Crash, Ended
<1>6. CASE Fail \/ Signal
  BY <1>6 DEF Fail, Signal, Abort, LauncherInv, LauncherAt, KeptL
<1>7. CASE Steam \/ UNCHANGED vars
  BY <1>7 DEF Steam, SteamStart, SteamStop, SteamRewrite, KeptL
<1> QED  BY <1>1, <1>2, <1>3, <1>4, <1>5, <1>6, <1>7 DEF Next, Script

LEMMA LauncherStep ==
  ASSUME TypeOK, PlanInv, LauncherInv, NEW k \in Launchers, [Next]_vars
  PROVE  LauncherAt(k)'
<1> USE DEF PlanInv, LauncherInv, LauncherAt, Untouched, MovedAway, MovedIn,
     PlanWritten, PlanThere, Committed, Planned, KeptL, AwayL, NewL, BackL,
     UndoableL, gen, Editing, Unarmed, Armed, Commands, Assignments,
     RollingBack, PlannedLaunchers,
     vars, diskVars, installVars, editVars, undoVars, runVars
<1>1. CASE \E o \in Options : Begin(o)
  BY <1>1 DEF Begin, Snapshot
<1>2. CASE Prepare
  <2>1. CASE StageSteamClient
    BY <2>1 DEF StageSteamClient, Refuse
  <2>2. CASE CheckExisting
    BY <2>2 DEF CheckExisting, Refuse
  <2>3. CASE CopyAppinfo
    BY <2>3 DEF CopyAppinfo
  <2>4. CASE RestoreOldState
    BY <2>4 DEF RestoreOldState, Abort
  <2>5. CASE RestoreOldCloud
    BY <2>5 DEF RestoreOldCloud, Abort
  <2>6. CASE MakeLaunchers
    BY <2>6 DEF MakeLaunchers, Abort
  <2>7. CASE Patch
    BY <2>7 DEF Patch
  <2>8. CASE CloudInstall
    BY <2>8 DEF CloudInstall
  <2>9. CASE SetFlag("links", "flagLinks", "mvAppinfo")
    BY <2>9 DEF SetFlag
  <2> QED
    BY <1>2, <2>1, <2>2, <2>3, <2>4, <2>5, <2>6, <2>7, <2>8, <2>9
    DEF Prepare
<1>3. CASE Commit
  <2>1. CASE MvAppinfo
    BY <2>1 DEF MvAppinfo
  <2>2. CASE SetFlag("appinfo", "flagAppinfo", "backupConfig")
    BY <2>2 DEF SetFlag
  <2>3. CASE BackupFile("config", "backupConfig", "backupState")
    BY <2>3 DEF BackupFile
  <2>4. CASE BackupFile("state", "backupState", "backupCloud")
    BY <2>4 DEF BackupFile
  <2>5. CASE BackupFile("cloud", "backupCloud", "commitPlan")
    BY <2>5 DEF BackupFile
  <2>6. CASE \E l \in Launchers : CommitPlanLine(l)
    BY <2>6 DEF CommitPlanLine, TypeOK, DiskTypeOK
  <2>7. CASE CommitPlanEnd
    BY <2>7 DEF CommitPlanEnd
  <2>8. CASE RenameFile("config", "mvConfig", "flagConfig")
    BY <2>8 DEF RenameFile
  <2>9. CASE SetFlag("config", "flagConfig", "flagLaunchers")
    BY <2>9 DEF SetFlag
  <2>10. CASE SetFlag("launchers", "flagLaunchers", "mvLaunchers")
    BY <2>10 DEF SetFlag
  <2>11. CASE \E l \in Launchers : MvLauncher(l)
    BY <2>11 DEF MvLauncher, TypeOK, DiskTypeOK
  <2>12. CASE MvLaunchersEnd
    BY <2>12 DEF MvLaunchersEnd
  <2>13. CASE RenameFile("state", "mvState", "flagState")
    BY <2>13 DEF RenameFile
  <2>14. CASE SetFlag("state", "flagState", AfterState)
    BY <2>14 DEF SetFlag, AfterState
  <2>15. CASE RenameFile("cloud", "mvCloud", "flagCloud")
    BY <2>15 DEF RenameFile
  <2>16. CASE SetFlag("cloud", "flagCloud", "mvManifest")
    BY <2>16 DEF SetFlag
  <2>17. CASE MvManifest
    BY <2>17 DEF MvManifest
  <2>18. CASE DropPlan
    BY <2>18 DEF DropPlan
  <2>19. CASE Disarm
    BY <2>19 DEF Disarm
  <2> QED
    BY <1>3, <2>1, <2>2, <2>3, <2>4, <2>5, <2>6, <2>7, <2>8, <2>9, <2>10, <2>11, <2>12, <2>13, <2>14, <2>15, <2>16, <2>17, <2>18, <2>19
    DEF Commit
<1>4. CASE Rollback
  <2>1. CASE RollbackCloud
    BY <2>1 DEF RollbackCloud
  <2>2. CASE \E l \in Launchers : RollbackLauncher(l)
    BY <2>2 DEF RollbackLauncher, RollbackPlan, TypeOK, DiskTypeOK
  <2>3. CASE RollbackLaunchersEnd
    BY <2>3 DEF RollbackLaunchersEnd, RollbackPlan, TypeOK, DiskTypeOK
  <2>4. CASE RollbackAppinfo
    BY <2>4 DEF RollbackAppinfo
  <2>5. CASE RemoveInstalled("config", "rbRemoveConfig", "rbRemoveState")
    BY <2>5 DEF RemoveInstalled
  <2>6. CASE RemoveInstalled("state", "rbRemoveState", "rbRemoveCloud")
    BY <2>6 DEF RemoveInstalled
  <2>7. CASE RemoveInstalled("cloud", "rbRemoveCloud", "rbRestoreConfig")
    BY <2>7 DEF RemoveInstalled
  <2>8. CASE RestoreBackup("config", "rbRestoreConfig", "rbRestoreState")
    BY <2>8 DEF RestoreBackup
  <2>9. CASE RestoreBackup("state", "rbRestoreState", "rbRestoreCloud")
    BY <2>9 DEF RestoreBackup
  <2>10. CASE RestoreBackup("cloud", "rbRestoreCloud", "rolledBack")
    BY <2>10 DEF RestoreBackup
  <2> QED
    BY <1>4, <2>1, <2>2, <2>3, <2>4, <2>5, <2>6, <2>7, <2>8, <2>9, <2>10
    DEF Rollback
<1>5. CASE FailUnarmed \/ Crash
  BY <1>5 DEF FailUnarmed, Refuse, Crash, Ended
<1>6. CASE Fail \/ Signal
  BY <1>6 DEF Fail, Signal, Abort
<1>7. CASE Steam \/ UNCHANGED vars
  BY <1>7 DEF Steam, SteamStart, SteamStop, SteamRewrite
<1> QED  BY <1>1, <1>2, <1>3, <1>4, <1>5, <1>6, <1>7 DEF Next, Script

--------------------------------------------------------------------------------
(* The manifest, appinfo.vdf and the native Cloud links.                   *)

LEMMA SteamInit == Init => ManifestInv /\ AppinfoInv /\ LinksInv
  BY DEF Init, DiskInit, ManifestInv, AppinfoInv, LinksInv, Unarmed, Armed,
     Commands, Assignments, RollingBack

LEMMA ManifestStep ==
  ASSUME TypeOK, ManifestInv, [Next]_vars
  PROVE  ManifestInv'
<1> USE DEF ManifestInv, Unarmed, Armed, Commands, Assignments, RollingBack,
     vars, diskVars, installVars, editVars, undoVars, runVars
<1>1. CASE \E o \in Options : Begin(o)
  BY <1>1 DEF Begin, Snapshot
<1>2. CASE Prepare
  <2>1. CASE StageSteamClient
    BY <2>1 DEF StageSteamClient, Refuse
  <2>2. CASE CheckExisting
    BY <2>2 DEF CheckExisting, Refuse
  <2>3. CASE CopyAppinfo
    BY <2>3 DEF CopyAppinfo
  <2>4. CASE RestoreOldState
    BY <2>4 DEF RestoreOldState, Abort
  <2>5. CASE RestoreOldCloud
    BY <2>5 DEF RestoreOldCloud, Abort
  <2>6. CASE MakeLaunchers
    BY <2>6 DEF MakeLaunchers, Abort
  <2>7. CASE Patch
    BY <2>7 DEF Patch
  <2>8. CASE CloudInstall
    BY <2>8 DEF CloudInstall
  <2>9. CASE SetFlag("links", "flagLinks", "mvAppinfo")
    BY <2>9 DEF SetFlag
  <2> QED
    BY <1>2, <2>1, <2>2, <2>3, <2>4, <2>5, <2>6, <2>7, <2>8, <2>9
    DEF Prepare
<1>3. CASE Commit
  <2>1. CASE MvAppinfo
    BY <2>1 DEF MvAppinfo
  <2>2. CASE SetFlag("appinfo", "flagAppinfo", "backupConfig")
    BY <2>2 DEF SetFlag
  <2>3. CASE BackupFile("config", "backupConfig", "backupState")
    BY <2>3 DEF BackupFile
  <2>4. CASE BackupFile("state", "backupState", "backupCloud")
    BY <2>4 DEF BackupFile
  <2>5. CASE BackupFile("cloud", "backupCloud", "commitPlan")
    BY <2>5 DEF BackupFile
  <2>6. CASE \E l \in Launchers : CommitPlanLine(l)
    BY <2>6 DEF CommitPlanLine
  <2>7. CASE CommitPlanEnd
    BY <2>7 DEF CommitPlanEnd
  <2>8. CASE RenameFile("config", "mvConfig", "flagConfig")
    BY <2>8 DEF RenameFile
  <2>9. CASE SetFlag("config", "flagConfig", "flagLaunchers")
    BY <2>9 DEF SetFlag
  <2>10. CASE SetFlag("launchers", "flagLaunchers", "mvLaunchers")
    BY <2>10 DEF SetFlag
  <2>11. CASE \E l \in Launchers : MvLauncher(l)
    BY <2>11 DEF MvLauncher
  <2>12. CASE MvLaunchersEnd
    BY <2>12 DEF MvLaunchersEnd
  <2>13. CASE RenameFile("state", "mvState", "flagState")
    BY <2>13 DEF RenameFile
  <2>14. CASE SetFlag("state", "flagState", AfterState)
    BY <2>14 DEF SetFlag, AfterState
  <2>15. CASE RenameFile("cloud", "mvCloud", "flagCloud")
    BY <2>15 DEF RenameFile
  <2>16. CASE SetFlag("cloud", "flagCloud", "mvManifest")
    BY <2>16 DEF SetFlag
  <2>17. CASE MvManifest
    BY <2>17 DEF MvManifest
  <2>18. CASE DropPlan
    BY <2>18 DEF DropPlan
  <2>19. CASE Disarm
    BY <2>19 DEF Disarm
  <2> QED
    BY <1>3, <2>1, <2>2, <2>3, <2>4, <2>5, <2>6, <2>7, <2>8, <2>9, <2>10, <2>11, <2>12, <2>13, <2>14, <2>15, <2>16, <2>17, <2>18, <2>19
    DEF Commit
<1>4. CASE Rollback
  <2>1. CASE RollbackCloud
    BY <2>1 DEF RollbackCloud
  <2>2. CASE \E l \in Launchers : RollbackLauncher(l)
    BY <2>2 DEF RollbackLauncher
  <2>3. CASE RollbackLaunchersEnd
    BY <2>3 DEF RollbackLaunchersEnd
  <2>4. CASE RollbackAppinfo
    BY <2>4 DEF RollbackAppinfo
  <2>5. CASE RemoveInstalled("config", "rbRemoveConfig", "rbRemoveState")
    BY <2>5 DEF RemoveInstalled
  <2>6. CASE RemoveInstalled("state", "rbRemoveState", "rbRemoveCloud")
    BY <2>6 DEF RemoveInstalled
  <2>7. CASE RemoveInstalled("cloud", "rbRemoveCloud", "rbRestoreConfig")
    BY <2>7 DEF RemoveInstalled
  <2>8. CASE RestoreBackup("config", "rbRestoreConfig", "rbRestoreState")
    BY <2>8 DEF RestoreBackup
  <2>9. CASE RestoreBackup("state", "rbRestoreState", "rbRestoreCloud")
    BY <2>9 DEF RestoreBackup
  <2>10. CASE RestoreBackup("cloud", "rbRestoreCloud", "rolledBack")
    BY <2>10 DEF RestoreBackup
  <2> QED
    BY <1>4, <2>1, <2>2, <2>3, <2>4, <2>5, <2>6, <2>7, <2>8, <2>9, <2>10
    DEF Rollback
<1>5. CASE FailUnarmed \/ Crash
  BY <1>5 DEF FailUnarmed, Refuse, Crash, Ended
<1>6. CASE Fail \/ Signal
  BY <1>6 DEF Fail, Signal, Abort
<1>7. CASE Steam \/ UNCHANGED vars
  BY <1>7 DEF Steam, SteamStart, SteamStop, SteamRewrite
<1> QED  BY <1>1, <1>2, <1>3, <1>4, <1>5, <1>6, <1>7 DEF Next, Script

LEMMA AppinfoStep ==
  ASSUME TypeOK, AppinfoInv, [Next]_vars
  PROVE  AppinfoInv'
<1> USE DEF AppinfoInv, BeforeCopy, BeforeMove, AfterMove, BeforeUndo, AfterUndo,
     Unchanged, BackedUp, Live, Unarmed, Armed, Commands, Assignments,
     RollingBack, vars, diskVars, installVars, editVars, undoVars, runVars
<1>1. CASE \E o \in Options : Begin(o)
  BY <1>1 DEF Begin, Snapshot
<1>2. CASE Prepare
  <2>1. CASE StageSteamClient
    BY <2>1 DEF StageSteamClient, Refuse
  <2>2. CASE CheckExisting
    BY <2>2 DEF CheckExisting, Refuse
  <2>3. CASE CopyAppinfo
    BY <2>3 DEF CopyAppinfo
  <2>4. CASE RestoreOldState
    BY <2>4 DEF RestoreOldState, Abort
  <2>5. CASE RestoreOldCloud
    BY <2>5 DEF RestoreOldCloud, Abort
  <2>6. CASE MakeLaunchers
    BY <2>6 DEF MakeLaunchers, Abort
  <2>7. CASE Patch
    BY <2>7 DEF Patch
  <2>8. CASE CloudInstall
    BY <2>8 DEF CloudInstall
  <2>9. CASE SetFlag("links", "flagLinks", "mvAppinfo")
    BY <2>9 DEF SetFlag
  <2> QED
    BY <1>2, <2>1, <2>2, <2>3, <2>4, <2>5, <2>6, <2>7, <2>8, <2>9
    DEF Prepare
<1>3. CASE Commit
  <2>1. CASE MvAppinfo
    BY <2>1 DEF MvAppinfo
  <2>2. CASE SetFlag("appinfo", "flagAppinfo", "backupConfig")
    BY <2>2 DEF SetFlag
  <2>3. CASE BackupFile("config", "backupConfig", "backupState")
    BY <2>3 DEF BackupFile
  <2>4. CASE BackupFile("state", "backupState", "backupCloud")
    BY <2>4 DEF BackupFile
  <2>5. CASE BackupFile("cloud", "backupCloud", "commitPlan")
    BY <2>5 DEF BackupFile
  <2>6. CASE \E l \in Launchers : CommitPlanLine(l)
    BY <2>6 DEF CommitPlanLine
  <2>7. CASE CommitPlanEnd
    BY <2>7 DEF CommitPlanEnd
  <2>8. CASE RenameFile("config", "mvConfig", "flagConfig")
    BY <2>8 DEF RenameFile
  <2>9. CASE SetFlag("config", "flagConfig", "flagLaunchers")
    BY <2>9 DEF SetFlag
  <2>10. CASE SetFlag("launchers", "flagLaunchers", "mvLaunchers")
    BY <2>10 DEF SetFlag
  <2>11. CASE \E l \in Launchers : MvLauncher(l)
    BY <2>11 DEF MvLauncher
  <2>12. CASE MvLaunchersEnd
    BY <2>12 DEF MvLaunchersEnd
  <2>13. CASE RenameFile("state", "mvState", "flagState")
    BY <2>13 DEF RenameFile
  <2>14. CASE SetFlag("state", "flagState", AfterState)
    BY <2>14 DEF SetFlag, AfterState
  <2>15. CASE RenameFile("cloud", "mvCloud", "flagCloud")
    BY <2>15 DEF RenameFile
  <2>16. CASE SetFlag("cloud", "flagCloud", "mvManifest")
    BY <2>16 DEF SetFlag
  <2>17. CASE MvManifest
    BY <2>17 DEF MvManifest
  <2>18. CASE DropPlan
    BY <2>18 DEF DropPlan
  <2>19. CASE Disarm
    BY <2>19 DEF Disarm
  <2> QED
    BY <1>3, <2>1, <2>2, <2>3, <2>4, <2>5, <2>6, <2>7, <2>8, <2>9, <2>10, <2>11, <2>12, <2>13, <2>14, <2>15, <2>16, <2>17, <2>18, <2>19
    DEF Commit
<1>4. CASE Rollback
  <2>1. CASE RollbackCloud
    BY <2>1 DEF RollbackCloud
  <2>2. CASE \E l \in Launchers : RollbackLauncher(l)
    BY <2>2 DEF RollbackLauncher
  <2>3. CASE RollbackLaunchersEnd
    BY <2>3 DEF RollbackLaunchersEnd
  <2>4. CASE RollbackAppinfo
    BY <2>4 DEF RollbackAppinfo
  <2>5. CASE RemoveInstalled("config", "rbRemoveConfig", "rbRemoveState")
    BY <2>5 DEF RemoveInstalled
  <2>6. CASE RemoveInstalled("state", "rbRemoveState", "rbRemoveCloud")
    BY <2>6 DEF RemoveInstalled
  <2>7. CASE RemoveInstalled("cloud", "rbRemoveCloud", "rbRestoreConfig")
    BY <2>7 DEF RemoveInstalled
  <2>8. CASE RestoreBackup("config", "rbRestoreConfig", "rbRestoreState")
    BY <2>8 DEF RestoreBackup
  <2>9. CASE RestoreBackup("state", "rbRestoreState", "rbRestoreCloud")
    BY <2>9 DEF RestoreBackup
  <2>10. CASE RestoreBackup("cloud", "rbRestoreCloud", "rolledBack")
    BY <2>10 DEF RestoreBackup
  <2> QED
    BY <1>4, <2>1, <2>2, <2>3, <2>4, <2>5, <2>6, <2>7, <2>8, <2>9, <2>10
    DEF Rollback
<1>5. CASE FailUnarmed \/ Crash
  BY <1>5 DEF FailUnarmed, Refuse, Crash, Ended
<1>6. CASE Fail \/ Signal
  BY <1>6 DEF Fail, Signal, Abort
<1>7. CASE Steam \/ UNCHANGED vars
  BY <1>7 DEF Steam, SteamStart, SteamStop, SteamRewrite
<1> QED  BY <1>1, <1>2, <1>3, <1>4, <1>5, <1>6, <1>7 DEF Next, Script

LEMMA LinksStep ==
  ASSUME TypeOK, FileInv, AppinfoInv, LinksInv, [Next]_vars
  PROVE  LinksInv'
<1> USE DEF LinksInv, LinksKept, LinksMade, LinksUndoable, FirstCloud,
     BeforeLinks, AfterLinks, CloudStateTemporary, LinksUncovered,
     BeforeCopy, BeforeMove, AfterMove, Live, gen, Unarmed, Armed, Commands, Assignments,
     RollingBack, vars, diskVars, installVars, editVars, undoVars, runVars
<1>1. CASE \E o \in Options : Begin(o)
  BY <1>1 DEF Begin, Snapshot
<1>2. CASE Prepare
  <2>1. CASE StageSteamClient
    BY <2>1 DEF StageSteamClient, Refuse
  <2>2. CASE CheckExisting
    BY <2>2 DEF CheckExisting, Refuse
  <2>3. CASE CopyAppinfo
    BY <2>3 DEF CopyAppinfo
  <2>4. CASE RestoreOldState
    BY <2>4 DEF RestoreOldState, Abort
  <2>5. CASE RestoreOldCloud
    <3>1. file["cloud"] = pre.file["cloud"]
      BY <2>5 DEF RestoreOldCloud, FileInv, FileInvAt, KeptAt, Editing, Kept, Files
    <3> QED  BY <2>5, <3>1 DEF RestoreOldCloud, Abort
  <2>6. CASE MakeLaunchers
    BY <2>6 DEF MakeLaunchers, Abort
  <2>7. CASE Patch
    BY <2>7 DEF Patch
  <2>8. CASE CloudInstall
    <3>1. recorded[gen] \in Record /\ appinfoTmp \in Appinfo
      BY DEF TypeOK, DiskTypeOK
    <3>2. recorded'[gen'].owned = Roots \ links
      BY <2>8, <3>1 DEF CloudInstall, TypeOK, DiskTypeOK, Record
    <3>3. appinfoTmp'.cloud
      BY <2>8, <3>1 DEF CloudInstall, Appinfo
    <3>4. FirstCloud /\ ~steamWrote =>
            links = pre.links /\ LinksMade' /\ "cloudState" \in temps'
      BY <2>8, <3>2 DEF CloudInstall
    <3> QED  BY <2>8, <3>3, <3>4 DEF CloudInstall
  <2>9. CASE SetFlag("links", "flagLinks", "mvAppinfo")
    BY <2>9 DEF SetFlag
  <2> QED
    BY <1>2, <2>1, <2>2, <2>3, <2>4, <2>5, <2>6, <2>7, <2>8, <2>9
    DEF Prepare
<1>3. CASE Commit
  <2>1. CASE MvAppinfo
    BY <2>1 DEF MvAppinfo
  <2>2. CASE SetFlag("appinfo", "flagAppinfo", "backupConfig")
    BY <2>2 DEF SetFlag
  <2>3. CASE BackupFile("config", "backupConfig", "backupState")
    BY <2>3 DEF BackupFile
  <2>4. CASE BackupFile("state", "backupState", "backupCloud")
    BY <2>4 DEF BackupFile
  <2>5. CASE BackupFile("cloud", "backupCloud", "commitPlan")
    BY <2>5 DEF BackupFile
  <2>6. CASE \E l \in Launchers : CommitPlanLine(l)
    BY <2>6 DEF CommitPlanLine
  <2>7. CASE CommitPlanEnd
    BY <2>7 DEF CommitPlanEnd
  <2>8. CASE RenameFile("config", "mvConfig", "flagConfig")
    BY <2>8 DEF RenameFile
  <2>9. CASE SetFlag("config", "flagConfig", "flagLaunchers")
    BY <2>9 DEF SetFlag
  <2>10. CASE SetFlag("launchers", "flagLaunchers", "mvLaunchers")
    BY <2>10 DEF SetFlag
  <2>11. CASE \E l \in Launchers : MvLauncher(l)
    BY <2>11 DEF MvLauncher
  <2>12. CASE MvLaunchersEnd
    BY <2>12 DEF MvLaunchersEnd
  <2>13. CASE RenameFile("state", "mvState", "flagState")
    BY <2>13 DEF RenameFile
  <2>14. CASE SetFlag("state", "flagState", AfterState)
    BY <2>14 DEF SetFlag, AfterState
  <2>15. CASE RenameFile("cloud", "mvCloud", "flagCloud")
    BY <2>15 DEF RenameFile
  <2>16. CASE SetFlag("cloud", "flagCloud", "mvManifest")
    BY <2>16 DEF SetFlag
  <2>17. CASE MvManifest
    BY <2>17 DEF MvManifest
  <2>18. CASE DropPlan
    BY <2>18 DEF DropPlan
  <2>19. CASE Disarm
    BY <2>19 DEF Disarm
  <2> QED
    BY <1>3, <2>1, <2>2, <2>3, <2>4, <2>5, <2>6, <2>7, <2>8, <2>9, <2>10, <2>11, <2>12, <2>13, <2>14, <2>15, <2>16, <2>17, <2>18, <2>19
    DEF Commit
<1>4. CASE Rollback
  <2>1. CASE RollbackCloud
    <3>1. CASE LinksMade /\ LinksUndoable
      <4>1. links' = links \ recorded[gen].owned
        BY <2>1, <3>1 DEF RollbackCloud, CloudRestorable
      <4>2. pre.links \subseteq Roots
        BY DEF TypeOK
      <4>3. links' = pre.links
        BY <3>1, <4>1, <4>2
      <4> QED  BY <2>1, <4>3 DEF RollbackCloud
    <3>2. CASE LinksKept
      BY <2>1, <3>2 DEF RollbackCloud
    <3>3. CASE ~(LinksMade /\ LinksUndoable) /\ ~LinksKept
      BY <2>1, <3>3 DEF RollbackCloud
    <3> QED  BY <3>1, <3>2, <3>3
  <2>2. CASE \E l \in Launchers : RollbackLauncher(l)
    BY <2>2 DEF RollbackLauncher
  <2>3. CASE RollbackLaunchersEnd
    BY <2>3 DEF RollbackLaunchersEnd
  <2>4. CASE RollbackAppinfo
    BY <2>4 DEF RollbackAppinfo
  <2>5. CASE RemoveInstalled("config", "rbRemoveConfig", "rbRemoveState")
    BY <2>5 DEF RemoveInstalled
  <2>6. CASE RemoveInstalled("state", "rbRemoveState", "rbRemoveCloud")
    BY <2>6 DEF RemoveInstalled
  <2>7. CASE RemoveInstalled("cloud", "rbRemoveCloud", "rbRestoreConfig")
    BY <2>7 DEF RemoveInstalled
  <2>8. CASE RestoreBackup("config", "rbRestoreConfig", "rbRestoreState")
    BY <2>8 DEF RestoreBackup
  <2>9. CASE RestoreBackup("state", "rbRestoreState", "rbRestoreCloud")
    BY <2>9 DEF RestoreBackup
  <2>10. CASE RestoreBackup("cloud", "rbRestoreCloud", "rolledBack")
    BY <2>10 DEF RestoreBackup
  <2> QED
    BY <1>4, <2>1, <2>2, <2>3, <2>4, <2>5, <2>6, <2>7, <2>8, <2>9, <2>10
    DEF Rollback
<1>5. CASE FailUnarmed \/ Crash
  BY <1>5 DEF FailUnarmed, Refuse, Crash, Ended
<1>6. CASE Fail \/ Signal
  BY <1>6 DEF Fail, Signal, Abort, AppinfoInv
<1>7. CASE Steam \/ UNCHANGED vars
  BY <1>7 DEF Steam, SteamStart, SteamStop, SteamRewrite
<1> QED  BY <1>1, <1>2, <1>3, <1>4, <1>5, <1>6, <1>7 DEF Next, Script

--------------------------------------------------------------------------------
(* The theorems.                                                           *)

LEMMA IInvInit == Init => IInv
  BY TypeInit, FileInit, LauncherInit, SteamInit DEF IInv

LEMMA IInvNext == IInv /\ [Next]_vars => IInv'
<1> SUFFICES ASSUME IInv, [Next]_vars PROVE IInv'
  OBVIOUS
<1>1. TypeOK'
  BY TypeNext DEF IInv
<1>2. FileInv'
  BY FileStep DEF IInv, FileInv
<1>3. PlanInv'
  BY PlanStep DEF IInv
<1>4. LauncherInv'
  BY LauncherStep DEF IInv, LauncherInv
<1>5. ManifestInv' /\ AppinfoInv' /\ LinksInv'
  BY ManifestStep, AppinfoStep, LinksStep DEF IInv
<1> QED  BY <1>1, <1>2, <1>3, <1>4, <1>5 DEF IInv

LEMMA IInvHolds == Spec => []IInv
  BY IInvInit, IInvNext, PTL DEF Spec

\* Whatever fails, and wherever the installer is interrupted or killed, what
\* the run found is still in place or in the backup it made.
THEOREM InstallLosesNothing == Spec => []NothingLost
<1>1. IInv => NothingLost
  BY DEF IInv, FileInv, FileInvAt, LauncherInv, LauncherAt, AppinfoInv,
     NothingLost, Unchanged, BackedUp
<1> QED  BY <1>1, IInvHolds, PTL

\* A rolled-back install has put the files, the launchers and the manifest
\* back, outside the windows RollbackRestoresFiles names.
THEOREM RollbackIsExact == Spec => []RollbackRestoresFiles
<1>1. ASSUME IInv, pc = "rolledBack"
      PROVE  \A f \in Files : stopAt # FlagOf(f) => file[f] = pre.file[f]
  BY <1>1 DEF IInv, FileInv, FileInvAt, RestoredAt, ToRestoreAt, ToRemoveAt,
              Files
<1>2. ASSUME IInv, pc = "rolledBack", stopAt # "disarm"
      PROVE  launcher = pre.launcher
  <2>1. launcher \in [Launchers -> Run] /\ pre.launcher \in [Launchers -> Run]
    BY <1>2 DEF IInv, TypeOK, DiskTypeOK
  <2>2. \A l \in Launchers : launcher[l] = pre.launcher[l]
    BY <1>2 DEF IInv, LauncherInv, LauncherAt, BackL
  <2> QED  BY <2>1, <2>2
<1>3. ASSUME IInv, pc = "rolledBack", stopAt \notin {"dropPlan", "disarm"}
      PROVE  manifest = pre.manifest
  BY <1>3 DEF IInv, ManifestInv
<1>4. IInv => RollbackRestoresFiles
  BY <1>1, <1>2, <1>3 DEF RollbackRestoresFiles
<1> QED  BY <1>4, IInvHolds, PTL

\* It has also put appinfo.vdf and the Cloud links back, unless Steam wrote
\* the record during the run.
THEOREM RollbackUndoesSteamEdits == Spec => []RollbackRestoresSteam
<1>1. IInv => RollbackRestoresSteam
  BY DEF IInv, AppinfoInv, LinksInv, RollbackRestoresSteam, AfterUndo,
     BeforeUndo, Unchanged, FirstCloud, RollingBack
<1> QED  BY <1>1, IInvHolds, PTL

--------------------------------------------------------------------------------
(* The mapping, when commands fail but nothing stops the script.           *)

\* Following is transitive, and what fits still fits with entries unmapped.
LEMMA FollowsTrans ==
  ASSUME NEW x, NEW y, NEW z, Follows(x, y), Follows(y, z)
  PROVE  Follows(x, z)
  BY DEF Follows

LEMMA FitsFollows ==
  ASSUME NEW x, NEW y, NEW f, NEW ls, Fits(y, f, ls), Follows(x, y)
  PROVE  Fits(x, f, ls)
  BY DEF Follows, Fits, Playable, Removable, Reversible

\* What fits does not depend on the record of any install but its own.
LEMMA FitsElsewhere ==
  ASSUME NEW x, NEW f, NEW ls, Fits(x, f, ls),
         recorded'[f["state"]] = recorded[f["state"]]
  PROVE  Fits(x, f, ls)'
  BY DEF Fits, Playable, Removable, Reversible

\* The record of install gen changes and no other does.
LEMMA FitsOlder ==
  ASSUME NEW x, NEW f \in [Files -> Run], NEW ls, NEW r,
         TypeOK, Fits(x, f, ls), f["state"] < runs,
         recorded' = [recorded EXCEPT ![gen] = r]
  PROVE  Fits(x, f, ls)'
<1>1. f["state"] \in Run /\ f["state"] # gen
  BY DiskAssumption DEF TypeOK, DiskTypeOK, Run, Files, gen
<1>2. recorded'[f["state"]] = recorded[f["state"]]
  BY <1>1 DEF TypeOK, DiskTypeOK
<1> QED  BY <1>2, FitsElsewhere

\* Steam only takes entries back to the published executable.
LEMMA SteamFollows ==
  ASSUME TypeOK, SteamRewrite
  PROVE  Follows(appinfo'.launch, appinfo.launch)
  BY DEF SteamRewrite, Follows

LEMMA FailOnlyStep ==
  ASSUME Faults \subseteq {"fail"}, TypeOK, FailOnlyInv, [Next]_vars
  PROVE  FailOnlyInv'
<1> USE DEF FailOnlyInv, Commands, vars, installVars, runVars
<1>1. CASE \E o \in Options : Begin(o)
  BY <1>1 DEF Begin
<1>2. CASE Prepare
  BY <1>2 DEF Prepare, StageSteamClient, CheckExisting, Refuse, CopyAppinfo,
    RestoreOldState, RestoreOldCloud, MakeLaunchers, Abort, Patch,
    CloudInstall, SetFlag
<1>3. CASE Commit
  BY <1>3 DEF Commit, AfterState, MvAppinfo, SetFlag, BackupFile, RenameFile,
    CommitPlanLine, CommitPlanEnd, MvLauncher, MvLaunchersEnd, MvManifest,
    DropPlan, Disarm
<1>4. CASE Rollback
  BY <1>4 DEF Rollback, RollbackCloud, RollbackLauncher, RollbackLaunchersEnd,
    RollbackAppinfo, RemoveInstalled, RestoreBackup
<1>5. CASE FailUnarmed \/ Crash
  BY <1>5 DEF FailUnarmed, Refuse, Crash
<1>6. CASE Fail \/ Signal
  BY <1>6 DEF Fail, Signal, Abort
<1>7. CASE Steam \/ UNCHANGED vars
  BY <1>7 DEF Steam
<1> QED  BY <1>1, <1>2, <1>3, <1>4, <1>5, <1>6, <1>7 DEF Next, Script

\* The copy and the record made from it.
LEMMA CopyStep ==
  ASSUME TypeOK, FileInv, DiskFits, CopyInv, PlaceInv, [Next]_vars
  PROVE  CopyInv'
<1> USE DEF CopyInv, AfterChoice, BeforeCopy, BeforeMove, gen, Unarmed, Armed,
     Commands, Assignments, RollingBack, vars, diskVars, installVars, editVars,
     undoVars, runVars
<1>1. CASE \E o \in Options : Begin(o)
  BY <1>1 DEF Begin
<1>2. CASE Prepare
  <2>1. CASE StageSteamClient
    BY <2>1 DEF StageSteamClient, Refuse
  <2>2. CASE CheckExisting
    BY <2>2 DEF CheckExisting, Refuse
  <2>3. CASE CopyAppinfo
    BY <2>3 DEF CopyAppinfo, PlaceInv
  <2>4. CASE RestoreOldState
    <3> DEFINE s == file["state"]
    <3>1. CASE pc' = "rbCloud"
      BY <2>4, <3>1 DEF RestoreOldState, Abort
    <3>2. CASE pc' = "restoreCloud"
      <4>1. s = pre.file["state"]
        BY <2>4 DEF RestoreOldState, FileInv, FileInvAt, KeptAt, Editing, Kept, Files
      <4>2. Fits(appinfoTmp.launch, pre.file, pre.launcher)
        BY <2>4, FitsFollows DEF RestoreOldState, DiskFits, Running, Labels, Ended
      <4>3. appinfoTmp \in Appinfo
        BY DEF TypeOK
      <4>4. CASE s = 0
        <5>1. \A e \in Entries : appinfoTmp.launch[e] = Native
          BY <4>1, <4>2, <4>4 DEF Fits, Removable
        <5> QED  BY <2>4, <3>2, <4>4, <5>1 DEF RestoreOldState
      <4>5. CASE s # 0
        <5>1. \A e \in Entries :
                RestoredLaunch(recorded[s], appinfoTmp.launch)[e] = Native
          BY <4>1, <4>2, <4>5 DEF Fits, Removable, Reversible, RestoredLaunch
        <5>2. appinfoTmp' =
                [appinfoTmp EXCEPT
                   !.launch = RestoredLaunch(recorded[s], appinfoTmp.launch)]
          BY <2>4, <3>2, <4>5 DEF RestoreOldState, Abort
        <5>3. \A e \in Entries : appinfoTmp'.launch[e] = Native
          BY <4>3, <5>1, <5>2 DEF Appinfo
        <5> QED  BY <3>2, <5>3
      <4> QED  BY <4>4, <4>5
    <3> QED  BY <2>4, <3>1, <3>2 DEF RestoreOldState, Abort
  <2>5. CASE RestoreOldCloud
    <3>1. appinfoTmp'.launch = appinfoTmp.launch
      BY <2>5 DEF RestoreOldCloud, Abort, RestoredCloud, TypeOK, Appinfo
    <3> QED  BY <2>5, <3>1 DEF RestoreOldCloud, Abort
  <2>6. CASE MakeLaunchers
    BY <2>6 DEF MakeLaunchers, Abort
  <2>7. CASE Patch
    <3>1. /\ appinfoTmp \in Appinfo /\ plan \in Launch /\ runs \in Run
          /\ recorded \in [Run -> Record]
      BY DEF TypeOK, DiskTypeOK
    <3>2. appinfoTmp'.launch =
            [e \in Entries |-> IF plan[e] # Native THEN plan[e]
                                                   ELSE appinfoTmp.launch[e]]
      BY <2>7, <3>1 DEF Patch, Appinfo
    <3>3. \A e \in Entries : appinfoTmp'.launch[e] = plan[e]
      BY <2>7, <3>2 DEF Patch
    <3>4. /\ recorded'[gen].map = plan
          /\ recorded'[gen].orig = appinfoTmp.launch
      BY <2>7, <3>1 DEF Patch, Record
    <3>5. pc' \in {"cloudInstall", "mvAppinfo"} /\ runs' = runs /\ plan' = plan
      BY <2>7 DEF Patch
    <3>6. \A e \in Entries : appinfoTmp.launch[e] = Native
      BY <2>7 DEF Patch
    <3> QED  BY <3>3, <3>4, <3>5, <3>6
  <2>8. CASE CloudInstall
    <3>1. /\ appinfoTmp \in Appinfo /\ runs \in Run
          /\ recorded \in [Run -> Record]
      BY DEF TypeOK, DiskTypeOK
    <3>2. appinfoTmp'.launch = appinfoTmp.launch
      BY <2>8, <3>1 DEF CloudInstall, Appinfo
    <3>3. /\ recorded'[gen].map = recorded[gen].map
          /\ recorded'[gen].orig = recorded[gen].orig
      BY <2>8, <3>1 DEF CloudInstall, Record
    <3>4. pc' = "flagLinks" /\ runs' = runs /\ plan' = plan
      BY <2>8 DEF CloudInstall
    <3>5. /\ \A e \in Entries : appinfoTmp.launch[e] = plan[e]
          /\ recorded[gen].map = plan
          /\ \A e \in Entries : recorded[gen].orig[e] = Native
      BY <2>8 DEF CloudInstall
    <3> QED  BY <3>2, <3>3, <3>4, <3>5
  <2>9. CASE SetFlag("links", "flagLinks", "mvAppinfo")
    BY <2>9 DEF SetFlag
  <2> QED  BY <1>2, <2>1, <2>2, <2>3, <2>4, <2>5, <2>6, <2>7, <2>8, <2>9 DEF
    Prepare
<1>3. CASE Commit
  <2>1. CASE MvAppinfo
    BY <2>1 DEF MvAppinfo
  <2>2. CASE SetFlag("appinfo", "flagAppinfo", "backupConfig")
    BY <2>2 DEF SetFlag
  <2>3. CASE BackupFile("config", "backupConfig", "backupState")
    BY <2>3 DEF BackupFile
  <2>4. CASE BackupFile("state", "backupState", "backupCloud")
    BY <2>4 DEF BackupFile
  <2>5. CASE BackupFile("cloud", "backupCloud", "commitPlan")
    BY <2>5 DEF BackupFile
  <2>6. CASE \E l \in Launchers : CommitPlanLine(l)
    BY <2>6 DEF CommitPlanLine
  <2>7. CASE CommitPlanEnd
    BY <2>7 DEF CommitPlanEnd
  <2>8. CASE RenameFile("config", "mvConfig", "flagConfig")
    BY <2>8 DEF RenameFile
  <2>9. CASE SetFlag("config", "flagConfig", "flagLaunchers")
    BY <2>9 DEF SetFlag
  <2>10. CASE SetFlag("launchers", "flagLaunchers", "mvLaunchers")
    BY <2>10 DEF SetFlag
  <2>11. CASE \E l \in Launchers : MvLauncher(l)
    BY <2>11 DEF MvLauncher
  <2>12. CASE MvLaunchersEnd
    BY <2>12 DEF MvLaunchersEnd
  <2>13. CASE RenameFile("state", "mvState", "flagState")
    BY <2>13 DEF RenameFile
  <2>14. CASE SetFlag("state", "flagState", AfterState)
    BY <2>14 DEF SetFlag, AfterState
  <2>15. CASE RenameFile("cloud", "mvCloud", "flagCloud")
    BY <2>15 DEF RenameFile
  <2>16. CASE SetFlag("cloud", "flagCloud", "mvManifest")
    BY <2>16 DEF SetFlag
  <2>17. CASE MvManifest
    BY <2>17 DEF MvManifest
  <2>18. CASE DropPlan
    BY <2>18 DEF DropPlan
  <2>19. CASE Disarm
    BY <2>19 DEF Disarm
  <2> QED  BY <1>3, <2>1, <2>2, <2>3, <2>4, <2>5, <2>6, <2>7, <2>8, <2>9,
    <2>10, <2>11, <2>12, <2>13, <2>14, <2>15, <2>16, <2>17, <2>18, <2>19 DEF
    Commit
<1>4. CASE Rollback
  <2>1. CASE RollbackCloud
    BY <2>1 DEF RollbackCloud
  <2>2. CASE \E l \in Launchers : RollbackLauncher(l)
    BY <2>2 DEF RollbackLauncher
  <2>3. CASE RollbackLaunchersEnd
    BY <2>3 DEF RollbackLaunchersEnd
  <2>4. CASE RollbackAppinfo
    BY <2>4 DEF RollbackAppinfo
  <2>5. CASE RemoveInstalled("config", "rbRemoveConfig", "rbRemoveState")
    BY <2>5 DEF RemoveInstalled
  <2>6. CASE RemoveInstalled("state", "rbRemoveState", "rbRemoveCloud")
    BY <2>6 DEF RemoveInstalled
  <2>7. CASE RemoveInstalled("cloud", "rbRemoveCloud", "rbRestoreConfig")
    BY <2>7 DEF RemoveInstalled
  <2>8. CASE RestoreBackup("config", "rbRestoreConfig", "rbRestoreState")
    BY <2>8 DEF RestoreBackup
  <2>9. CASE RestoreBackup("state", "rbRestoreState", "rbRestoreCloud")
    BY <2>9 DEF RestoreBackup
  <2>10. CASE RestoreBackup("cloud", "rbRestoreCloud", "rolledBack")
    BY <2>10 DEF RestoreBackup
  <2> QED  BY <1>4, <2>1, <2>2, <2>3, <2>4, <2>5, <2>6, <2>7, <2>8, <2>9, <2>10
    DEF Rollback
<1>5. CASE FailUnarmed \/ Crash
  BY <1>5 DEF FailUnarmed, Refuse, Crash, Ended
<1>6. CASE Fail \/ Signal
  BY <1>6 DEF Fail, Signal, Abort
<1>7. CASE Steam \/ UNCHANGED vars
  BY <1>7 DEF Steam, SteamStart, SteamStop, SteamRewrite
<1> QED  BY <1>1, <1>2, <1>3, <1>4, <1>5, <1>6, <1>7 DEF Next, Script

\* The record in place, before the move, after it, and in the rollback.
LEMMA PlaceStep ==
  ASSUME Faults \subseteq {"fail"}, TypeOK, CopyInv, PlaceInv, [Next]_vars
  PROVE  PlaceInv'
<1> USE DEF PlaceInv, BeforeCopy, BeforeMove, AfterMove, BeforeUndo, AfterUndo,
     Live, Unarmed, Armed, Commands, Assignments, RollingBack, vars, diskVars,
     installVars, editVars, undoVars, runVars
<1>1. CASE \E o \in Options : Begin(o)
  <2>1. Follows(appinfo.launch, appinfo.launch)
    BY DEF Follows
  <2> QED  BY <1>1, <2>1 DEF Begin, Snapshot
<1>2. CASE Prepare
  <2>1. CASE StageSteamClient
    BY <2>1 DEF StageSteamClient, Refuse
  <2>2. CASE CheckExisting
    BY <2>2 DEF CheckExisting, Refuse
  <2>3. CASE CopyAppinfo
    BY <2>3 DEF CopyAppinfo
  <2>4. CASE RestoreOldState
    BY <2>4 DEF RestoreOldState, Abort
  <2>5. CASE RestoreOldCloud
    BY <2>5 DEF RestoreOldCloud, Abort
  <2>6. CASE MakeLaunchers
    BY <2>6 DEF MakeLaunchers, Abort
  <2>7. CASE Patch
    BY <2>7 DEF Patch
  <2>8. CASE CloudInstall
    BY <2>8 DEF CloudInstall
  <2>9. CASE SetFlag("links", "flagLinks", "mvAppinfo")
    BY <2>9 DEF SetFlag
  <2> QED  BY <1>2, <2>1, <2>2, <2>3, <2>4, <2>5, <2>6, <2>7, <2>8, <2>9 DEF
    Prepare
<1>3. CASE Commit
  <2>1. CASE MvAppinfo
    <3>1. Follows(appinfo'.launch, plan)
      BY <2>1 DEF MvAppinfo, CopyInv, Follows
    <3> QED  BY <2>1, <3>1 DEF MvAppinfo
  <2>2. CASE SetFlag("appinfo", "flagAppinfo", "backupConfig")
    BY <2>2 DEF SetFlag
  <2>3. CASE BackupFile("config", "backupConfig", "backupState")
    BY <2>3 DEF BackupFile
  <2>4. CASE BackupFile("state", "backupState", "backupCloud")
    BY <2>4 DEF BackupFile
  <2>5. CASE BackupFile("cloud", "backupCloud", "commitPlan")
    BY <2>5 DEF BackupFile
  <2>6. CASE \E l \in Launchers : CommitPlanLine(l)
    BY <2>6 DEF CommitPlanLine
  <2>7. CASE CommitPlanEnd
    BY <2>7 DEF CommitPlanEnd
  <2>8. CASE RenameFile("config", "mvConfig", "flagConfig")
    BY <2>8 DEF RenameFile
  <2>9. CASE SetFlag("config", "flagConfig", "flagLaunchers")
    BY <2>9 DEF SetFlag
  <2>10. CASE SetFlag("launchers", "flagLaunchers", "mvLaunchers")
    BY <2>10 DEF SetFlag
  <2>11. CASE \E l \in Launchers : MvLauncher(l)
    BY <2>11 DEF MvLauncher
  <2>12. CASE MvLaunchersEnd
    BY <2>12 DEF MvLaunchersEnd
  <2>13. CASE RenameFile("state", "mvState", "flagState")
    BY <2>13 DEF RenameFile
  <2>14. CASE SetFlag("state", "flagState", AfterState)
    BY <2>14 DEF SetFlag, AfterState
  <2>15. CASE RenameFile("cloud", "mvCloud", "flagCloud")
    BY <2>15 DEF RenameFile
  <2>16. CASE SetFlag("cloud", "flagCloud", "mvManifest")
    BY <2>16 DEF SetFlag
  <2>17. CASE MvManifest
    BY <2>17 DEF MvManifest
  <2>18. CASE DropPlan
    BY <2>18 DEF DropPlan
  <2>19. CASE Disarm
    BY <2>19 DEF Disarm
  <2> QED  BY <1>3, <2>1, <2>2, <2>3, <2>4, <2>5, <2>6, <2>7, <2>8, <2>9,
    <2>10, <2>11, <2>12, <2>13, <2>14, <2>15, <2>16, <2>17, <2>18, <2>19 DEF
    Commit
<1>4. CASE Rollback
  <2>1. CASE RollbackCloud
    <3>1. appinfo'.launch = appinfo.launch
      BY <2>1 DEF RollbackCloud, RestoredCloud, TypeOK, DiskTypeOK, Appinfo
    <3> QED  BY <2>1, <3>1 DEF RollbackCloud
  <2>2. CASE \E l \in Launchers : RollbackLauncher(l)
    BY <2>2 DEF RollbackLauncher
  <2>3. CASE RollbackLaunchersEnd
    BY <2>3 DEF RollbackLaunchersEnd
  <2>4. CASE RollbackAppinfo
    BY <2>4 DEF RollbackAppinfo
  <2>5. CASE RemoveInstalled("config", "rbRemoveConfig", "rbRemoveState")
    BY <2>5 DEF RemoveInstalled
  <2>6. CASE RemoveInstalled("state", "rbRemoveState", "rbRemoveCloud")
    BY <2>6 DEF RemoveInstalled
  <2>7. CASE RemoveInstalled("cloud", "rbRemoveCloud", "rbRestoreConfig")
    BY <2>7 DEF RemoveInstalled
  <2>8. CASE RestoreBackup("config", "rbRestoreConfig", "rbRestoreState")
    BY <2>8 DEF RestoreBackup
  <2>9. CASE RestoreBackup("state", "rbRestoreState", "rbRestoreCloud")
    BY <2>9 DEF RestoreBackup
  <2>10. CASE RestoreBackup("cloud", "rbRestoreCloud", "rolledBack")
    BY <2>10 DEF RestoreBackup
  <2> QED  BY <1>4, <2>1, <2>2, <2>3, <2>4, <2>5, <2>6, <2>7, <2>8, <2>9, <2>10
    DEF Rollback
<1>5. CASE FailUnarmed \/ Crash
  BY <1>5 DEF FailUnarmed, Refuse, Crash, Ended
<1>6. CASE Fail \/ Signal
  BY <1>6 DEF Fail, Signal, Abort
<1>7. CASE Steam \/ UNCHANGED vars
  <2>1. CASE SteamRewrite /\ UNCHANGED <<pc, editVars, undoVars, pre>>
    <3>1. Follows(appinfo'.launch, appinfo.launch)
      BY <2>1, SteamFollows
    <3>2. \A y : Follows(appinfo.launch, y) => Follows(appinfo'.launch, y)
      BY <3>1, FollowsTrans
    <3> QED  BY <2>1, <3>2
  <2>2. CASE UNCHANGED <<appinfo, pc, editVars, undoVars, pre>>
    BY <2>2
  <2> QED  BY <1>7, <2>1, <2>2 DEF Steam, SteamStart, SteamStop
<1> QED  BY <1>1, <1>2, <1>3, <1>4, <1>5, <1>6, <1>7 DEF Next, Script

\* What the scripts leave at rest fits.
LEMMA DiskFitsStep ==
  ASSUME Faults \subseteq {"fail"}, IInv, MappingInv, [Next]_vars
  PROVE  DiskFits'
<1> USE DEF Running, Labels, Ended, Unarmed, Armed, Commands, Assignments,
     RollingBack, vars, diskVars, installVars, editVars, undoVars, runVars
<1>t. /\ appinfo \in Appinfo /\ plan \in Launch
      /\ pc \in Labels /\ runs \in Nat
      /\ file \in [Files -> Run] /\ pre.file \in [Files -> Run]
      /\ launcher \in [Launchers -> Run] /\ pre.launcher \in [Launchers -> Run]
      /\ recorded \in [Run -> Record]
  BY DiskAssumption DEF IInv, TypeOK, DiskTypeOK, Run
<1>a. ASSUME pc \in Running, pc' \in Running, UNCHANGED <<pre, recorded, runs>>
      PROVE  DiskFits'
  BY <1>a DEF MappingInv, DiskFits, Fits, Playable, Removable, Reversible
<1>b. ASSUME pc \in Running, pc' \in {"refused", "rolledBack"},
             file' = pre.file, launcher' = pre.launcher,
             Follows(appinfo'.launch, pre.appinfo.launch),
             UNCHANGED <<pre, recorded, runs>>
      PROVE  DiskFits'
  <2>1. Fits(pre.appinfo.launch, pre.file, pre.launcher) /\ pre.file["state"] < runs
    BY <1>b DEF MappingInv, DiskFits
  <2>2. Fits(appinfo'.launch, pre.file, pre.launcher)
    BY <1>b, <2>1, FitsFollows
  <2>3. Fits(appinfo.launch, file, launcher)'
    BY <1>b, <2>2 DEF Fits, Playable, Removable, Reversible
  <2>4. file'["state"] <= runs'
    BY <1>b, <1>t, <2>1, DiskAssumption DEF Run, Files
  <2> QED  BY <1>b, <2>3, <2>4 DEF DiskFits
<1>c. ASSUME pc \in Running, pc' \in Running, UNCHANGED <<pre, runs>>,
             NEW r, recorded' = [recorded EXCEPT ![gen] = r]
      PROVE  DiskFits'
  <2>1. Fits(pre.appinfo.launch, pre.file, pre.launcher) /\ pre.file["state"] < runs
    BY <1>c DEF MappingInv, DiskFits
  <2> DEFINE x == pre.appinfo.launch
             f == pre.file
             ls == pre.launcher
  <2>2. x' = x /\ f' = f /\ ls' = ls
    BY <1>c
  <2>3. pre.file["state"] # gen /\ pre.file["state"] \in Run
    BY <1>t, <2>1, DiskAssumption DEF Run, Files, gen
  <2>4. recorded'[pre.file["state"]] = recorded[pre.file["state"]]
    BY <1>c, <1>t, <2>3
  <2>5. Fits(pre.appinfo.launch, pre.file, pre.launcher)'
    BY <1>c, <2>1, <2>4 DEF Fits, Playable, Removable, Reversible
  <2> QED  BY <1>c, <2>1, <2>5 DEF DiskFits
<1>d. ASSUME pc \in Unarmed
      PROVE  /\ file = pre.file /\ launcher = pre.launcher
             /\ Follows(appinfo.launch, pre.appinfo.launch)
  <2>1. \A f \in Files : file[f] = pre.file[f]
    BY <1>d DEF IInv, FileInv, FileInvAt, KeptAt, Editing, Kept, Files
  <2>2. \A l \in Launchers : launcher[l] = pre.launcher[l]
    BY <1>d DEF IInv, LauncherInv, LauncherAt, Untouched, Editing, KeptL
  <2> QED  BY <1>d, <1>t, <2>1, <2>2
           DEF MappingInv, PlaceInv, BeforeMove, BeforeCopy
<1>1. CASE \E o \in Options : Begin(o)
  <2>1. pc \in Ended /\ pc' = "client" /\ runs' = runs + 1 /\ recorded' = recorded
    BY <1>1 DEF Begin
  <2>2. /\ pre'.appinfo = appinfo /\ pre'.file = file
        /\ pre'.launcher = launcher
    BY <1>1 DEF Begin, Snapshot
  <2>3. Fits(appinfo.launch, file, launcher) /\ file["state"] <= runs
    BY <2>1 DEF MappingInv, DiskFits
  <2>4. Fits(pre.appinfo.launch, pre.file, pre.launcher)'
    BY <2>1, <2>2, <2>3 DEF Fits, Playable, Removable, Reversible
  <2>5. pre'.file["state"] < runs'
    BY <1>t, <2>1, <2>2, <2>3, DiskAssumption DEF Run, Files
  <2> QED  BY <2>1, <2>4, <2>5 DEF DiskFits
<1>2. CASE Prepare
  <2>1. CASE StageSteamClient
    BY <2>1, <1>a, <1>b, <1>d DEF StageSteamClient, Refuse
  <2>2. CASE CheckExisting
    BY <2>2, <1>a, <1>b, <1>d DEF CheckExisting, Refuse
  <2>3. CASE CopyAppinfo
    BY <2>3, <1>a DEF CopyAppinfo
  <2>4. CASE RestoreOldState
    BY <2>4, <1>a DEF RestoreOldState, Abort
  <2>5. CASE RestoreOldCloud
    BY <2>5, <1>a DEF RestoreOldCloud, Abort
  <2>6. CASE MakeLaunchers
    BY <2>6, <1>a DEF MakeLaunchers, Abort
  <2>7. CASE Patch
    BY <2>7, <1>c DEF Patch
  <2>8. CASE CloudInstall
    BY <2>8, <1>c DEF CloudInstall
  <2>9. CASE SetFlag("links", "flagLinks", "mvAppinfo")
    BY <2>9, <1>a DEF SetFlag
  <2> QED  BY <1>2, <2>1, <2>2, <2>3, <2>4, <2>5, <2>6, <2>7, <2>8, <2>9 DEF
    Prepare
<1>3. CASE Commit
  <2>1. CASE MvAppinfo
    BY <2>1, <1>a DEF MvAppinfo
  <2>2. CASE SetFlag("appinfo", "flagAppinfo", "backupConfig")
    BY <2>2, <1>a DEF SetFlag
  <2>3. CASE BackupFile("config", "backupConfig", "backupState")
    BY <2>3, <1>a DEF BackupFile
  <2>4. CASE BackupFile("state", "backupState", "backupCloud")
    BY <2>4, <1>a DEF BackupFile
  <2>5. CASE BackupFile("cloud", "backupCloud", "commitPlan")
    BY <2>5, <1>a DEF BackupFile
  <2>6. CASE \E l \in Launchers : CommitPlanLine(l)
    BY <2>6, <1>a DEF CommitPlanLine
  <2>7. CASE CommitPlanEnd
    BY <2>7, <1>a DEF CommitPlanEnd
  <2>8. CASE RenameFile("config", "mvConfig", "flagConfig")
    BY <2>8, <1>a DEF RenameFile
  <2>9. CASE SetFlag("config", "flagConfig", "flagLaunchers")
    BY <2>9, <1>a DEF SetFlag
  <2>10. CASE SetFlag("launchers", "flagLaunchers", "mvLaunchers")
    BY <2>10, <1>a DEF SetFlag
  <2>11. CASE \E l \in Launchers : MvLauncher(l)
    BY <2>11, <1>a DEF MvLauncher
  <2>12. CASE MvLaunchersEnd
    BY <2>12, <1>a DEF MvLaunchersEnd
  <2>13. CASE RenameFile("state", "mvState", "flagState")
    BY <2>13, <1>a DEF RenameFile
  <2>14. CASE SetFlag("state", "flagState", AfterState)
    BY <2>14, <1>a DEF SetFlag, AfterState
  <2>15. CASE RenameFile("cloud", "mvCloud", "flagCloud")
    BY <2>15, <1>a DEF RenameFile
  <2>16. CASE SetFlag("cloud", "flagCloud", "mvManifest")
    BY <2>16, <1>a DEF SetFlag
  <2>17. CASE MvManifest
    BY <2>17, <1>a DEF MvManifest
  <2>18. CASE DropPlan
    BY <2>18, <1>a DEF DropPlan
  <2>19. CASE Disarm
    <3>1. pc = "disarm" /\ pc' = "committed" /\ UNCHANGED diskVars
      BY <2>19 DEF Disarm
    <3>2. file["config"] = gen /\ file["state"] = gen
      BY <3>1 DEF IInv, FileInv, FileInvAt, FlaggedAt, Replaced, New, Files
    <3>3. gen # 0 /\ gen \in Nat
      BY <3>1, <1>t, DiskAssumption DEF MappingInv, DiskFits, gen, Run, Files
    <3>4. \A e \in Entries : plan[e] # Native =>
            plan[e] \in Launchers /\ launcher[plan[e]] = gen
      <4> SUFFICES ASSUME NEW e \in Entries, plan[e] # Native
                   PROVE  plan[e] \in Launchers /\ launcher[plan[e]] = gen
        OBVIOUS
      <4>1. plan[e] \in Launchers /\ Planned(plan[e])
        BY <1>t DEF Launch, Planned, PlannedLaunchers
      <4> QED  BY <3>1, <4>1
               DEF IInv, LauncherInv, LauncherAt, MovedIn, NewL
    <3>5. /\ Follows(appinfo.launch, plan)
          /\ recorded[gen].map = plan
          /\ \A e \in Entries : recorded[gen].orig[e] = Native
      BY <3>1 DEF MappingInv, PlaceInv, CopyInv, AfterMove, AfterChoice,
                  BeforeMove, BeforeCopy
    <3>6. Fits(appinfo.launch, file, launcher)
      BY <3>2, <3>3, <3>4, <3>5
      DEF Follows, Fits, Playable, Removable, Reversible
    <3>7. Fits(appinfo.launch, file, launcher)'
      BY <3>1, <3>6 DEF Fits, Playable, Removable, Reversible
    <3> QED  BY <3>1, <3>2, <3>3, <3>7 DEF DiskFits, gen
  <2> QED  BY <1>3, <2>1, <2>2, <2>3, <2>4, <2>5, <2>6, <2>7, <2>8, <2>9,
    <2>10, <2>11, <2>12, <2>13, <2>14, <2>15, <2>16, <2>17, <2>18, <2>19 DEF
    Commit
<1>4. CASE Rollback
  <2>1. CASE RollbackCloud
    BY <2>1, <1>a DEF RollbackCloud
  <2>2. CASE \E l \in Launchers : RollbackLauncher(l)
    BY <2>2, <1>a DEF RollbackLauncher
  <2>3. CASE RollbackLaunchersEnd
    BY <2>3, <1>a DEF RollbackLaunchersEnd
  <2>4. CASE RollbackAppinfo
    BY <2>4, <1>a DEF RollbackAppinfo
  <2>5. CASE RemoveInstalled("config", "rbRemoveConfig", "rbRemoveState")
    BY <2>5, <1>a DEF RemoveInstalled
  <2>6. CASE RemoveInstalled("state", "rbRemoveState", "rbRemoveCloud")
    BY <2>6, <1>a DEF RemoveInstalled
  <2>7. CASE RemoveInstalled("cloud", "rbRemoveCloud", "rbRestoreConfig")
    BY <2>7, <1>a DEF RemoveInstalled
  <2>8. CASE RestoreBackup("config", "rbRestoreConfig", "rbRestoreState")
    BY <2>8, <1>a DEF RestoreBackup
  <2>9. CASE RestoreBackup("state", "rbRestoreState", "rbRestoreCloud")
    BY <2>9, <1>a DEF RestoreBackup
  <2>10. CASE RestoreBackup("cloud", "rbRestoreCloud", "rolledBack")
    <3>1. /\ pc = "rbRestoreCloud" /\ pc' = "rolledBack"
          /\ UNCHANGED <<appinfo, launcher, pre, recorded, runs, stopAt>>
      BY <2>10 DEF RestoreBackup
    <3>2. \A f \in Files : stopAt # FlagOf(f)
      BY DEF MappingInv, FailOnlyInv, FlagOf, Files
    <3>3. FileInv'
      BY FileStep DEF IInv, FileInv
    <3>4. \A f \in Files : file'[f] = pre.file[f]
      BY <3>1, <3>2, <3>3 DEF FileInv, FileInvAt, RestoredAt, FlagOf
    <3>5. file' \in [Files -> Run]
      BY TypeNext DEF IInv, TypeOK, DiskTypeOK
    <3>6. \A l \in Launchers : launcher[l] = pre.launcher[l]
      BY <3>1 DEF IInv, LauncherInv, LauncherAt, BackL, MappingInv, FailOnlyInv
    <3>7. Follows(appinfo.launch, pre.appinfo.launch)
      BY <3>1 DEF MappingInv, PlaceInv, AfterUndo, BeforeUndo
    <3>8. file' = pre.file /\ launcher' = pre.launcher
      BY <1>t, <3>1, <3>4, <3>5, <3>6
    <3> QED  BY <1>b, <3>1, <3>7, <3>8
  <2> QED  BY <1>4, <2>1, <2>2, <2>3, <2>4, <2>5, <2>6, <2>7, <2>8, <2>9, <2>10
    DEF Rollback
<1>5. CASE FailUnarmed \/ Crash
  BY <1>5, <1>b, <1>d DEF FailUnarmed, Refuse, Crash
<1>6. CASE Fail \/ Signal
  BY <1>6, <1>a DEF Fail, Signal, Abort
<1>7. CASE Steam \/ UNCHANGED vars
  <2>0. UNCHANGED <<pc, file, launcher, recorded, runs, pre>>
    BY <1>7 DEF Steam, SteamStart, SteamStop, SteamRewrite
  <2>1. Follows(appinfo'.launch, appinfo.launch)
    BY <1>7, SteamFollows
    DEF IInv, Steam, SteamStart, SteamStop, Follows
  <2>2. CASE pc \in Running
    BY <2>0, <2>2, <1>a
  <2>3. CASE pc \in Ended
    <3>1. Fits(appinfo.launch, file, launcher) /\ file["state"] <= runs
      BY <2>3 DEF MappingInv, DiskFits
    <3>2. Fits(appinfo'.launch, file, launcher)
      BY <2>1, <3>1, FitsFollows
    <3>3. Fits(appinfo.launch, file, launcher)'
      BY <2>0, <3>2 DEF Fits, Playable, Removable, Reversible
    <3> QED  BY <2>0, <2>3, <3>1, <3>3 DEF DiskFits
  <2> QED  BY <1>t, <2>2, <2>3
<1> QED  BY <1>1, <1>2, <1>3, <1>4, <1>5, <1>6, <1>7 DEF Next, Script

LEMMA MappingInit == Init => MappingInv
<1> SUFFICES ASSUME Init PROVE MappingInv
  OBVIOUS
<1> USE DEF Init, DiskInit
<1>1. FailOnlyInv
  BY DEF FailOnlyInv
<1>2. DiskFits
  BY DEF DiskFits, Fits, Playable, Removable, Reversible, NoAppinfo, AllNative,
         Running, Ended, Files
<1>3. CopyInv /\ PlaceInv
  BY DEF CopyInv, PlaceInv, AfterChoice, BeforeMove, BeforeCopy, AfterMove,
         BeforeUndo, AfterUndo, Unarmed, Armed, Commands, Assignments,
         RollingBack
<1> QED  BY <1>1, <1>2, <1>3 DEF MappingInv

LEMMA MappingHolds ==
  ASSUME Faults \subseteq {"fail"}
  PROVE  Spec => [](IInv /\ MappingInv)
<1>1. Init => IInv /\ MappingInv
  BY IInvInit, MappingInit
<1>2. (IInv /\ MappingInv) /\ [Next]_vars => (IInv /\ MappingInv)'
  <2> SUFFICES ASSUME IInv, MappingInv, [Next]_vars
               PROVE  (IInv /\ MappingInv)'
    OBVIOUS
  <2>1. IInv'
    BY IInvNext
  <2>2. FailOnlyInv' /\ DiskFits' /\ CopyInv' /\ PlaceInv'
    BY FailOnlyStep, DiskFitsStep, CopyStep, PlaceStep DEF IInv, MappingInv
  <2> QED  BY <2>1, <2>2 DEF MappingInv
<1> QED  BY <1>1, <1>2, PTL DEF Spec

\* When commands fail but neither a signal nor a crash stops the script, then
\* between runs a mapped entry has its launcher and its config, whatever the
\* options of the installs and whenever Steam rewrote the record.
THEOREM MappedEntriesPlay ==
  ASSUME Faults \subseteq {"fail"}
  PROVE  Spec => []PlayFindsLauncher
<1>1. IInv /\ MappingInv => PlayFindsLauncher
  BY DEF MappingInv, DiskFits, Fits, Playable, PlayFindsLauncher, AtRest
<1> QED  BY <1>1, MappingHolds, PTL

\* Under the same faults every mapped entry is in the state file, with the
\* native executable to put back: no sequence of forced reinstalls, refusals
\* and rollbacks makes a mapping ullage-remove could not undo.
THEOREM MappedEntriesAreRemovable ==
  ASSUME Faults \subseteq {"fail"}
  PROVE  Spec => []MappingIsRemovable
<1>1. ASSUME IInv, MappingInv, pc \in Ended
      PROVE  \A e \in Entries : appinfo.launch[e] # Native =>
               /\ file["state"] # 0
               /\ recorded[file["state"]].map[e] = appinfo.launch[e]
               /\ recorded[file["state"]].orig[e] = Native
  BY <1>1 DEF MappingInv, DiskFits, Fits, Removable, Reversible
<1>2. IInv /\ MappingInv => MappingIsRemovable
  BY <1>1 DEF MappingIsRemovable, AtRest
<1> QED  BY <1>2, MappingHolds, PTL
================================================================================
