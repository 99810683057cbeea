---------------------------- MODULE RemoveTxnProofs ----------------------------
(***************************************************************************)
(* Proofs about RemoveTxn, for any launch options, Cloud roots, number of  *)
(* removes, and all the faults.                                            *)
(***************************************************************************)
EXTENDS RemoveTxn, TLAPS

(* Before its move a file is where the run found it, afterwards it is in    *)
(* its backup.  The launchers still to be moved are in todo.                *)

BeforeMove ==
  {"copy", "restore", "restoreCloud", "mvAppinfo", "listLaunchers"}

FileMovedAt(f) ==
  {"disarm"} \cup
  CASE f = "config" -> {"moveState", "moveCloud"}
    [] f = "state"  -> {"moveCloud"}
    [] f = "cloud"  -> {}

Kept(f) == file[f] = pre.file[f]
Moved(f) == file[f] = 0 /\ fileMoved[f] = pre.file[f]
KeptL(l) == launcher[l] = pre.launcher[l]
MovedL(l) == launcher[l] = 0 /\ launcherMoved[l] = pre.launcher[l]

FileAt(f) ==
  /\ pc \in {"copy"} \cup Commands =>
       IF pc \in FileMovedAt(f) THEN Moved(f) ELSE Kept(f)
  /\ pc = "removed" => Moved(f)
  /\ pc # "idle" => Kept(f) \/ Moved(f)

FileInv == \A f \in Files : FileAt(f)

LauncherAt(l) ==
  /\ pc \in BeforeMove => KeptL(l)
  /\ pc = "moveLaunchers" /\ l \in todo => KeptL(l)
  /\ pc # "idle" => KeptL(l) \/ MovedL(l)

LauncherInv == \A l \in Launchers : LauncherAt(l)

(* appinfo.vdf, unless Steam wrote it during the run.                       *)
AppinfoInv ==
  pc # "idle" /\ ~steamWrote =>
    /\ pc = "copy" => appinfo = pre.appinfo
    /\ pc \in Commands \cup {"rollback"} => appinfoBackup = pre.appinfo
    /\ pc = "rolledBack" /\ code # 0 => appinfo = pre.appinfo
    /\ appinfo = pre.appinfo \/ appinfoBackup = pre.appinfo

(* What the run has restored so far of what the records it found say.       *)

OldRec == recorded[pre.file["state"]]
OldCloud == recorded[pre.file["cloud"]]

\* After the copy has replaced appinfo.vdf, and after the launchers are moved.
Replaced ==
  {"listLaunchers", "moveLaunchers", "moveConfig", "moveState", "moveCloud",
   "disarm", "removed"}
LaunchersGone == {"moveConfig", "moveState", "moveCloud", "disarm", "removed"}

EntryAt(e) ==
  OldRec.map[e] # Native =>
    /\ pc \in {"restoreCloud", "mvAppinfo"} => appinfoTmp.launch[e] = OldRec.orig[e]
    /\ pc \in Replaced => appinfo.launch[e] \in {OldRec.orig[e], Native}
    /\ pc = "moveLaunchers" => OldRec.map[e] \in todo \/ launcher[OldRec.map[e]] = 0
    /\ pc \in LaunchersGone => launcher[OldRec.map[e]] = 0

EntryInv == \A e \in Entries : EntryAt(e)

CloudInv ==
  pre.file["cloud"] # 0 =>
    /\ pc \in {"mvAppinfo"} \cup Replaced => links \cap OldCloud.owned = {}
    /\ pc = "mvAppinfo" => appinfoTmp.cloud = OldCloud.cloudOrig
    /\ pc \in Replaced /\ ~steamWrote => appinfo.cloud = OldCloud.cloudOrig

(* A remove that stops before it has edited anything, and one that stops     *)
(* before the state file is moved.                                          *)

Refusing ==
  \/ pc \in {"copy", "restore", "restoreCloud"}
  \/ pc \in {"rollback", "rolledBack"} /\ stopAt \in {"restore", "restoreCloud"}

RefusalInv ==
  Refusing =>
    /\ file = pre.file /\ launcher = pre.launcher /\ links = pre.links
    /\ ~steamWrote => appinfo = pre.appinfo

RetryInv ==
  pc \in {"rollback", "rolledBack"} /\ stopAt \notin {"moveCloud", "disarm"} =>
    Kept("state") /\ Kept("cloud")

IInv ==
  /\ TypeOK
  /\ FileInv /\ LauncherInv /\ AppinfoInv
  /\ EntryInv /\ CloudInv
  /\ RefusalInv /\ RetryInv

--------------------------------------------------------------------------------
(* Types.                                                                  *)

LEMMA AppinfoEdits ==
  ASSUME NEW info \in Appinfo, NEW rec \in Record
  PROVE  /\ RestoredLaunch(rec, info.launch) \in Launch
         /\ [info EXCEPT !.launch = RestoredLaunch(rec, info.launch)] \in Appinfo
         /\ RestoredCloud(rec, info) \in Appinfo
  BY DEF Appinfo, Record, Launch, RestoredLaunch, RestoredCloud

LEMMA LabelNext ==
  ASSUME pc \in Labels, stopAt \in Commands \cup {"idle"}, [Next]_vars
  PROVE  pc' \in Labels /\ stopAt' \in Commands \cup {"idle"}
<1> USE DEF Labels, Commands, Ended, vars, diskVars, removeVars, movedVars, historyVars
<1>1. CASE Begin
  BY <1>1 DEF Begin, Snapshot
<1>2. CASE Script
  <2>1. CASE Copy
    BY <2>1 DEF Copy
  <2>2. CASE Restore
    BY <2>2 DEF Restore, Abort
  <2>3. CASE RestoreCloud
    BY <2>3 DEF RestoreCloud, Abort
  <2>4. CASE MvAppinfo
    BY <2>4 DEF MvAppinfo
  <2>5. CASE ListLaunchers
    BY <2>5 DEF ListLaunchers
  <2>6. CASE \E l \in Launchers : MoveLauncher(l)
    BY <2>6 DEF MoveLauncher
  <2>7. CASE MoveLaunchersEnd
    BY <2>7 DEF MoveLaunchersEnd
  <2>8. CASE MoveFile("config", "moveConfig", "moveState")
    BY <2>8 DEF MoveFile
  <2>9. CASE MoveFile("state", "moveState", "moveCloud")
    BY <2>9 DEF MoveFile
  <2>10. CASE MoveFile("cloud", "moveCloud", "disarm")
    BY <2>10 DEF MoveFile
  <2>11. CASE Disarm
    BY <2>11 DEF Disarm
  <2>12. CASE Rollback
    BY <2>12 DEF Rollback
  <2> QED
    BY <1>2, <2>1, <2>2, <2>3, <2>4, <2>5, <2>6, <2>7, <2>8, <2>9, <2>10, <2>11, <2>12
    DEF Script
<1>3. CASE Fail \/ Signal
  BY <1>3 DEF Fail, Signal, Abort
<1>4. CASE Crash
  BY <1>4 DEF Crash
<1>5. CASE Steam \/ UNCHANGED vars
  BY <1>5 DEF Steam, SteamStart, SteamStop, SteamRewrite
<1> QED  BY <1>1, <1>2, <1>3, <1>4, <1>5 DEF Next

LEMMA TypeNext == TypeOK /\ [Next]_vars => TypeOK'
<1> SUFFICES ASSUME TypeOK, [Next]_vars PROVE TypeOK'
  OBVIOUS
<1>l. pc' \in Labels /\ stopAt' \in Commands \cup {"idle"}
  BY LabelNext DEF TypeOK
<1>z. 0 \in Run /\ NoAppinfo \in Appinfo
  BY DiskAssumption DEF Run, NoAppinfo, AllNative, Appinfo, Launch
<1>r. State \in Record /\ CloudState \in Record
  BY DEF TypeOK, DiskTypeOK, Files, State, CloudState
<1> USE <1>l DEF TypeOK, DiskTypeOK, vars, diskVars, removeVars, movedVars, historyVars
<1>1. CASE Begin
  <2>1. removes' \in 0..MaxRemoves
    BY <1>1, RemoveAssumption DEF Begin
  <2>2. fileMoved' \in [Files -> Run] /\ launcherMoved' \in [Launchers -> Run]
    BY <1>1, <1>z DEF Begin
  <2>3. pre' \in [appinfo : Appinfo, file : [Files -> Run],
                  launcher : [Launchers -> Run], links : SUBSET Roots]
    BY <1>1 DEF Begin, Snapshot
  <2> QED  BY <1>1, <1>z, <2>1, <2>2, <2>3 DEF Begin
<1>2. CASE Script
  <2>1. CASE Copy
    BY <2>1 DEF Copy
  <2>2. CASE Restore
    BY <2>2, <1>r, AppinfoEdits DEF Restore, Abort, Files
  <2>3. CASE RestoreCloud
    <3>1. RestoredCloud(CloudState, appinfoTmp) \in Appinfo
      BY <1>r, AppinfoEdits
    <3>2. appinfoTmp' \in {appinfoTmp, RestoredCloud(CloudState, appinfoTmp)}
      BY <2>3 DEF RestoreCloud, Abort
    <3>3. links' \subseteq links
      BY <2>3 DEF RestoreCloud, Abort
    <3> QED  BY <2>3, <3>1, <3>2, <3>3 DEF RestoreCloud, Abort
  <2>4. CASE MvAppinfo
    BY <2>4 DEF MvAppinfo
  <2>5. CASE ListLaunchers
    <3>1. State.map \in Launch
      BY <1>r DEF Record
    <3>2. StateLaunchers \subseteq Launchers /\ Main \in Launchers
      BY <3>1 DEF StateLaunchers, Launch, Launchers
    <3> QED  BY <2>5, <3>2 DEF ListLaunchers
  <2>6. CASE \E l \in Launchers : MoveLauncher(l)
    BY <2>6, <1>z DEF MoveLauncher
  <2>7. CASE MoveLaunchersEnd
    BY <2>7 DEF MoveLaunchersEnd
  <2>8. CASE MoveFile("config", "moveConfig", "moveState")
    BY <2>8, <1>z DEF MoveFile, Files
  <2>9. CASE MoveFile("state", "moveState", "moveCloud")
    BY <2>9, <1>z DEF MoveFile, Files
  <2>10. CASE MoveFile("cloud", "moveCloud", "disarm")
    BY <2>10, <1>z DEF MoveFile, Files
  <2>11. CASE Disarm
    BY <2>11 DEF Disarm
  <2>12. CASE Rollback
    BY <2>12 DEF Rollback
  <2> QED
    BY <1>2, <2>1, <2>2, <2>3, <2>4, <2>5, <2>6, <2>7, <2>8, <2>9, <2>10, <2>11, <2>12
    DEF Script
<1>3. CASE Fail \/ Signal
  BY <1>3 DEF Fail, Signal, Abort
<1>4. CASE Crash
  BY <1>4 DEF Crash
<1>5. CASE Steam \/ UNCHANGED vars
  <2>1. CASE SteamRewrite
    <3>1. appinfo' \in Appinfo
      BY <2>1 DEF SteamRewrite, Appinfo, Launch
    <3>2. steamWrites' \in 0..MaxSteamWrites
      BY <2>1, DiskAssumption DEF SteamRewrite
    <3> QED  BY <1>5, <2>1, <3>1, <3>2 DEF Steam, SteamRewrite
  <2>2. CASE ~SteamRewrite
    BY <1>5, <2>2 DEF Steam, SteamStart, SteamStop
  <2> QED  BY <2>1, <2>2
<1> QED  BY <1>1, <1>2, <1>3, <1>4, <1>5 DEF Next

--------------------------------------------------------------------------------
(* The invariant.                                                          *)

LEMMA FileStep ==
  ASSUME TypeOK, FileInv, NEW f \in Files, [Next]_vars
  PROVE  FileAt(f)'
<1> USE DEF FileInv, FileAt, FileMovedAt, Kept, Moved, Files, Commands,
     vars, diskVars, removeVars, movedVars, historyVars
<1>1. CASE Begin
  BY <1>1 DEF Begin, Snapshot
<1>2. CASE Script
  <2>1. CASE Copy
    BY <2>1 DEF Copy
  <2>2. CASE Restore
    BY <2>2 DEF Restore, Abort
  <2>3. CASE RestoreCloud
    BY <2>3 DEF RestoreCloud, Abort
  <2>4. CASE MvAppinfo
    BY <2>4 DEF MvAppinfo
  <2>5. CASE ListLaunchers
    BY <2>5 DEF ListLaunchers
  <2>6. CASE \E l \in Launchers : MoveLauncher(l)
    BY <2>6 DEF MoveLauncher
  <2>7. CASE MoveLaunchersEnd
    BY <2>7 DEF MoveLaunchersEnd
  <2>8. CASE MoveFile("config", "moveConfig", "moveState")
    BY <2>8 DEF MoveFile, TypeOK, DiskTypeOK
  <2>9. CASE MoveFile("state", "moveState", "moveCloud")
    BY <2>9 DEF MoveFile, TypeOK, DiskTypeOK
  <2>10. CASE MoveFile("cloud", "moveCloud", "disarm")
    BY <2>10 DEF MoveFile, TypeOK, DiskTypeOK
  <2>11. CASE Disarm
    BY <2>11 DEF Disarm
  <2>12. CASE Rollback
    BY <2>12 DEF Rollback
  <2> QED
    BY <1>2, <2>1, <2>2, <2>3, <2>4, <2>5, <2>6, <2>7, <2>8, <2>9, <2>10, <2>11, <2>12
    DEF Script
<1>3. CASE Fail \/ Signal
  BY <1>3 DEF Fail, Signal, Abort
<1>4. CASE Crash
  BY <1>4 DEF Crash, Ended
<1>5. CASE Steam \/ UNCHANGED vars
  BY <1>5 DEF Steam, SteamStart, SteamStop, SteamRewrite
<1> QED  BY <1>1, <1>2, <1>3, <1>4, <1>5 DEF Next

LEMMA LauncherStep ==
  ASSUME TypeOK, LauncherInv, NEW k \in Launchers, [Next]_vars
  PROVE  LauncherAt(k)'
<1> USE DEF LauncherInv, LauncherAt, KeptL, MovedL, BeforeMove, Commands,
     vars, diskVars, removeVars, movedVars, historyVars
<1>1. CASE Begin
  BY <1>1 DEF Begin, Snapshot
<1>2. CASE Script
  <2>1. CASE Copy
    BY <2>1 DEF Copy
  <2>2. CASE Restore
    BY <2>2 DEF Restore, Abort
  <2>3. CASE RestoreCloud
    BY <2>3 DEF RestoreCloud, Abort
  <2>4. CASE MvAppinfo
    BY <2>4 DEF MvAppinfo
  <2>5. CASE ListLaunchers
    BY <2>5 DEF ListLaunchers
  <2>6. CASE \E l \in Launchers : MoveLauncher(l)
    BY <2>6 DEF MoveLauncher, TypeOK, DiskTypeOK
  <2>7. CASE MoveLaunchersEnd
    BY <2>7 DEF MoveLaunchersEnd
  <2>8. CASE MoveFile("config", "moveConfig", "moveState")
    BY <2>8 DEF MoveFile
  <2>9. CASE MoveFile("state", "moveState", "moveCloud")
    BY <2>9 DEF MoveFile
  <2>10. CASE MoveFile("cloud", "moveCloud", "disarm")
    BY <2>10 DEF MoveFile
  <2>11. CASE Disarm
    BY <2>11 DEF Disarm
  <2>12. CASE Rollback
    BY <2>12 DEF Rollback
  <2> QED
    BY <1>2, <2>1, <2>2, <2>3, <2>4, <2>5, <2>6, <2>7, <2>8, <2>9, <2>10, <2>11, <2>12
    DEF Script
<1>3. CASE Fail \/ Signal
  BY <1>3 DEF Fail, Signal, Abort
<1>4. CASE Crash
  BY <1>4 DEF Crash, Ended
<1>5. CASE Steam \/ UNCHANGED vars
  BY <1>5 DEF Steam, SteamStart, SteamStop, SteamRewrite
<1> QED  BY <1>1, <1>2, <1>3, <1>4, <1>5 DEF Next

LEMMA AppinfoStep ==
  ASSUME TypeOK, AppinfoInv, [Next]_vars
  PROVE  AppinfoInv'
<1> USE DEF AppinfoInv, Commands,
     vars, diskVars, removeVars, movedVars, historyVars
<1>1. CASE Begin
  BY <1>1 DEF Begin, Snapshot
<1>2. CASE Script
  <2>1. CASE Copy
    BY <2>1 DEF Copy
  <2>2. CASE Restore
    BY <2>2 DEF Restore, Abort
  <2>3. CASE RestoreCloud
    BY <2>3 DEF RestoreCloud, Abort
  <2>4. CASE MvAppinfo
    BY <2>4 DEF MvAppinfo
  <2>5. CASE ListLaunchers
    BY <2>5 DEF ListLaunchers
  <2>6. CASE \E l \in Launchers : MoveLauncher(l)
    BY <2>6 DEF MoveLauncher
  <2>7. CASE MoveLaunchersEnd
    BY <2>7 DEF MoveLaunchersEnd
  <2>8. CASE MoveFile("config", "moveConfig", "moveState")
    BY <2>8 DEF MoveFile
  <2>9. CASE MoveFile("state", "moveState", "moveCloud")
    BY <2>9 DEF MoveFile
  <2>10. CASE MoveFile("cloud", "moveCloud", "disarm")
    BY <2>10 DEF MoveFile
  <2>11. CASE Disarm
    BY <2>11 DEF Disarm
  <2>12. CASE Rollback
    BY <2>12 DEF Rollback
  <2> QED
    BY <1>2, <2>1, <2>2, <2>3, <2>4, <2>5, <2>6, <2>7, <2>8, <2>9, <2>10, <2>11, <2>12
    DEF Script
<1>3. CASE Fail \/ Signal
  BY <1>3 DEF Fail, Signal, Abort
<1>4. CASE Crash
  BY <1>4 DEF Crash, Ended
<1>5. CASE Steam \/ UNCHANGED vars
  BY <1>5 DEF Steam, SteamStart, SteamStop, SteamRewrite
<1> QED  BY <1>1, <1>2, <1>3, <1>4, <1>5 DEF Next

LEMMA EntryStep ==
  ASSUME TypeOK, FileInv, EntryInv, NEW x \in Entries, [Next]_vars
  PROVE  EntryAt(x)'
<1> USE DEF EntryInv, EntryAt, OldRec, Replaced, LaunchersGone, Commands, Ended,
     vars, diskVars, removeVars, movedVars, historyVars
<1>1. CASE Begin
  BY <1>1 DEF Begin, Snapshot
<1>2. CASE Script
  <2>1. CASE Copy
    BY <2>1 DEF Copy
  <2>2. CASE Restore
    BY <2>2 DEF Restore, Abort, State, FileInv, FileAt, FileMovedAt, Kept, Files, Commands, RestoredLaunch, TypeOK, DiskTypeOK, Appinfo
  <2>3. CASE RestoreCloud
    BY <2>3 DEF RestoreCloud, Abort, RestoredCloud, TypeOK, DiskTypeOK, Appinfo
  <2>4. CASE MvAppinfo
    BY <2>4 DEF MvAppinfo
  <2>5. CASE ListLaunchers
    BY <2>5 DEF ListLaunchers, StateLaunchers, State, FileInv, FileAt, FileMovedAt, Kept, Files, Commands
  <2>6. CASE \E l \in Launchers : MoveLauncher(l)
    BY <2>6 DEF MoveLauncher, TypeOK, DiskTypeOK
  <2>7. CASE MoveLaunchersEnd
    BY <2>7 DEF MoveLaunchersEnd
  <2>8. CASE MoveFile("config", "moveConfig", "moveState")
    BY <2>8 DEF MoveFile
  <2>9. CASE MoveFile("state", "moveState", "moveCloud")
    BY <2>9 DEF MoveFile
  <2>10. CASE MoveFile("cloud", "moveCloud", "disarm")
    BY <2>10 DEF MoveFile
  <2>11. CASE Disarm
    BY <2>11 DEF Disarm
  <2>12. CASE Rollback
    BY <2>12 DEF Rollback
  <2> QED
    BY <1>2, <2>1, <2>2, <2>3, <2>4, <2>5, <2>6, <2>7, <2>8, <2>9, <2>10, <2>11, <2>12
    DEF Script
<1>3. CASE Fail \/ Signal
  BY <1>3 DEF Fail, Signal, Abort
<1>4. CASE Crash
  BY <1>4 DEF Crash, Ended
<1>5. CASE Steam \/ UNCHANGED vars
  BY <1>5 DEF Steam, SteamStart, SteamStop, SteamRewrite, TypeOK, DiskTypeOK, Appinfo
<1> QED  BY <1>1, <1>2, <1>3, <1>4, <1>5 DEF Next

LEMMA CloudStep ==
  ASSUME TypeOK, FileInv, CloudInv, [Next]_vars
  PROVE  CloudInv'
<1> USE DEF CloudInv, OldCloud, Replaced, Commands, Ended,
     vars, diskVars, removeVars, movedVars, historyVars
<1>1. CASE Begin
  BY <1>1 DEF Begin, Snapshot
<1>2. CASE Script
  <2>1. CASE Copy
    BY <2>1 DEF Copy
  <2>2. CASE Restore
    BY <2>2 DEF Restore, Abort
  <2>3. CASE RestoreCloud
    BY <2>3 DEF RestoreCloud, Abort, CloudState, RestoredCloud, FileInv, FileAt, FileMovedAt, Kept, Files, Commands, TypeOK, DiskTypeOK, Appinfo
  <2>4. CASE MvAppinfo
    BY <2>4 DEF MvAppinfo
  <2>5. CASE ListLaunchers
    BY <2>5 DEF ListLaunchers
  <2>6. CASE \E l \in Launchers : MoveLauncher(l)
    BY <2>6 DEF MoveLauncher
  <2>7. CASE MoveLaunchersEnd
    BY <2>7 DEF MoveLaunchersEnd
  <2>8. CASE MoveFile("config", "moveConfig", "moveState")
    BY <2>8 DEF MoveFile
  <2>9. CASE MoveFile("state", "moveState", "moveCloud")
    BY <2>9 DEF MoveFile
  <2>10. CASE MoveFile("cloud", "moveCloud", "disarm")
    BY <2>10 DEF MoveFile
  <2>11. CASE Disarm
    BY <2>11 DEF Disarm
  <2>12. CASE Rollback
    BY <2>12 DEF Rollback
  <2> QED
    BY <1>2, <2>1, <2>2, <2>3, <2>4, <2>5, <2>6, <2>7, <2>8, <2>9, <2>10, <2>11, <2>12
    DEF Script
<1>3. CASE Fail \/ Signal
  BY <1>3 DEF Fail, Signal, Abort
<1>4. CASE Crash
  BY <1>4 DEF Crash, Ended
<1>5. CASE Steam \/ UNCHANGED vars
  BY <1>5 DEF Steam, SteamStart, SteamStop, SteamRewrite
<1> QED  BY <1>1, <1>2, <1>3, <1>4, <1>5 DEF Next

\* The copy is edited before the disk, and a refusal comes before both.
LEMMA RefusalStep ==
  ASSUME TypeOK, AppinfoInv, RefusalInv, [Next]_vars
  PROVE  RefusalInv'
<1> USE DEF RefusalInv, Refusing, Commands,
     vars, diskVars, removeVars, movedVars, historyVars
<1>1. CASE Begin
  BY <1>1 DEF Begin, Snapshot
<1>2. CASE Script
  <2>1. CASE Copy
    BY <2>1 DEF Copy
  <2>2. CASE Restore
    BY <2>2 DEF Restore, Abort
  <2>3. CASE RestoreCloud
    BY <2>3 DEF RestoreCloud, Abort
  <2>4. CASE MvAppinfo
    BY <2>4 DEF MvAppinfo
  <2>5. CASE ListLaunchers
    BY <2>5 DEF ListLaunchers
  <2>6. CASE \E l \in Launchers : MoveLauncher(l)
    BY <2>6 DEF MoveLauncher
  <2>7. CASE MoveLaunchersEnd
    BY <2>7 DEF MoveLaunchersEnd
  <2>8. CASE MoveFile("config", "moveConfig", "moveState")
    BY <2>8 DEF MoveFile
  <2>9. CASE MoveFile("state", "moveState", "moveCloud")
    BY <2>9 DEF MoveFile
  <2>10. CASE MoveFile("cloud", "moveCloud", "disarm")
    BY <2>10 DEF MoveFile
  <2>11. CASE Disarm
    BY <2>11 DEF Disarm
  <2>12. CASE Rollback
    BY <2>12 DEF Rollback, AppinfoInv
  <2> QED  BY <1>2, <2>1, <2>2, <2>3, <2>4, <2>5, <2>6, <2>7, <2>8, <2>9,
    <2>10, <2>11, <2>12 DEF Script
<1>3. CASE Fail \/ Signal
  BY <1>3 DEF Fail, Signal, Abort
<1>4. CASE Crash
  BY <1>4 DEF Crash
<1>5. CASE Steam \/ UNCHANGED vars
  BY <1>5 DEF Steam, SteamStart, SteamStop, SteamRewrite
<1> QED  BY <1>1, <1>2, <1>3, <1>4, <1>5 DEF Next

\* The state file is the last thing a later remove needs.
LEMMA RetryStep ==
  ASSUME TypeOK, FileInv, RetryInv, [Next]_vars
  PROVE  RetryInv'
<1>k. pc \in Commands \ {"moveCloud", "disarm"} => Kept("state") /\ Kept("cloud")
  BY DEF FileInv, FileAt, FileMovedAt, Files, Commands
<1> USE <1>k DEF RetryInv, Kept, Commands,
     vars, diskVars, removeVars, movedVars, historyVars
<1>1. CASE Begin
  BY <1>1 DEF Begin, Snapshot
<1>2. CASE Script
  <2>1. CASE Copy
    BY <2>1 DEF Copy
  <2>2. CASE Restore
    BY <2>2 DEF Restore, Abort
  <2>3. CASE RestoreCloud
    BY <2>3 DEF RestoreCloud, Abort
  <2>4. CASE MvAppinfo
    BY <2>4 DEF MvAppinfo
  <2>5. CASE ListLaunchers
    BY <2>5 DEF ListLaunchers
  <2>6. CASE \E l \in Launchers : MoveLauncher(l)
    BY <2>6 DEF MoveLauncher
  <2>7. CASE MoveLaunchersEnd
    BY <2>7 DEF MoveLaunchersEnd
  <2>8. CASE MoveFile("config", "moveConfig", "moveState")
    BY <2>8 DEF MoveFile
  <2>9. CASE MoveFile("state", "moveState", "moveCloud")
    BY <2>9 DEF MoveFile
  <2>10. CASE MoveFile("cloud", "moveCloud", "disarm")
    BY <2>10 DEF MoveFile
  <2>11. CASE Disarm
    BY <2>11 DEF Disarm
  <2>12. CASE Rollback
    BY <2>12 DEF Rollback
  <2> QED  BY <1>2, <2>1, <2>2, <2>3, <2>4, <2>5, <2>6, <2>7, <2>8, <2>9,
    <2>10, <2>11, <2>12 DEF Script
<1>3. CASE Fail \/ Signal
  BY <1>3 DEF Fail, Signal, Abort
<1>4. CASE Crash
  BY <1>4 DEF Crash
<1>5. CASE Steam \/ UNCHANGED vars
  BY <1>5 DEF Steam, SteamStart, SteamStop, SteamRewrite
<1> QED  BY <1>1, <1>2, <1>3, <1>4, <1>5 DEF Next

LEMMA IInvInit == Init => IInv
<1> SUFFICES ASSUME Init PROVE IInv
  OBVIOUS
<1>1. PICK map \in InstalledMaps, cloud \in BOOLEAN, owned \in SUBSET Roots :
        (owned # {} => cloud) /\ InstalledDisk(map, cloud, owned)
  BY DEF Init
<1>2. 0 \in Run /\ 0 \in 0..MaxSteamWrites /\ 0 \in 0..MaxRemoves
  BY DiskAssumption, RemoveAssumption DEF Run
<1>3. AllNative \in Launch /\ NoAppinfo \in Appinfo /\ NoRecord \in Record
  BY DEF AllNative, NoAppinfo, NoRecord, Launch, Appinfo, Record
<1>4. map \in Launch
  BY DEF InstalledMaps, AllNative, Launch, Launchers
<1>5. 1 \in Run
  BY DiskAssumption, RemoveAssumption DEF Run
<1>6. DiskTypeOK
  BY <1>1, <1>2, <1>3, <1>4, <1>5
  DEF InstalledDisk, DiskTypeOK, Appinfo, Record
<1>7. TypeOK
  BY <1>2, <1>3, <1>6 DEF TypeOK, DiskTypeOK, Init, ScriptInit, Snapshot, Labels, Ended
<1>8. FileInv /\ LauncherInv /\ AppinfoInv
  BY DEF Init, ScriptInit, FileInv, FileAt, LauncherInv, LauncherAt, AppinfoInv,
         Commands, BeforeMove
<1>9. EntryInv /\ CloudInv
  BY DEF Init, ScriptInit, EntryInv, EntryAt, CloudInv, Replaced, LaunchersGone
<1>10. RefusalInv /\ RetryInv
  BY DEF Init, ScriptInit, RefusalInv, Refusing, RetryInv
<1> QED  BY <1>7, <1>8, <1>9, <1>10 DEF IInv

LEMMA IInvNext == IInv /\ [Next]_vars => IInv'
<1> SUFFICES ASSUME IInv, [Next]_vars PROVE IInv'
  OBVIOUS
<1>1. TypeOK'
  BY TypeNext DEF IInv
<1>2. FileInv' /\ LauncherInv' /\ EntryInv'
  BY FileStep, LauncherStep, EntryStep DEF IInv, FileInv, LauncherInv, EntryInv
<1>3. AppinfoInv' /\ CloudInv' /\ RefusalInv' /\ RetryInv'
  BY AppinfoStep, CloudStep, RefusalStep, RetryStep DEF IInv
<1> QED  BY <1>1, <1>2, <1>3 DEF IInv

LEMMA IInvHolds == Spec => []IInv
  BY IInvInit, IInvNext, PTL DEF Spec

--------------------------------------------------------------------------------
(* The theorems.                                                           *)

\* Nothing a remove finds is lost, whatever interrupts it.
THEOREM RemoveIsRecoverable == Spec => []RemoveLosesNothing
<1>1. IInv => RemoveLosesNothing
  BY DEF IInv, FileInv, FileAt, Kept, Moved, LauncherInv, LauncherAt, KeptL,
         MovedL, AppinfoInv, RemoveLosesNothing
<1> QED  BY <1>1, IInvHolds, PTL

\* A remove that fails leaves appinfo.vdf as it was.
THEOREM FailedRemoveKeepsRecord == Spec => []FailureKeepsRecord
<1>1. IInv => FailureKeepsRecord
  BY DEF IInv, AppinfoInv, FailureKeepsRecord
<1> QED  BY <1>1, IInvHolds, PTL

\* The disk and the positions of a remove keep their types.
THEOREM RemoveTyped == Spec => []TypeOK
<1>1. IInv => TypeOK
  BY DEF IInv
<1> QED  BY <1>1, IInvHolds, PTL

\* A remove that succeeds undoes the install.
THEOREM RemoveRestoresNative == Spec => []RemovedMeansNative
<1>1. ASSUME IInv, pc = "removed"
      PROVE  file = [f \in Files |-> 0]
  BY <1>1 DEF IInv, TypeOK, DiskTypeOK, FileInv, FileAt, Moved
<1>2. IInv => RemovedMeansNative
  BY <1>1 DEF IInv, EntryInv, EntryAt, CloudInv, OldRec, OldCloud, Replaced,
              LaunchersGone, RemovedMeansNative
<1> QED  BY <1>2, IInvHolds, PTL

\* A remove that refuses has changed nothing: neither the files and launchers
\* nor the record and the Cloud links.
THEOREM RefusedRemoveIsNoOp == Spec => []RefusalChangesNothing
<1>1. ASSUME IInv, pc = "rolledBack", stopAt \in {"restore", "restoreCloud"},
             ~steamWrote
      PROVE  Snapshot = pre
  <2>1. /\ pre.appinfo = appinfo /\ pre.file = file
        /\ pre.launcher = launcher /\ pre.links = links
    BY <1>1 DEF IInv, RefusalInv, Refusing
  <2>2. pre \in [appinfo : Appinfo, file : [Files -> Run],
                 launcher : [Launchers -> Run], links : SUBSET Roots]
    BY <1>1 DEF IInv, TypeOK
  <2> QED  BY <2>1, <2>2 DEF Snapshot
<1>2. IInv => RefusalChangesNothing
  BY <1>1 DEF RefusalChangesNothing
<1> QED  BY <1>2, IInvHolds, PTL

\* A remove that failed before the state file was moved can be run again.
THEOREM FailedRemoveCanBeRetried == Spec => []RetryAfterFailure
<1>1. ASSUME IInv, pc = "rolledBack", code # 0, ~steamWrote,
             stopAt \notin {"moveCloud", "disarm"}
      PROVE  /\ appinfo = pre.appinfo
             /\ file["state"] = pre.file["state"]
             /\ file["cloud"] = pre.file["cloud"]
  BY <1>1 DEF IInv, AppinfoInv, RetryInv, Kept
<1>2. IInv => RetryAfterFailure
  BY <1>1 DEF RetryAfterFailure, Removable
<1> QED  BY <1>2, IInvHolds, PTL
================================================================================
