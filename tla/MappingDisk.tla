------------------------------ MODULE MappingDisk ------------------------------
(***************************************************************************)
(* What one game's launch mapping leaves on disk, and native Steam, which  *)
(* shares appcache/appinfo.vdf with it.  bin/ullage-install and            *)
(* bin/ullage-remove are the two programs that edit this disk; each is a   *)
(* module that extends this one.                                           *)
(*                                                                         *)
(* A file's content is the number of the install that wrote it; 0 is an    *)
(* absent file.  What a mapping record says (the launch.json and           *)
(* cloud.json of install g) is kept in recorded[g].                        *)
(***************************************************************************)
EXTENDS Naturals, FiniteSets

CONSTANTS
  Entries,        \* the launch options of the game's appinfo record
  Main,           \* the launcher APPID.sh
  Native,         \* a launch option that names the depot's own executable
  Roots,          \* the game's native Cloud roots, one symlink each
  MaxRuns,        \* bound: installs started
  MaxSteamWrites, \* bound: times Steam rewrites the record
  Faults          \* the faults of this run, a subset of FaultKinds

\* "fail": a command of the script fails.  "signal": HUP, INT or TERM reaches
\* the script.  "crash": the script or the machine stops without any handler.
FaultKinds == {"fail", "signal", "crash"}

\* APPID.sh, and one APPID-entry-N.sh for each entry N.
Launchers == Entries \cup {Main}

ASSUME DiskAssumption ==
  /\ Main \notin Entries
  /\ Native \notin Launchers
  /\ MaxRuns \in Nat
  /\ MaxSteamWrites \in Nat
  /\ Faults \subseteq FaultKinds

VARIABLES
  appinfo,     \* the game's record in appinfo.vdf: [launch, cloud]
  file,        \* APPID.conf, APPID.launch.json and APPID.cloud.json
  launcher,    \* the launcher scripts
  links,       \* the Cloud roots whose native symlink exists
  manifest,    \* APPID.steam-client.json
  recorded,    \* what the state files of each install say
  runs,        \* installs started so far
  steamRunning,
  steamWrites

diskVars ==
  <<appinfo, file, launcher, links, manifest, recorded, runs,
    steamRunning, steamWrites>>

Files == {"config", "state", "cloud"}
Run == 0..MaxRuns
Launch == [Entries -> Launchers \cup {Native}]

\* cloud is TRUE when the record holds the root overrides Ullage generated.
Appinfo == [launch : Launch, cloud : BOOLEAN]

\* map[e] is the launcher entry e was given (Native: the entry is not in the
\* record) and orig[e] the executable it replaced; cloudOrig is what the
\* override replaced and owned the links this install created.
Record ==
  [map : Launch, orig : Launch, cloudOrig : BOOLEAN, owned : SUBSET Roots]

AllNative == [e \in Entries |-> Native]

\* The record of a game Ullage has never touched, and of a copy not made yet.
NoAppinfo == [launch |-> AllNative, cloud |-> FALSE]

NoRecord ==
  [map |-> AllNative, orig |-> AllNative, cloudOrig |-> FALSE, owned |-> {}]

DiskTypeOK ==
  /\ appinfo \in Appinfo
  /\ file \in [Files -> Run]
  /\ launcher \in [Launchers -> Run]
  /\ links \subseteq Roots
  /\ manifest \in Run
  /\ recorded \in [Run -> Record]
  /\ runs \in Run
  /\ steamRunning \in BOOLEAN
  /\ steamWrites \in 0..MaxSteamWrites

\* A game that Steam has installed and Ullage has never touched.
DiskInit ==
  /\ appinfo = NoAppinfo
  /\ file = [f \in Files |-> 0]
  /\ launcher = [l \in Launchers |-> 0]
  /\ links = {}
  /\ manifest = 0
  /\ recorded = [g \in Run |-> NoRecord]
  /\ runs = 0
  /\ steamRunning = FALSE
  /\ steamWrites = 0

--------------------------------------------------------------------------------
(* The appinfo edits both scripts ask ullage-appinfo.py and                *)
(* ullage-cloud-native.py to make.                                         *)

\* restore_state refuses an entry that is neither what it was nor what the
\* install made it, and then changes nothing.
Restorable(rec, launch) ==
  \A e \in Entries :
    rec.map[e] # Native => launch[e] \in {rec.orig[e], rec.map[e]}

RestoredLaunch(rec, launch) ==
  [e \in Entries |-> IF rec.map[e] # Native THEN rec.orig[e] ELSE launch[e]]

\* restore of the Cloud mapping refuses unless every override is still the
\* generated one; it edits the record and then unlinks the links it owns.
CloudRestorable(info) == info.cloud

RestoredCloud(rec, info) == [info EXCEPT !.cloud = rec.cloudOrig]

--------------------------------------------------------------------------------
(* Native Steam.                                                           *)

\* A Steam that has used up its writes could only delay the scripts, so the
\* bound keeps it from starting again.
SteamStart ==
  /\ ~steamRunning
  /\ steamWrites < MaxSteamWrites
  /\ steamRunning' = TRUE
  /\ UNCHANGED <<appinfo, file, launcher, links, manifest, recorded, runs,
                 steamWrites>>

SteamStop ==
  /\ steamRunning
  /\ steamRunning' = FALSE
  /\ UNCHANGED <<appinfo, file, launcher, links, manifest, recorded, runs,
                 steamWrites>>

\* A metadata refresh puts the published values back, for some entries or all.
SteamRewrite ==
  /\ steamRunning
  /\ steamWrites < MaxSteamWrites
  /\ steamWrites' = steamWrites + 1
  /\ \E S \in SUBSET Entries, c \in BOOLEAN :
       appinfo' =
         [launch |-> [e \in Entries |-> IF e \in S THEN Native
                                                   ELSE appinfo.launch[e]],
          cloud |-> appinfo.cloud /\ c]
  /\ UNCHANGED <<file, launcher, links, manifest, recorded, runs, steamRunning>>
================================================================================
