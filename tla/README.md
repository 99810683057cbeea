# Ullage, modelled and checked

Ullage runs the Windows build of a Steam game under Wine on macOS: it edits the
game's record in native Steam's `appinfo.vdf` so that the Play button starts a
launcher of its own, and it supervises the Wine session that launcher begins.
This directory holds TLA+ models of that code, TLC configurations that check
them on small instances, and TLAPS proofs of the properties that matter most.

## 1. Inventory

| Component | Source | State it keeps | Operations | What is hard | Modules |
|---|---|---|---|---|---|
| Install transaction | `bin/ullage-install` | `appinfo.vdf`, config, launchers, `launch.json`, `cloud.json`, native Cloud links, backups, the rollback's shell variables | stage client, copy, restore the old mapping, patch, Cloud install, commit by renames, rollback | failure, signal or crash at each command; Steam editing the same file | `MappingDisk`, `InstallTxn` |
| Remove transaction | `bin/ullage-remove` | the same disk | copy, restore, Cloud restore, rename, move files away, rollback | the same, and being run again | `MappingDisk`, `RemoveTxn` |
| Game session | `bin/ullage-bridge` | child pids, `SIGNAL_RECEIVED`, watch offset, markers, receipt | launch, watch Steam, forward signals, drain, clean up, receipt | signals between any two commands, a watcher beside the shell, a launcher that ignores TERM | `BridgeSession` |
| Reaper | `bin/ullage-reap` | two lists of pids | list, stop wineserver, TERM, KILL | pid reuse, processes that start and end meanwhile | `WineProcesses`, `Reaper` |
| Appinfo editor | `bin/ullage-appinfo.py` | one record, one `launch.json` | patch, restore, disable, replace, status | refusing a record Steam changed; undoing exactly what was done | `LaunchMapping`, steps of the transactions |
| Native Cloud mapping | `bin/ullage-cloud-native.py` | root overrides, symlinks, `cloud.json`, seeded saves | seed, install, restore, status | ownership of links, undo after a partial install, the game writing beside it | `CloudRoots`, steps of the transactions |
| Cloud path resolver | `bin/ullage-cloud-path.py` | none | the folder of a root | a folder that leads out of its root | in `CloudRoots` |
| Mapping status and repair | `bin/ullage-mapping.py` | none of its own | inspect, repair | look-then-write against Steam, installs and removes | `LaunchMapping` |
| Runtime packages | `bin/ullage-runtime.py` | package directories, `current.json`, `history.json`, download cache | fetch, verify, install, rollback | no lock; a stop between the two pointer files; packages that change after they were verified | `RuntimePackages`, `PointerHistory`, `PackageRegistry` |
| Forwarder | `bin/ullage-runtime.py` | one file of the prefix and its `.ullage-original` | stage, restore | renames without a lock on a file that other tools replace as well | `PrefixFiles` |
| Host runtime | `bin/ullage-host-runtime.py` | host directories, archive cache, pointer and history | fetch, verify, install | archives verified and read again; two fetches of one version | `HostRuntime`, `PointerHistory`, `PackageRegistry` |
| Steam client staging | `bin/ullage-steam-client.py` | staged client files, timestamped backups, manifest | inspect, stage | partial imports; a source that changes; the forwarder's file | `PrefixFiles` |
| CLI facade | `bin/ullage` | prefix template, relocated depot | install, remove, repair, metadata, smoke, runtime | sequences of the tools above | the look at Steam, in `LaunchMapping` |
| Descriptor launcher, probes, build | `src/`, `tools/`, `Makefile` | none | | | not modelled: no state |

How they interact: the CLI runs the tools as processes and reads their exit
status and JSON. The install and remove scripts call the appinfo editor and the
Cloud tool on a *copy* of `appinfo.vdf` and then rename it over the original;
the Cloud tool also creates or removes symlinks on the real disk. Native Steam
reads and rewrites `appinfo.vdf` and writes the content log; nothing but the
scripts' one look at the process list keeps it apart from the transactions. The
launcher an install wrote starts the bridge, which starts Wine, a subshell that
watches Steam's log and process, `wineserver -w`, and finally the reaper.

The properties each component owes, which the modules state: a transaction
loses nothing it found and a rolled-back one leaves no trace; what is committed
agrees with itself and can be undone; a remove restores the native game or
refuses without a change; a session ends when it is asked to, leaves nothing of
its own behind, and its receipt tells the truth; the reaper
ends what it listed; an installed package stays as it is, the active one is installed, and a rollback finds the one before it; a
mapping can be undone exactly, and a repair heals it; links and saves that are
the user's stay the user's; no file of the prefix is lost.

## 2. Modules

**`MappingDisk`** is the disk that install, remove and Steam share. The content
of a file is the number of the install that wrote it, 0 when it is absent;
`recorded[g]` is what the state files of install `g` say. `appinfo` has the
launch entry of every option and whether the generated root override is there.

**`InstallTxn`** has one action per command of `ullage-install` that changes
the disk and, because a trap handler runs between two commands, one for each
assignment the rollback reads (`flagAppinfo` is `APPINFO_INSTALLED=1`, line
583, and so on). The rollback is nine actions, each repeating the order of
lines 368-414. `Fail` is `set -e` at a command, `Signal` the trap after a
command, `Crash` the loss of the process, possible in the rollback too.

**`RemoveTxn`** is the same for `ullage-remove`. It starts on the disks a
committed install leaves: `InstalledDisk` and `InstalledMaps`.

**`WineProcesses`** is the process table: each pid is free or holds a helper, a
game of the launch directory, a game elsewhere in the depot (`sibling`), a game
unpacked into the prefix, or something foreign. Processes end and pids are
reused at any time; a game may be started by the launcher, by another game or by
a helper. **`Reaper`** is `ullage-reap` over it: in its loops the look at a pid
(`Look`) is one step and the TERM or KILL that follows is another, so a signal
reaches whatever holds the pid by then. `same` follows what was listed.
**`BridgeSession`** extends `Reaper` with the bridge, its watcher and timer,
`wineserver -w` and Steam; bridge commands that a signal can tell apart are
separate actions. The look at what is left in the prefix (lines 780-814) is the
two `ps` (`LookAtCommands`, `ListSuspects`) and `lsof` of one pid after another
(`AskLsof`); `survivors` follows what was alive when the reaper returned.
`ReapByHand` is the reaper that somebody runs after a killed bridge.
`MCInstallTxn`, `MCRemoveTxn` and `MCBridgeSession` instantiate these modules
for TLC.

**`LaunchMapping`** is the record of one game, launch option by launch option:
the executable and the configuration that hides an option. Install and remove
are one step each here (the transactions have their inner steps); a repair is
seven, because it looks at the process list, at the mapping and at the record
before it writes, and Steam, an install or a remove may come between any two.
`tool` tells the three callers apart: `repair` and `reconcile` of the CLI, which
look at Steam first, and `ullage-mapping.py` by itself. `pub` is what Steam has
published; `fresh` the looks of a repair that nobody came after.

**`CloudRoots`** is the Cloud tool inside the two scripts. `overrides` is
`rootoverrides` of the record with its numbered keys, `link` what is at the
link of each root, `state` the `cloud.json`, `saves` the save in each folder.
Each root is mapped, and each link unlinked, in a step of its own, since
the tool can fail or be killed at any; the commit's steps are those of
`ullage-install` and `ullage-remove`. `made`, `users`, `leaked` and `torn` say
whose the links are and what was lost in the ways section 3 names.

**`RuntimePackages`** has several processes that use one state directory. A
build is a package's content, named by its manifest's digest; `pkg[v]` is the
build in the directory of version `v`, `current` and `history` are the two
pointer files, `cache[b]` is the archive of a release. Each read or rename of a
pointer file, the look at an installed package and the rename of a staged one
are separate actions; a process may stop between any two, which is also what an
`OSError` does. `Damage`, `Delete` and `SpoilCache` are changes from outside.
`recent` is a history variable: the builds that were current before.

**`HostRuntime`** does the same for the Wine and GPTK hosts: the loop over the
two archives, `archive[r][part]` being good or not, the extraction that reads
them again, the rename and the activation. A host is a release and the number of
its installation, since the manifest holds the time.

**`PackageRegistry`** is the abstract specification of both: packages are put
into empty directories and stay; the pointer is set to one that is where it
belongs. `RuntimePackages` and `HostRuntime` instantiate it with
`place <- pkg` (or `host`), `removed <- deleted`, `active <- current`.

**`PointerHistory`** is the list without one entry, which both tools put the
replaced pointer in front of (`_activate_package`, `_activate_host`).

**`PrefixFiles`** is what three tools do to the Windows client's files in one
prefix: `stage_forwarder`, `restore_forwarder` and the import of
`ullage-steam-client.py`, any number at once. `file` is what is under each name,
`saved` is `steamclient64.dll.ullage-original`, `copies` the timestamped
backups, `job[p].temp` what a restore has moved out of the way. Every look and
every rename is an action.

An operator with *Mutant of* in its comment is a plausible mistake in the
operator below it. Substituting it breaks the property that PROJECT.json pairs
it with; no specification uses it.

### Abstractions and their limits

* File content is the number of its install. Encodings (VDF, JSON, shell
  quoting) are left out.
* A command is atomic and fails before it has an effect. A `cp` that stops in
  the middle of `appinfo.vdf` in the rollback is not modelled.
* In the reaper the `ps` and `lsof` of one pid are one step, and so is each of its
  two listings. A reaper by hand is there only after a bridge that was killed,
  and processes are followed as long as a bridge or a reaper is at work or is
  still to come (`Processes`).
* In the bridge's look at what is left, the first `ps` may find any set of the
  processes by their command lines (none is the interesting one); of the second,
  Windows processes of other prefixes, which `lsof` passes over, are left out, and
  `lsof` is taken to be installed.
* TERM to the watching subshell takes effect at once. The bridge's own children
  keep their pids until the bridge has waited for them. That the pid of a killed
  bridge is given to another process, which would keep the subshell alive
  (line 615), is not modelled.
* Log offsets count lines; a line that is half written is not modelled.
* `SteamStopWatch` and `SessionWait`, the bridge's two options, are TRUE in
  every run: with either off there is less to go wrong.
* With one usable entry `ullage-install` asks for the first entry whose name
  matches (`--match`), which may be another of the same name; in `ChosenPlan` it
  is the usable one, and the other plans are those of `opt.entry`. In
  `LaunchMapping` a mapped option is a usable one; `--entry`, which hides nothing,
  is the case of a depot that can start every option.
* In `LaunchMapping` an install or remove is one step, and the depot's test of
  an option is a choice; in `CloudRoots` one transaction runs at a time, Steam
  is stopped meanwhile (the scripts look for it), one file of the remote cache
  is followed in a run, and hashes and patterns are left out.
* What a tar listing may hold, and the probing of an extracted host, are
  abstracted to accepted or refused.
* In `PrefixFiles` `os.replace` and `copy2` to a temporary file are one step
  when nothing can be seen between them. An import records the contents of its
  source files in one step.
* An error inside a handler is there only as a kill at that point: the Cloud
  tool's handler that fails to write `appinfo.vdf` or to unlink (`Unmap`), a
  put-back (`PutBack`) and the undo of a restore (`Undo`) whose rename fails. The
  disk is the one a kill leaves there, except that a failed `Undo` also deletes
  the temporary file, which nobody reads after a kill either.
* An archive of a runtime package is verified again and opened again in one step
  (`Extract`); what was extracted is verified against its manifest afterwards.
* A package's manifest and archive are abstracted to whether they verify;
  `current_package` reads the pointer and the package in one step.
* `wineserver -w` may end early, `-k` may end any of the session or nothing.
* Signals to the whole process group, a second bridge on the same prefix and
  two transactions at once are not modelled (section 7).

## 3. Runs

| Run | What it asks | Bounds |
|---|---|---|
| `install_fail` | after failures and Steam's own edits, does what is on disk fit together? | 2 entries, 1 root, 2 installs, 1 rewrite by Steam |
| `install_faults` | is anything lost, and is a rolled-back install exact? | the same with signals and crashes, no rewrite |
| `remove_faults` | is a remove recoverable, correct, and repeatable after a failure? | 2 entries, 2 roots, 2 removes, 2 rewrites, every fault |
| `session` | what is left behind, does the watcher cost a receipt, does the reaper end what it listed, does a clean receipt miss anything? | 2 pids of 5 kinds, 2 signals (TERM or KILL), no log, a reaper by hand after a killed bridge |
| `steam_stop` | does every request to stop end the session, and is the receipt true about Steam? | 1 pid, 1 signal (TERM or KILL), 2 log lines, 2 Steam clients |
| `runtime_packages` | are the packages a registry, does a rollback find the one before? | 2 processes, 3 builds in 2 versions, 4 operations, 1 fault from outside, a history of 2 |
| `host_runtime` | are the hosts a registry, with the pinned contents? | 2 processes, 2 releases with a directory each, 3 fetches, 2 faults, a history of 1 |
| `launch_mapping` | does an undo give Steam's record back, does a repair heal? | 2 launch options, 2 published values, 3 operations, 2 writes by Steam, 1 lost file |
| `native_cloud` | are overrides restored exactly, and links left to their owners? | 2 roots (prefix and depot), 2 prefixes, keys 0 to 3, 3 installs or removes, 1 kill, 2 edits |
| `prefix_files` | is a file of the prefix ever lost, or a forwarder taken for one? | 2 processes, 2 files, 2 forwarders, 2 versions, 1 file and 1 dangling link of the user's, 1 backup name, 3 runs, 1 kill, 1 edit |

Two installs are the smallest number with an install over an install, and a
third adds no state the second has not met: each run reads only the disk and
its own variables. Two entries and the main launcher give a plan of several
launchers and one with an entry left out. In `session` two pids of every kind let
a helper start a game and end, one pid be reused while the other is looked at, a
pid be in both of the reaper's lists, and a process outside the prefix take the
pid a signal was meant for; two signals let a second one meet the handling
of the first. Steam's part is in `steam_stop`, where one pid is enough for the
bridge's waits and the poll, and two Steam clients let the watched one be
replaced and its log be begun anew while a stop is unread.
Three builds in two versions let an install meet the directory of another
content of the same version; the cap of two on the history, sixteen in the code,
lets it overflow. `CHECK_DEADLOCK FALSE` is set because every one of these programs
ends.

Three operations in the new runs are an install, what follows it, and one that
races with either: a repair between an install and a remove, a restore between
two stagings, a reinstall to the other prefix and its remove. Two fetches of one
release and one of another are the smallest that meet both on one directory and
in the pointer files. Keys 0 to 3 leave room for two overrides of Steam's and
two generated ones. Every component has a type invariant; it is in the
runs of `InstallTxn`, `LaunchMapping` and `CloudRoots`, where it says more than
shapes or its theorem rests on it. In the others it is a theorem and no run's
property.

Symmetry (entries, roots, pids, processes, packages) is used in the safety runs
only. `session`, `native_cloud` and `prefix_files` have over a million states each and
take one to two minutes with two workers; `steam_stop`, with its liveness
properties, has 159,017 and takes as long.

### Disagreements

Two runs check a statement of the documentation and find it violated;
PROJECT.json quotes both sides.

* `install_signal_recovery`: a signal between the rename of `appinfo.vdf` and
  `APPINFO_INSTALLED=1` leaves a mapped record without launcher and state.
* `seed_overwrites`: `docs/native-saves.md:110-111` and the docstring of
  `seed_local_remote_cache` say that a file of the prefix is never overwritten
  by the seeding. A save that the game writes between the look at its name and
  the rename of the seeded copy is.

Two more were met and are in the model, without a run of their own:

* `ullage-bridge` says that it waits for the session "without ever deciding
  that the game child is disposable" (711-713) and stays alive "while a process
  from this depot is still present" (724-728). Its poll sees processes whose
  command line is in the depot. A game that was unpacked into the prefix (the case
  `ullage-reap` 197-201 is about), or that a helper starts after the poll, is
  torn down by `wineserver -k` without any signal.
* `ullage-reap` says that "another Wine prefix or the native Steam client is left
  alone" (14-16). It looks at a pid and signals it in two commands, and a process
  that gets the pid in between is signalled.

The safety properties name the exceptions of this kind (for instance
`RollbackRestoresFiles` leaves out the file whose rename had just ended), so
that they hold of the code as it is and say precisely where it stops being
exact. The limits of the code that the models have in them, and that no run
states:

* Transactions. An install rolled back by a signal exits with the status of its
  last command, usually 0. A remove that fails after its renames maps the record
  again, without a launcher, or without a state file; one that a signal
  interrupts after the rename cannot be repeated. "Steam must be fully stopped"
  (`docs/cli.md`) is one look at the process list, before the first copy. A
  failed install does not take back the Steam client files it staged.
* Session. A signal before the first `wait` arms no KILL timer (`WaitsUntimed`);
  a signal while no trap is set ends the bridge without a receipt. A stop that
  Steam logs right after the launch is before the offset and is skipped. The
  reaper looks at the working directory, not at the depot. A receipt that calls
  the prefix clean can be wrong about what started after the reaper had returned.
* Mapping. A healthy status says that the mapped options have their launchers,
  not that the unusable ones are hidden (`inspect_mapping` compares executables
  only). What Steam writes between a repair's copy and its
  `os.replace` is taken back; `overrun` names that case.
* Cloud. A restore leaves an empty `rootoverrides` where there was none, which
  the model does not tell from none. A reinstall that fails has already taken
  the old links away. An error after the state file got its name, an interrupt
  and a kill lose sight of links (`leaked`), and a kill between the two renames
  leaves overrides without a state file (`torn`).
* Packages. Two activations at once can lose an entry of the history, and the
  properties about the history leave that case out (`raced`). A host that is
  installed is made current without a comparison with the release asked for;
  an incomplete one is neither repaired nor replaced, and `installed` makes it
  current when it got damaged after the rename. No host rollback reads the history.
* Prefix. A file put in the forwarder's place after a first staging is
  overwritten without a backup; a forwarder staged where there was nothing can
  later be saved as the original (`bare`); a dangling link that was moved aside is
  not put back by a failure, because `Path.exists` follows it; a restore deletes what
  it found; a kill in it leaves a `.restore` file nobody reads; runs that meet
  can lose the original (`late`, `raced`).

## 4. Fairness

Only `steam_stop` needs it. `FairSpec` assumes weak fairness of what the
bridge itself runs (its shell, the subshell, the reaper), of the two-second
timer, and of a `wineserver -w` that was sent TERM: the operating system runs
them, and none of them waits for anything else. Nothing is assumed of the
launcher, the games, Steam or the user; a launcher may ignore TERM for ever.
`WaitsUntimed`, the wait that a signal came too early for, is an outcome the
properties about Steam's stop and end allow, since nothing ends it but the
launcher.

## 5. Proofs

`InstallTxnProofs`, `RemoveTxnProofs`, `LaunchMappingProofs`, `CloudRootsProofs`,
`RuntimePackagesProofs`, `HostRuntimeProofs`, `PrefixFilesProofs` and
`BridgeSessionProofs` (the session and the reaper) prove, for every set of
entries, roots, launch options, processes, packages, directories, prefixes and
pids, every bound and every combination of faults:

| Theorem | Property |
|---|---|
| `TypeCorrect` | `TypeOK` of the install |
| `InstallLosesNothing` | `NothingLost` |
| `RollbackIsExact` | `RollbackRestoresFiles` |
| `RollbackUndoesSteamEdits` | `RollbackRestoresSteam` |
| `MappedEntriesPlay` | `PlayFindsLauncher`, when commands fail and nothing stops the script |
| `MappedEntriesAreRemovable` | `MappingIsRemovable`, under the same condition |
| `RemoveTyped` | `TypeOK` of the remove, in no run |
| `RemoveIsRecoverable` | `RemoveLosesNothing` |
| `FailedRemoveKeepsRecord` | `FailureKeepsRecord` |
| `RemoveRestoresNative` | `RemovedMeansNative` |
| `RefusedRemoveIsNoOp` | `RefusalChangesNothing` |
| `FailedRemoveCanBeRetried` | `RetryAfterFailure` |
| `MappingTyped` | `TypeOK` of the launch mapping |
| `MappingUndone` | `UndoGivesPublished` |
| `RepairHealed` | `RepairHeals` |
| `RepairGuarded` | `RepairIsGuarded`, in no run |
| `CloudTypes` | `TypeOK` of the Cloud roots |
| `RestoreGivesBackSteams` | `RestoreIsExact` |
| `NoLinkIsForgotten` | `LinksAccounted` |
| `UsersLinksStay` | `UsersLinksKept` |
| `PointerIsInstalled` | `CurrentIsInstalled`, which the refinement implies |
| `PackagesImplementRegistry` | `PackagesAreARegistry` |
| `HistoryTellsThePast` | `HistoryIsRecent` |
| `RollbackFindsThePast` | `RollbackSwitches` |
| `RuntimeTyped` | `TypeOK` of the runtime packages, in no run |
| `HostsImplementRegistry` | `HostsAreARegistry` |
| `HostContentsPinned` | `ContentsArePinned` |
| `HostTypes` | `TypeOK` of the hosts, in no run |
| `OriginalIsSaved` | `SavedIsOriginal` |
| `PrefixKeepsItsFile` | `NeverLeftWithout` |
| `ManifestDescribes` | `ManifestIsTrue` |
| `FilesAreKept` | `OriginalsKept` |
| `PrefixTyped` | `TypeOK` of the prefix's files, in no run |
| `SessionReaperEndsListed` | `ListedAreGone`, for the bridge's reaper and one by hand |
| `SessionIsOrderly` | `NothingLeftBehind` |
| `WatcherIsHarmless` | `WatcherNeverKills` |
| `ReceiptTellsTheTruth` | `ReceiptIsTrue` |
| `CleanReceiptIsRight` | `SurvivorsAreReported` |
| `SessionTypes` | `TypeOK` of the session and the reaper, in no run |

They use the assumptions on the constants (`DiskAssumption` and the
other modules' own), which TLC evaluates in each run. None of the properties is inductive. The install's
invariant adds, for every label of the script, what the disk is by then in
terms of the disk at the start (`pre`) and of the flags that are set: before
the commit the disk is still `pre` except for links; in the commit a file is
`pre`'s, absent with its backup made, or this run's with its flag set or about
to be; in the rollback each undo that has been done has put `pre` back. The
proof has one step per action; labels and types are separate lemmas so that a
leaf sees only the conjuncts its action disturbs.

What an install leaves fits together only when commands fail and nothing stops
the script, which is the hypothesis of the two theorems (`Faults \subseteq
{"fail"}`); `install_signal_recovery` shows what a signal does. The invariant
follows three things from label to label: what the working copy holds
(`CopyInv`), which launchers and state files are in place (`PlaceInv`), and that
the disk fits together at the start and whenever no install runs (`DiskFits`).

For the remove, `RefusalInv` says that while it restores its copy, and when it
stopped there, files, launchers and links are still what they were, and
`RetryInv` that a rollback leaves the two state files where they were unless it
came in the last steps.

For the runtime pointer the strengthening is `WantedIsInstalled`: what a process
is about to make current is in its directory as well. It is stable because a
directory that is occupied keeps its package until somebody deletes it by hand
(`HeldIsKept`), which is why the check before the staging and the failing rename
matter. The same fact makes the packages, and the hosts, implement
`PackageRegistry`: the renames map to `Put`, the write of the pointer to `Point`,
a deletion to `DeleteByHand`, everything else to a stutter. The host's contents
rest on `late`: an archive that is bad when it is extracted was good when it was
verified, so somebody changed it while the job was `Pending`.

For the history the invariant `HistInv` compares it with the list of what was
current before (`recent`, a history variable): without the pointer's own build the
one is the beginning of the other (`ListsInv`), and what an activation has read
is still so while it writes (`InStep`), unless another one was at work
(`raced`). No build is twice in the list, so leaving one out makes the list one
shorter at most, and what the cap cuts is never needed for the rest to agree.
`Others`, the list without one build, is a recursive function. Its lemmas are
proved by the least counterexample among the lengths (`SeqSetInduction`,
from `WFMin`), since the library's induction theorems take operators.

For the Cloud roots the invariant has a part for each hazard. `TableInv`, for the
overrides: an undo with the record on the disk gives what Steam published
(`Exact`), and while a run is between the two renames one with the record in its
hands does; until a kill tears the two apart (`torn`). `LinkInv`: at each
position, the record that names every link that was made and not leaked.
`UserInv`: what a record calls the tool's is not where the user has put a link.
A generated key is above all others because a finite set of keys has a
greatest one, by a well-founded minimum again.

For the launch mapping the strengthening relates the record to `pub` with the
state as the difference: what is neither mapped nor hidden is as published, and
an original that the state holds is the published one wherever the record still
has the tool's value. A repair keeps it because `Expected` compares every mapped
entry with what was seen, and what it does not compare sets `overrun`.

For the files of a prefix the invariant says what a run's last look still means
(`Seen`): the place it will move to is free, what it will overwrite has a
backup. A run that somebody came after is `late` and counts on nothing, so a step
disturbs only the run that takes it. `Recoverable` adds that a missing file is in
the hands of a run that would put it back, and `Explained` how a forwarder can
come where one could be saved; the latter needs the look at `saved` before
the move.

For the reaper it says, loop by loop, that what still is what was listed is among
the pids left to look at or is the one that was looked at and is about to be
signalled (`Progress`). A pid can be in both lists: it held a helper, and a game
by the time the games were listed; it is then the second loop's (`Listed`). A
process that still is what was listed is never passed over by a look, because it
still has a kind the loop is about.

For the session, `Control` ties the bridge's position to what it has started:
past the wait the launcher has ended, past the timer's kill no timer is armed, and
a subshell that still watches is known by its pid, or about to be.

For a clean receipt, `Survivors` says that what has run ever since the reaper
returned is among the pids `lsof` has still to be asked about, as long as nothing
was found. The second `ps` lists all of it, however long after the first it
comes; a pid leaves the list only by being asked about, and a survivor that is
asked about is found.

For the receipt, `Truthful` says that what the subshell has not read of the log
was written in this session, even when Steam has begun the log anew (`Unread`),
and that Steam's instances are numbered, so that the one of the launch, once
gone, never comes back.

Model-checked only: the five liveness properties of `steam_stop`, which are out
of the prover's reach. Every other property of a passing run is a theorem. The
limits of the theorems are those of the properties: the exceptions that section
3 lists are in their statements.

## 6. Checking

`tlc -workers 2 -config MCInstallFail.cfg MCInstallTxn` and so on (PROJECT.json
lists every run); `tlapm InstallTxnProofs.tla` and
likewise for the other seven modules of section 5. Each run takes at most a
minute or two.

## 7. Plan

Done: the transactions, the reaper and the session; the launch mapping and its
repair; the Cloud roots; the runtime packages and hosts with their common
abstraction; the files of the prefix.

Every safety and action property of a passing run, and the type invariant of
every component, is proved.

## 8. Not modelled

* Install and remove scripts at once on one disk: nothing keeps them apart, and
  each has some thirty positions; the two models show what each assumes.
* A second session on one prefix: the bridge's run is at the limit of what TLC
  checks with one.
* The prefix made from a template, the relocated depot and the order in which
  `bin/ullage` calls the tools for an install: copies and symlinks
  made once, which no other component changes.
* VDF and JSON codecs, shell quoting, the discovery of games and libraries, text
  and JSON output: no state, and data the properties do not tell apart.
* The descriptor launcher, the probes, the build and the tests.
