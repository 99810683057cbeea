------------------------------- MODULE PrefixFiles -------------------------------
(***************************************************************************)
(* The Steam client files in a Wine prefix, and the two tools that replace *)
(* them: stage_forwarder and restore_forwarder of bin/ullage-runtime.py,   *)
(* which put Ullage's forwarder in place of one file and take it away      *)
(* again, and bin/ullage-steam-client.py, which puts the files of a        *)
(* Windows client there.  Nothing keeps two of them apart.                 *)
(***************************************************************************)
EXTENDS Naturals

CONSTANTS
  Procs,
  Files,     \* the files of the Windows client
  Shared,    \* steamclient64.dll, the file the forwarder replaces
  Builds,    \* the forwarders of the packages
  Versions,  \* the contents of the client's files
  Users,     \* regular files that somebody else put there
  Links,     \* symbolic links that somebody else put there
  Dangling,  \* those of the links that lead nowhere
  None,
  Names,     \* bound: names of the timestamped backups of a file
  MaxOps,    \* bound: runs of the tools
  MaxKills,  \* bound: runs that are killed
  MaxEdits   \* bound: what the user does

ASSUME PrefixAssumption ==
  /\ Shared \in Files
  /\ Dangling \subseteq Links
  /\ None \notin Builds \cup Versions \cup Users \cup Links
  /\ Builds \cap (Versions \cup Users \cup Links) = {}
  /\ Versions \cap (Users \cup Links) = {} /\ Users \cap Links = {}
  /\ MaxOps \in Nat /\ MaxKills \in Nat /\ MaxEdits \in Nat

Contents == Builds \cup Versions \cup Users \cup Links
Maybe == Contents \cup {None}
Originals == Users \cup Links

\* Path.exists follows a link.
Exists(c) == c \notin Dangling \cup {None}

VARIABLES
  file,     \* what is under the name of each file
  saved,    \* steamclient64.dll.ullage-original
  copies,   \* the timestamped backups of each file
  source,   \* the files of the client the user imports
  manifest, \* what the last import recorded
  job,
  had,      \* history variable: steamclient64.dll was there, not a link that
            \* leads nowhere, and nobody else took it away
  bare,     \* history variable: a forwarder came where there was nothing to save
  raced,    \* history variable: a run wrote after another had changed the files
  ops, kills, edits

fileVars == <<file, saved, copies, had, bare, raced>>
boundVars == <<ops, kills, edits>>
vars == <<fileVars, source, manifest, job, boundVars>>

\* build, moved, temp: the forwarder, whether the run has saved the original,
\* what a restore has moved out of the way; todo, file, name, rec: the files to
\* import, the one at hand, its backup, what the record says; late: history
\* variable, another run, the user or the source has changed something since.
Jobs ==
  [pc : {"idle", "look", "aside", "write", "putBack", "move", "restore",
         "undo", "import", "backUp", "replace"},
   build : Builds \cup {None}, moved : BOOLEAN, temp : Maybe,
   todo : SUBSET Files, file : Files, name : Names \cup {None},
   rec : [Files -> Versions \cup {None}], late : BOOLEAN]

NoJob == [pc |-> "idle", build |-> None, moved |-> FALSE, temp |-> None,
          todo |-> {}, file |-> Shared, name |-> None,
          rec |-> [f \in Files |-> None], late |-> FALSE]

TypeOK ==
  /\ file \in [Files -> Maybe] /\ saved \in Maybe
  /\ copies \in [Files -> [Names -> Maybe]]
  /\ source \in [Files -> Versions]
  /\ manifest \in [Files -> Versions \cup {None}]
  /\ job \in [Procs -> Jobs]
  /\ \A p \in Procs : job[p].moved => job[p].pc \in {"write", "putBack"}
  /\ \A p \in Procs : job[p].temp # None => job[p].pc \in {"restore", "undo"}

Init ==
  /\ file \in [Files -> Originals \cup {None}]
  /\ saved = None
  /\ copies = [f \in Files |-> [n \in Names |-> None]]
  /\ source \in [Files -> Versions]
  /\ manifest = [f \in Files |-> None]
  /\ job = [p \in Procs |-> NoJob]
  /\ had = Exists(file[Shared])
  /\ bare = FALSE /\ raced = FALSE
  /\ ops = 0 /\ kills = 0 /\ edits = 0

--------------------------------------------------------------------------------

At(p, here) == job[p].pc = here
Unchanged == UNCHANGED <<fileVars, source, manifest, boundVars>>
Goto(p, next) == job' = [job EXCEPT ![p].pc = next]
Ended(p) == job' = [job EXCEPT ![p] = NoJob]

\* Process p goes on as j and changes a file: whoever else is at work is late.
Changes(p, j) ==
  /\ job' = [q \in Procs |-> IF q = p THEN j
                             ELSE [job[q] EXCEPT !.late = @ \/ ~At(q, "idle")]]
  /\ raced' = (raced \/ job[p].late)
  /\ UNCHANGED <<source, manifest, boundVars>>

\* The CLI has seen that Steam is stopped, and the package is ready.
Begin(p, j) ==
  /\ At(p, "idle")
  /\ ops < MaxOps /\ ops' = ops + 1
  /\ job' = [job EXCEPT ![p] = j]
  /\ UNCHANGED <<fileVars, source, manifest, kills, edits>>

--------------------------------------------------------------------------------
(* stage_forwarder.                                                        *)

StageForwarder(p, b) == Begin(p, [NoJob EXCEPT !.pc = "look", !.build = b])

\* Mutant of StageLook: a file is saved whether or not one is saved already.
StageLookSavesAgain(p) ==
  /\ At(p, "look")
  /\ IF file[Shared] = job[p].build THEN Ended(p)
     ELSE Goto(p, IF file[Shared] # None THEN "aside" ELSE "write")
  /\ Unchanged

\* Nothing is done when the forwarder is there; a link is refused when a file
\* has been saved before; what is there is saved if nothing is.
StageLook(p) ==
  /\ At(p, "look")
  /\ IF \/ file[Shared] = job[p].build
        \/ saved # None /\ file[Shared] \in Links
     THEN Ended(p)
     ELSE Goto(p, IF file[Shared] # None /\ saved = None THEN "aside" ELSE "write")
  /\ Unchanged

MoveAside(p) ==
  /\ At(p, "aside")
  /\ file[Shared] # None
  /\ saved' = file[Shared]
  /\ file' = [file EXCEPT ![Shared] = None]
  /\ Changes(p, [job[p] EXCEPT !.pc = "write", !.moved = TRUE])
  /\ had' = (had /\ Exists(file[Shared]))
  /\ UNCHANGED <<copies, bare>>

\* The forwarder is copied to a temporary file, which gets the name.
StageWrite(p) ==
  /\ At(p, "write")
  /\ file' = [file EXCEPT ![Shared] = job[p].build]
  /\ had' = TRUE
  /\ bare' = (bare \/ saved = None)
  /\ Changes(p, NoJob)
  /\ UNCHANGED <<saved, copies>>

StageFails(p) ==
  /\ job[p].pc \in {"aside", "write"}
  /\ Goto(p, "putBack")
  /\ Unchanged

\* Mutant of PutBack: the original stays where it was moved.
PutBackNothing(p) == At(p, "putBack") /\ Ended(p) /\ Unchanged

\* The look and the rename are one step, and a put-back that fails itself is
\* there only as a Kill.
PutBack(p) ==
  /\ At(p, "putBack")
  /\ IF job[p].moved /\ file[Shared] = None /\ Exists(saved)
     THEN /\ file' = [file EXCEPT ![Shared] = saved]
          /\ saved' = None
          /\ Changes(p, NoJob)
          /\ UNCHANGED <<copies, had, bare>>
     ELSE Ended(p) /\ Unchanged

--------------------------------------------------------------------------------
(* restore_forwarder.                                                      *)

RestoreForwarder(p) ==
  /\ saved # None
  /\ Begin(p, [NoJob EXCEPT !.pc = IF file[Shared] # None THEN "move" ELSE "restore"])

MoveAway(p) ==
  /\ At(p, "move")
  /\ file[Shared] # None
  /\ file' = [file EXCEPT ![Shared] = None]
  /\ Changes(p, [job[p] EXCEPT !.pc = "restore", !.temp = file[Shared]])
  /\ had' = (had /\ Exists(file[Shared]))
  /\ UNCHANGED <<saved, copies, bare>>

\* What was moved out of the way is deleted then.
Restore(p) ==
  /\ At(p, "restore")
  /\ saved # None
  /\ file' = [file EXCEPT ![Shared] = saved]
  /\ saved' = None
  /\ had' = TRUE
  /\ Changes(p, NoJob)
  /\ UNCHANGED <<copies, bare>>

\* A rename fails, as it does when what it would move has gone.
RestoreFails(p) ==
  /\ job[p].pc \in {"move", "restore"}
  /\ Goto(p, "undo")
  /\ Unchanged

\* What was moved comes back, unless something is in its place; then it is
\* deleted.  This is one step; a rename that fails here, after which what was
\* moved is deleted all the same, is not told from a Kill: neither puts it back.
Undo(p) ==
  /\ At(p, "undo")
  /\ IF Exists(job[p].temp) /\ file[Shared] = None
     THEN /\ file' = [file EXCEPT ![Shared] = job[p].temp]
          /\ Changes(p, NoJob)
          /\ UNCHANGED <<saved, copies, had, bare>>
     ELSE Ended(p) /\ Unchanged

--------------------------------------------------------------------------------
(* bin/ullage-steam-client.py: stage.                                      *)

\* inspect_root: the contents of the files are recorded, of all of them at once.
Import(p) ==
  Begin(p, [NoJob EXCEPT !.pc = "import", !.todo = Files, !.rec = source])

\* Mutant of LookAtFile: a file that is there is left there.
LookAtFilePresent(p, f) ==
  /\ At(p, "import") /\ f \in job[p].todo
  /\ job' = [job EXCEPT ![p].todo = @ \ {f}, ![p].file = f,
                        ![p].pc = IF file[f] = None THEN "replace" ELSE "import"]
  /\ Unchanged

\* A link is refused, a file as recorded is left, any other is backed up under a
\* name that is not in use.
LookAtFile(p, f) ==
  LET next == [job[p] EXCEPT !.todo = @ \ {f}, !.file = f]
  IN /\ At(p, "import") /\ f \in job[p].todo
     /\ \/ file[f] \in Links /\ Ended(p)
        \/ file[f] = job[p].rec[f] /\ job' = [job EXCEPT ![p] = next]
        \/ file[f] = None /\ job' = [job EXCEPT ![p] = [next EXCEPT !.pc = "replace"]]
        \/ /\ file[f] \notin Links \cup {job[p].rec[f], None}
           /\ \E n \in Names :
                /\ copies[f][n] = None
                /\ job' = [job EXCEPT ![p] = [next EXCEPT !.pc = "backUp", !.name = n]]
     /\ Unchanged

\* Mutant of BackUp: the backup is only named.
BackUpNothing(p) ==
  /\ At(p, "backUp")
  /\ Goto(p, "replace")
  /\ Unchanged

BackUp(p) ==
  /\ At(p, "backUp")
  /\ file[job[p].file] # None
  /\ copies' = [copies EXCEPT ![job[p].file][job[p].name] = file[job[p].file]]
  /\ Changes(p, [job[p] EXCEPT !.pc = "replace"])
  /\ UNCHANGED <<file, saved, had, bare>>

\* The source is read again: it may have changed since it was recorded.
Replace(p) ==
  /\ At(p, "replace")
  /\ file' = [file EXCEPT ![job[p].file] = source[job[p].file]]
  /\ had' = (had \/ job[p].file = Shared)
  /\ Changes(p, [job[p] EXCEPT !.pc = "import"])
  /\ UNCHANGED <<saved, copies, bare>>

WriteManifest(p) ==
  /\ At(p, "import") /\ job[p].todo = {}
  /\ manifest' = job[p].rec
  /\ Ended(p)
  /\ UNCHANGED <<fileVars, source, boundVars>>

ImportFails(p) ==
  /\ job[p].pc \in {"import", "backUp", "replace"}
  /\ Ended(p)
  /\ Unchanged

--------------------------------------------------------------------------------

\* A run is killed: what a restore had moved stays under a name nobody looks at.
Kill(p) ==
  /\ ~At(p, "idle")
  /\ kills < MaxKills /\ kills' = kills + 1
  /\ Ended(p)
  /\ had' = Exists(file[Shared])
  /\ UNCHANGED <<file, saved, copies, bare, raced, source, manifest, ops, edits>>

Edit ==
  /\ edits < MaxEdits /\ edits' = edits + 1
  /\ job' = [p \in Procs |-> [job[p] EXCEPT !.late = @ \/ ~At(p, "idle")]]
  /\ UNCHANGED <<saved, copies, bare, raced, manifest, ops, kills>>

\* Somebody else, such as an installer run in the prefix, puts a file there or
\* deletes one.
UserPuts(f, c) ==
  /\ Edit
  /\ file' = [file EXCEPT ![f] = c]
  /\ had' = IF f = Shared THEN Exists(c) ELSE had
  /\ UNCHANGED source

SourceChanges(f, v) ==
  /\ Edit
  /\ source' = [source EXCEPT ![f] = v]
  /\ UNCHANGED <<file, had>>

Step(p) ==
  \/ \E b \in Builds : StageForwarder(p, b)
  \/ StageLook(p) \/ MoveAside(p) \/ StageWrite(p) \/ StageFails(p) \/ PutBack(p)
  \/ RestoreForwarder(p) \/ MoveAway(p) \/ Restore(p) \/ RestoreFails(p) \/ Undo(p)
  \/ Import(p) \/ BackUp(p) \/ Replace(p) \/ WriteManifest(p) \/ ImportFails(p)
  \/ \E f \in Files : LookAtFile(p, f)
  \/ Kill(p)

Next ==
  \/ \E p \in Procs : Step(p)
  \/ \E f \in Files, c \in Originals \cup {None} : UserPuts(f, c)
  \/ \E f \in Files, v \in Versions : SourceChanges(f, v)

Spec == Init /\ [][Next]_vars

--------------------------------------------------------------------------------
(* Properties.                                                             *)

\* c, once under the name f, can still be found in the prefix.
Held(f, c) ==
  \/ file[f] = c
  \/ f = Shared /\ (saved = c \/ \E p \in Procs : job[p].temp = c)
  \/ \E n \in Names : copies[f][n] = c

\* The ways to lose a file that is not the tools': a restore deletes what it
\* found in the forwarder's place, a forwarder is staged over a file that came
\* after another was saved, or a run did not see what has changed.
Loses(p, f, c) ==
  \/ f = Shared /\ job[p].temp = c
  \/ f = Shared /\ At(p, "write") /\ ~job[p].moved
  \/ job[p].late

\* What was in the prefix before stays there under some name, whatever is
\* staged, imported and restored and whatever fails, but for those ways.
OriginalsKept ==
  [][\A f \in Files, c \in Originals :
       Held(f, c) => Held(f, c)' \/ edits' # edits \/ \E p \in Procs : Loses(p, f, c)]_vars

\* What a restore would give back is not a forwarder, unless one was staged where
\* there was nothing to save, or two runs met.
SavedIsOriginal == saved \in Builds => bare \/ raced

\* However staging and restoring fail, they do not leave the prefix without the
\* file it had, however many of them run at once.
NeverLeftWithout ==
  had /\ (\A p \in Procs : At(p, "idle")) => file[Shared] # None

\* The manifest that an import writes describes what is in the prefix, unless
\* somebody changed the files or the source meanwhile.
ManifestIsTrue ==
  [][\A p \in Procs : WriteManifest(p) =>
       job[p].late \/ \A f \in Files : file[f] = manifest'[f]]_vars
================================================================================
