------------------------------- MODULE CloudRoots -------------------------------
(***************************************************************************)
(* bin/ullage-cloud-native.py with bin/ullage-cloud-path.py: native Steam  *)
(* is made to watch the folders a Windows game saves to.  Each Cloud root  *)
(* of the game gets a rootoverride in Steam's record and a link, under the *)
(* folder the override names, to the root's folder in the Wine prefix; the *)
(* state file tells what was there before and which links are the tool's.  *)
(* ullage-install and ullage-remove run the tool on a copy of appinfo.vdf  *)
(* and commit the copy and the state file after it; they stop at the first *)
(* error, and can be killed at any step.                                   *)
(***************************************************************************)
EXTENDS Naturals, FiniteSetsExt

CONSTANTS
  Roots,      \* the game's Cloud roots
  Shared,     \* those in the game's depot: the same folder for every prefix
  Prefixes,
  MaxKey,     \* bound: the numbers of the overrides
  Own,        \* what Steam may publish: functions from 0..MaxKey to Values
  None,
  Other,      \* a file, or a link to anywhere else
  MaxOps,     \* bound: installs and removes
  MaxFaults,  \* bound: kills and interrupts
  MaxEdits    \* bound: what Steam, the game and the user do

Keys == 0..MaxKey
\* An override: the root and whether it is one for the tool's platform, as
\* Steam publishes it or as the tool generates it.
Values == [root : Roots, match : BOOLEAN, by : {"steam", "tool"}]
Tables == [Keys -> Values \cup {None}]

\* CLOUD_PATH.resolve: the folder of a root.
Target(r, p) == IF r \in Shared THEN <<r>> ELSE <<r, p>>
Targets == {Target(r, p) : r \in Roots, p \in Prefixes}

ASSUME CloudAssumption ==
  /\ Shared \subseteq Roots
  /\ MaxKey \in Nat /\ MaxOps \in Nat /\ MaxFaults \in Nat /\ MaxEdits \in Nat
  /\ None \notin Values
  /\ {None, Other} \cap Targets = {} /\ None # Other
  /\ \A t \in Own : t \in Tables /\ \A k \in Keys : t[k] # None => t[k].by = "steam"

VARIABLES
  overrides,  \* rootoverrides in appinfo.vdf
  link,       \* what is at the link of each root: a folder it leads to, or Other
  redirected, \* folders that Wine has linked to somewhere else
  saves,      \* the save in each folder: the game's own, or the Cloud's
  state,      \* the state file: what an install recorded
  job,        \* the run of ullage-install or ullage-remove
  published,  \* history variable: the overrides Steam published last
  made,       \* history variable: roots whose link the tool made
  users,      \* history variable: what the user put at each link
  leaked,     \* history variable: links the tool lost sight of in a kill, an
              \* interrupt or an error after the state file got its name
  torn,       \* history variable: a kill took the state file of a mapping
  ops, faults, edits

diskVars == <<overrides, link, redirected, saves, state>>
ghostVars == <<published, made, users, leaked, torn>>
boundVars == <<ops, faults, edits>>
vars == <<diskVars, job, ghostVars, boundVars>>

\* What is recorded of each root: the key and what it held, whether the link is
\* the tool's, where it leads.
Records ==
  [key : [Roots -> Keys], original : [Roots -> Values \cup {None}],
   owned : SUBSET Roots, target : [Roots -> Targets \cup {None}]]

ASSUME NoneIsNoRecord == None \notin Records

NoRecord ==
  [key |-> [r \in Roots |-> 0], original |-> [r \in Roots |-> None],
   owned |-> {}, target |-> [r \in Roots |-> None]]

NoJob == [pc |-> "idle", op |-> "install", prefix |-> None,
          copy |-> [k \in Keys |-> None], backup |-> [k \in Keys |-> None],
          todo |-> {}, rec |-> NoRecord, old |-> None]

TypeOK ==
  /\ overrides \in Tables /\ published \in Own
  /\ link \in [Roots -> Targets \cup {None, Other}]
  /\ users \in [Roots -> Targets \cup {None, Other}]
  /\ redirected \subseteq Targets
  /\ saves \in [Targets -> {"none", "game", "cloud"}]
  /\ state \in Records \cup {None}
  /\ state # None => \A r, s \in Roots : state.key[r] = state.key[s] => r = s
  /\ job.rec \in Records /\ job.old \in Records \cup {None}
  /\ job.todo \subseteq Roots
  /\ made \subseteq Roots /\ leaked \subseteq Roots

Init ==
  /\ published \in Own /\ overrides = published
  /\ link = [r \in Roots |-> None]
  /\ redirected = {}
  /\ saves = [t \in Targets |-> "none"]
  /\ state = None
  /\ job = NoJob
  /\ made = {} /\ leaked = {} /\ torn = FALSE
  /\ users = [r \in Roots |-> None]
  /\ ops = 0 /\ faults = 0 /\ edits = 0

--------------------------------------------------------------------------------

At(here) == job.pc = here
OnlyJob == UNCHANGED <<diskVars, ghostVars, boundVars>>
KeepsGhosts == UNCHANGED <<published, users, leaked, torn>>
Generated(r) == [root |-> r, match |-> TRUE, by |-> "tool"]

\* The links that the record says are the tool's, where they still lead to
\* their folders.
Standing(rec) == {r \in rec.owned : link[r] = rec.target[r]}
Accounted == IF state = None THEN {} ELSE Standing(state)
Unlinked(gone) == [r \in Roots |-> IF r \in gone THEN None ELSE link[r]]

\* ullage-install (which has made sure of --force, when there is a mapping) or
\* ullage-remove begins with a copy of appinfo.vdf.
Begin(op, p) ==
  /\ At("idle")
  /\ ops < MaxOps /\ ops' = ops + 1
  /\ op = "remove" => state # None
  /\ job' = [NoJob EXCEPT !.pc = IF state = None THEN "map" ELSE "undo", !.op = op,
               !.prefix = p, !.copy = overrides, !.backup = overrides,
               !.todo = Roots]
  /\ UNCHANGED <<diskVars, ghostVars, faults, edits>>

--------------------------------------------------------------------------------
(* restore: undo the mapping of the state file.                            *)

\* Mutant of Restorable: what is there now is not compared.
RestorableBlindly(rec, table) == \A r \in Roots : table[rec.key[r]] # None

\* Every override must still be the generated one.
Restorable(rec, table) == \A r \in Roots : table[rec.key[r]] = Generated(r)

Restored(rec, table) ==
  [k \in Keys |-> IF \E r \in Roots : rec.key[r] = k
                  THEN rec.original[CHOOSE r \in Roots : rec.key[r] = k]
                  ELSE table[k]]

UndoOverrides ==
  /\ At("undo")
  /\ job' = IF Restorable(state, job.copy)
            THEN [job EXCEPT !.pc = "unlink", !.copy = Restored(state, @),
                             !.todo = state.owned]
            ELSE NoJob
  /\ OnlyJob

\* A link goes only if it leads where it was made to lead.
UnlinkOld(r) ==
  /\ At("unlink") /\ r \in job.todo
  /\ job' = [job EXCEPT !.todo = @ \ {r}]
  /\ link' = Unlinked(Standing(state) \cap {r})
  /\ made' = made \ (Standing(state) \cap {r})
  /\ KeepsGhosts
  /\ UNCHANGED <<overrides, redirected, saves, state, boundVars>>

UnlinkEnd ==
  /\ At("unlink") /\ job.todo = {}
  /\ job' = IF job.op = "install" THEN [job EXCEPT !.pc = "map", !.todo = Roots]
            ELSE [job EXCEPT !.pc = "commit"]
  /\ OnlyJob

--------------------------------------------------------------------------------
(* install: the roots, one after the other.                                *)

UsedKeys(table) == {k \in Keys : table[k] # None}

NextKey(table) == IF UsedKeys(table) = {} THEN 0 ELSE Max(UsedKeys(table)) + 1

\* The overrides for this root and platform; the first of them is taken over.
Matching(r, table) ==
  {k \in UsedKeys(table) : table[k].root = r /\ table[k].match}

\* Mutant of KeyFor: the key is sought in the file, not in the table as edited.
KeyForInFile(r, table) ==
  IF Matching(r, overrides) = {} THEN NextKey(overrides) ELSE Min(Matching(r, overrides))

KeyFor(r, table) ==
  IF Matching(r, table) = {} THEN NextKey(table) ELSE Min(Matching(r, table))

\* Mutant of Owns: every link is the tool's.
OwnsAlways(r) == TRUE

\* The link is free, or leads to the folder already: then it is not the tool's.
Fits(r) == link[r] \in {None, Target(r, job.prefix)}
Owns(r) == link[r] = None

\* resolve refuses a folder that is itself a link to somewhere else.
Resolves(r) == Target(r, job.prefix) \notin redirected

\* What the state file will say of the root.
Recorded(r, key) ==
  [key |-> [job.rec.key EXCEPT ![r] = key],
   original |-> [job.rec.original EXCEPT ![r] = job.copy[key]],
   owned |-> IF Owns(r) THEN job.rec.owned \cup {r} ELSE job.rec.owned,
   target |-> [job.rec.target EXCEPT ![r] = Target(r, job.prefix)]]

MapRoot(r) ==
  LET key == KeyFor(r, job.copy)
  IN /\ At("map") /\ r \in job.todo
     /\ Resolves(r) /\ Fits(r) /\ key \in Keys
     /\ job' = [job EXCEPT !.todo = @ \ {r}, !.rec = Recorded(r, key),
                          !.copy = [@ EXCEPT ![key] = Generated(r)]]
     /\ link' = [link EXCEPT ![r] = IF @ = None THEN Target(r, job.prefix) ELSE @]
     /\ made' = IF link[r] = None THEN made \cup {r} ELSE made
     /\ KeepsGhosts
     /\ UNCHANGED <<overrides, redirected, saves, state, boundVars>>

\* An error, a refusal included, while a root is mapped, a save is seeded or the
\* state is written: the handler puts the copy of appinfo.vdf back and takes the
\* links of this install away.  An error of the handler's own, which leaves
\* links behind, is there only as a Kill.
InstallFails ==
  /\ job.pc \in {"map", "seed", "seedWrite"}
  /\ job' = [job EXCEPT !.pc = "unmap", !.todo = job.rec.owned]
  /\ OnlyJob

\* Mutant of Unmap: only the copy of appinfo.vdf is put back.
UnmapNothing == At("unmap") /\ job' = NoJob /\ OnlyJob

Unmap ==
  /\ At("unmap")
  /\ job' = NoJob
  /\ link' = Unlinked(job.rec.owned)
  /\ made' = made \ job.rec.owned
  /\ KeepsGhosts
  /\ UNCHANGED <<overrides, redirected, saves, state, boundVars>>

MapEnd ==
  /\ At("map") /\ job.todo = {}
  /\ job' = [job EXCEPT !.pc = "seed", !.todo = Roots]
  /\ OnlyJob

Folder(r) == job.rec.target[r]

\* seed_local_remote_cache: a file of Steam's local cache that verifies is
\* copied if there is none of that name.  One file of one root is followed; the
\* cache may lack it.
SeedLook(r) ==
  /\ At("seed") /\ r \in job.todo
  /\ saves[Folder(r)] = "none"
  /\ job' = [job EXCEPT !.pc = "seedWrite", !.todo = {r}]
  /\ OnlyJob

\* The copy is renamed to the save's name, whatever has come to be there since
\* the look.
SeedWrite(r) ==
  /\ At("seedWrite") /\ job.todo = {r}
  /\ job' = [job EXCEPT !.pc = "seed", !.todo = {}]
  /\ saves' = [saves EXCEPT ![Folder(r)] = "cloud"]
  /\ UNCHANGED <<overrides, link, redirected, state, ghostVars, boundVars>>

\* The state is written to the temporary file of ullage-install.
WriteState ==
  /\ At("seed")
  /\ job' = [job EXCEPT !.pc = "commit"]
  /\ OnlyJob

--------------------------------------------------------------------------------
(* ullage-install and ullage-remove.                                       *)

CommitAppinfo ==
  /\ At("commit")
  /\ overrides' = job.copy
  /\ job' = [job EXCEPT !.pc = "aside"]
  /\ UNCHANGED <<link, redirected, saves, state, ghostVars, boundVars>>

\* The old state file is moved aside; a remove is over.
MoveAside ==
  /\ At("aside")
  /\ state' = None
  /\ job' = IF job.op = "remove" THEN NoJob
            ELSE [job EXCEPT !.pc = "name", !.old = state]
  /\ UNCHANGED <<overrides, link, redirected, saves, ghostVars, boundVars>>

NameState ==
  /\ At("name")
  /\ state' = job.rec
  /\ job' = [job EXCEPT !.pc = "finish"]
  /\ UNCHANGED <<overrides, link, redirected, saves, ghostVars, boundVars>>

Finish ==
  /\ At("finish")
  /\ job' = NoJob
  /\ OnlyJob

\* An error of the script: the install's own links go, with its record, as long
\* as the record has not got its name; appinfo.vdf and the old state come back.
RollBack ==
  LET undone == IF job.op = "install" /\ ~At("finish") THEN Standing(job.rec) ELSE {}
  IN /\ job.pc \in {"commit", "aside", "name", "finish"}
     /\ job' = NoJob
     /\ link' = Unlinked(undone)
     /\ made' = made \ undone
     /\ overrides' = IF At("commit") THEN overrides ELSE job.backup
     /\ state' = IF job.pc \in {"name", "finish"} THEN job.old ELSE state
     /\ leaked' = IF At("finish") THEN leaked \cup job.rec.owned ELSE leaked
     /\ UNCHANGED <<redirected, saves, published, users, torn, boundVars>>

\* restore fails on a link, or ullage-install between the two.
UndoFails == At("unlink") /\ job' = NoJob /\ OnlyJob

\* The run is killed; or a signal ends the tool, whose handler is for errors.
Kill ==
  /\ ~At("idle")
  /\ faults < MaxFaults /\ faults' = faults + 1
  /\ job' = NoJob
  /\ leaked' = leaked \cup (made \ Accounted)
  /\ torn' = (torn \/ (job.op = "install" /\ job.pc \in {"aside", "name"} /\ state = None))
  /\ UNCHANGED <<diskVars, published, made, users, ops, edits>>

--------------------------------------------------------------------------------
(* Steam, which is stopped while a mapping is changed; the game; the user. *)

Edit == edits < MaxEdits /\ edits' = edits + 1 /\ UNCHANGED <<ops, faults>>

SteamWrites ==
  /\ At("idle") /\ Edit
  /\ published' \in Own
  /\ overrides' = published'
  /\ torn' = FALSE
  /\ UNCHANGED <<link, redirected, saves, state, job, made, users, leaked>>

GameSaves(r) ==
  /\ Edit
  /\ \E p \in Prefixes : saves' = [saves EXCEPT ![Target(r, p)] = "game"]
  /\ UNCHANGED <<overrides, link, redirected, state, job, ghostVars>>

\* A link that a record calls the tool's, put back as it was, is as good as it.
Claimed(r, to) == state # None /\ r \in state.owned /\ state.target[r] = to

UserLinks(r, to) ==
  /\ At("idle") /\ Edit
  /\ link' = [link EXCEPT ![r] = to]
  /\ users' = [users EXCEPT ![r] = IF Claimed(r, to) THEN None ELSE to]
  /\ made' = made \ {r}
  /\ UNCHANGED <<overrides, redirected, saves, state, job, published, leaked, torn>>

Redirect(t) ==
  /\ At("idle") /\ Edit
  /\ redirected' = redirected \cup {t}
  /\ UNCHANGED <<overrides, link, saves, state, job, ghostVars>>

Tool ==
  \/ UndoOverrides \/ UnlinkEnd \/ UndoFails
  \/ MapEnd \/ InstallFails \/ Unmap \/ WriteState
  \/ \E r \in Roots : UnlinkOld(r) \/ MapRoot(r) \/ SeedLook(r) \/ SeedWrite(r)

Script ==
  \/ \E op \in {"install", "remove"}, p \in Prefixes : Begin(op, p)
  \/ CommitAppinfo \/ MoveAside \/ NameState \/ Finish \/ RollBack \/ Kill

Others ==
  \/ SteamWrites
  \/ \E r \in Roots :
       \/ GameSaves(r)
       \/ \E p \in Prefixes : UserLinks(r, Target(r, p)) \/ Redirect(Target(r, p))
       \/ UserLinks(r, Other) \/ UserLinks(r, None)

Next == Tool \/ Script \/ Others

Spec == Init /\ [][Next]_vars

--------------------------------------------------------------------------------
(* Properties.                                                             *)

\* Between runs, whatever failed or was killed, Steam's overrides are its own
\* when there is no state file, and a state file that can be undone gives them
\* back; unless a kill took the state file of a mapping.
RestoreIsExact ==
  At("idle") /\ ~torn =>
    IF state = None THEN overrides = published
    ELSE Restorable(state, overrides) => Restored(state, overrides) = published

\* Between runs every link that the tool made is one that the state file calls
\* its own, so that a remove takes it away, or was lost in one of the ways named.
LinksAccounted ==
  At("idle") => made \subseteq leaked \cup Accounted

\* What the user put where a link goes stays, whatever is installed and removed.
UsersLinksKept == \A r \in Roots : users[r] # None => link[r] = users[r]

\* A save that the game has made is never overwritten by seeding: what
\* docs/native-saves.md and seed_local_remote_cache say of it.  It does not
\* hold: a save made between the look and the rename is overwritten.
GameSavesKept ==
  [][\A t \in Targets : saves[t] = "game" => saves'[t] = "game"]_vars
================================================================================
