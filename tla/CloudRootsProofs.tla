---------------------------- MODULE CloudRootsProofs ----------------------------
(***************************************************************************)
(* What the native Cloud mapping promises Steam and the user, for any      *)
(* roots, prefixes, overrides that Steam publishes and number of runs,     *)
(* kills and edits.  The argument follows the copy of appinfo.vdf through  *)
(* a run: under the keys of the roots mapped so far it holds what the tool *)
(* generated, elsewhere what Steam published (Follows), and the record     *)
(* tells what was under those keys (Originals).  So whatever table and     *)
(* state file a run, an error or a kill leaves together are Exact.         *)
(***************************************************************************)
EXTENDS CloudRoots, TLAPS, NaturalsInduction, WellFoundedInduction

Changing == {"map", "seed", "seedWrite", "commit", "aside", "name", "finish"}
Labels == Changing \cup {"idle", "undo", "unlink", "unmap"}

Jobs ==
  [pc : Labels, op : {"install", "remove"}, prefix : Prefixes \cup {None},
   copy : Tables, backup : Tables, todo : SUBSET Roots, rec : Records,
   old : Records \cup {None}]

Injective(s) == \A r, q \in Roots : s.key[r] = s.key[q] => r = q

\* What a run of each kind finds at the places it passes.
Placed ==
  /\ At("idle") => job = NoJob
  /\ ~At("idle") => job.prefix \in Prefixes
  /\ job.pc \in {"undo", "unlink"} => state # None
  /\ job.op = "remove" =>
       job.pc \in {"undo", "unlink", "commit", "aside"} /\ state # None
  /\ At("name") => state = None
  /\ At("finish") => state = job.rec

Typed ==
  /\ job \in Jobs
  /\ TypeOK
  /\ torn \in BOOLEAN
  /\ job.old # None => Injective(job.old)
  /\ Placed

--------------------------------------------------------------------------------

\* The roots that the run has mapped in its copy.
Mapped ==
  IF job.op = "remove" \/ job.pc \notin Changing THEN {}
  ELSE IF At("map") THEN Roots \ job.todo ELSE Roots

RecordMatches ==
  \A r \in Mapped :
    /\ job.copy[job.rec.key[r]] = Generated(r)
    /\ job.rec.target[r] = Target(r, job.prefix)

\* Undone, the mapping of the record s gives what Steam published.
Exact(s, table, steam) ==
  IF s = None THEN table = steam
  ELSE Restorable(s, table) => Restored(s, table) = steam

Originals(s, steam) == \A r \in Roots : s.original[r] = steam[s.key[r]]

\* Outside the mapped roots the copy is what Steam published.
Follows ==
  job.pc \in Changing \cup {"unlink"} =>
    /\ \A r \in Mapped : job.rec.original[r] = published[job.rec.key[r]]
    /\ \A k \in Keys :
         (\A r \in Mapped : job.rec.key[r] # k) => job.copy[k] = published[k]

\* The copies of a run are those of the disk, before the commit and after it.
Copying == {"undo", "unlink", "map", "seed", "seedWrite", "commit"}
CopiesOfDisk ==
  /\ job.pc \in Copying => job.backup = overrides
  /\ At("undo") => job.copy = overrides
  /\ job.pc \in {"aside", "name", "finish"} => overrides = job.copy

ExactNow ==
  /\ ~At("name") /\ (At("aside") => state # None) =>
       Exact(state, overrides, published)
  /\ At("aside") => Exact(state, job.backup, published)
  /\ job.pc \in {"name", "finish"} => Exact(job.old, job.backup, published)
  /\ job.pc \in Copying \ {"undo"} /\ state # None => Originals(state, published)

TableInv ==
  /\ RecordMatches /\ CopiesOfDisk
  /\ ~torn => Follows /\ ExactNow

--------------------------------------------------------------------------------

\* Where the links of the tool are written down while a run is under way.
LinkInv ==
  /\ job.pc \in {"idle", "undo"} => made \subseteq leaked \cup Accounted
  /\ At("unlink") => made \subseteq leaked \cup (Standing(state) \cap job.todo)
  /\ At("unmap") => made \subseteq leaked \cup job.rec.owned
  /\ job.pc \in Changing =>
       made \subseteq leaked \cup
         IF job.op = "remove" THEN {} ELSE Standing(job.rec)

\* A link that a record calls the tool's is not where the user put it.
Spared(s) == \A r \in s.owned : users[r] # None => users[r] # s.target[r]

UserInv ==
  /\ UsersLinksKept
  /\ state # None => Spared(state)
  /\ job.old # None => Spared(job.old)
  /\ \A r \in job.rec.owned : users[r] = None

--------------------------------------------------------------------------------
(* Folders, overrides, records.                                            *)

LEMMA TargetTyped == \A r \in Roots, p \in Prefixes : Target(r, p) \in Targets
  BY DEF Targets

LEMMA TargetOfRoot == \A r, p : Target(r, p)[1] = r
  BY DEF Target

LEMMA NoTarget == None \notin Targets /\ Other \notin Targets /\ None # Other
  BY CloudAssumption

LEMMA GeneratedTyped ==
  \A r \in Roots : Generated(r) \in Values /\ Generated(r) # None
                 /\ Generated(r).root = r /\ Generated(r).by = "tool"
  <1> TAKE r \in Roots
  <1>1. Generated(r) \in Values
    BY DEF Generated, Values
  <1> QED
    BY <1>1, CloudAssumption DEF Generated

\* What Steam publishes is never what the tool generates.
LEMMA OwnTables ==
  ASSUME NEW t \in Own
  PROVE  t \in Tables /\ \A k \in Keys, r \in Roots : t[k] # Generated(r)
  <1>1. t \in Tables /\ \A k \in Keys : t[k] # None => t[k].by = "steam"
    BY CloudAssumption
  <1>2. "steam" # "tool"
    OBVIOUS
  <1> QED
    BY <1>1, <1>2, GeneratedTyped

LEMMA NoRecordTyped == NoRecord \in Records
  <1>1. 0 \in Keys
    BY CloudAssumption DEF Keys
  <1> QED
    BY <1>1 DEF NoRecord, Records

LEMMA NoJobTyped == NoJob \in Jobs
  <1>1. [k \in Keys |-> None] \in Tables
    BY DEF Tables
  <1> QED
    BY <1>1, NoRecordTyped DEF NoJob, Jobs, Labels, Changing

\* What a restore makes of a table, when no two roots have a key in common.
LEMMA RestoredTable ==
  ASSUME NEW s \in Records, NEW t \in Tables, Injective(s)
  PROVE  /\ Restored(s, t) \in Tables
         /\ \A r \in Roots : Restored(s, t)[s.key[r]] = s.original[r]
         /\ \A k \in Keys :
              (\A r \in Roots : s.key[r] # k) => Restored(s, t)[k] = t[k]
  <1>1. s.key \in [Roots -> Keys] /\ s.original \in [Roots -> Values \cup {None}]
    BY DEF Records
  <1>2. t \in [Keys -> Values \cup {None}]
    BY DEF Tables
  <1>3. ASSUME NEW r \in Roots
        PROVE  (CHOOSE q \in Roots : s.key[q] = s.key[r]) = r
    BY DEF Injective
  <1>4. \A r \in Roots : Restored(s, t)[s.key[r]] = s.original[r]
    BY <1>1, <1>3 DEF Restored
  <1>5. \A k \in Keys :
          (\A r \in Roots : s.key[r] # k) => Restored(s, t)[k] = t[k]
    BY DEF Restored
  <1>6. ASSUME NEW k \in Keys
        PROVE  Restored(s, t)[k] \in Values \cup {None}
    <2>1. CASE \E r \in Roots : s.key[r] = k
      BY <2>1, <1>1, <1>4
    <2>2. CASE \A r \in Roots : s.key[r] # k
      BY <2>2, <1>2, <1>5
    <2> QED
      BY <2>1, <2>2
  <1>7. Restored(s, t) \in Tables
    BY <1>6 DEF Restored, Tables
  <1> QED
    BY <1>4, <1>5, <1>7

\* A record whose overrides a table holds gives each root a key of its own.
LEMMA RestorableInjective ==
  ASSUME NEW s \in Records, NEW t \in Tables, Restorable(s, t)
  PROVE  Injective(s)
  BY GeneratedTyped DEF Restorable, Injective

--------------------------------------------------------------------------------
(* Keys.                                                                   *)

\* A set of keys that is not empty has a least and a greatest element.
LEMMA KeysMin ==
  ASSUME NEW S, S \subseteq Keys, S # {}
  PROVE  Min(S) \in S
  <1>1. S \subseteq Nat
    BY CloudAssumption DEF Keys
  <1>2. IsWellFoundedOn(OpToRel(<, Nat), Nat)
    BY NatLessThanWellFounded
  <1>3. PICK x \in S : \A y \in S : <<y, x>> \notin OpToRel(<, Nat)
    BY <1>1, <1>2, WFMin
  <1>4. \A y \in S : x <= y
    <2> TAKE y \in S
    <2>1. ~(y < x)
      BY <1>1, <1>3 DEF OpToRel
    <2> QED
      BY <2>1, <1>1
  <1> QED
    BY <1>4 DEF Min

LEMMA KeysMax ==
  ASSUME NEW S, S \subseteq Keys, S # {}
  PROVE  Max(S) \in S /\ \A x \in S : x <= Max(S)
  <1> DEFINE T == {n \in Nat : MaxKey - n \in S}
  <1>1. S \subseteq Nat /\ MaxKey \in Nat /\ \A x \in S : x <= MaxKey
    BY CloudAssumption DEF Keys
  <1>2. ASSUME NEW x \in S
        PROVE  MaxKey - x \in T
    BY <1>1
  <1>3. T # {} /\ T \subseteq Nat
    BY <1>2
  <1>4. IsWellFoundedOn(OpToRel(<, Nat), Nat)
    BY NatLessThanWellFounded
  <1> HIDE DEF T
  <1>5. PICK m \in T : \A y \in T : <<y, m>> \notin OpToRel(<, Nat)
    BY <1>3, <1>4, WFMin
  <1>6. PICK x \in S : m = MaxKey - x
    <2>1. MaxKey - m \in S
      BY <1>5 DEF T
    <2> QED
      BY <2>1, <1>1, <1>3
  <1>7. ASSUME NEW y \in S
        PROVE  x >= y
    <2>1. MaxKey - y \in T
      BY <1>2
    <2>2. ~(MaxKey - y < m)
      BY <2>1, <1>3, <1>5 DEF OpToRel
    <2> QED
      BY <2>2, <1>1, <1>6
  <1>8. \E z \in S : \A y \in S : z >= y
    BY <1>7
  <1>9. Max(S) \in S /\ \A y \in S : Max(S) >= y
    BY <1>8 DEF Max
  <1> QED
    BY <1>1, <1>9

\* The key for a root is free, or is that of an override for this root.
LEMMA KeyIsFree ==
  ASSUME NEW r \in Roots, NEW t \in Tables, KeyFor(r, t) \in Keys
  PROVE  t[KeyFor(r, t)] = None \/ t[KeyFor(r, t)].root = r
  <1>1. UsedKeys(t) \subseteq Keys /\ UsedKeys(t) \subseteq Nat
    BY CloudAssumption DEF UsedKeys, Keys
  <1>2. CASE Matching(r, t) = {}
    <2>1. KeyFor(r, t) \notin UsedKeys(t)
      <3>1. CASE UsedKeys(t) = {}
        BY <3>1
      <3>2. CASE UsedKeys(t) # {}
        <4>1. Max(UsedKeys(t)) \in UsedKeys(t)
              /\ \A x \in UsedKeys(t) : x <= Max(UsedKeys(t))
          BY <3>2, <1>1, KeysMax
        <4>2. KeyFor(r, t) = Max(UsedKeys(t)) + 1
          BY <1>2, <3>2 DEF KeyFor, NextKey
        <4> QED
          BY <4>1, <4>2, <1>1
      <3> QED
        BY <3>1, <3>2
    <2> QED
      BY <2>1 DEF UsedKeys
  <1>3. CASE Matching(r, t) # {}
    <2>1. Matching(r, t) \subseteq Keys
      BY <1>1 DEF Matching
    <2>2. KeyFor(r, t) \in Matching(r, t)
      BY <2>1, <1>3, KeysMin DEF KeyFor
    <2> QED
      BY <2>2 DEF Matching
  <1> QED
    BY <1>2, <1>3

--------------------------------------------------------------------------------
(* Steps of a run.                                                         *)

\* The run j with the fields that its steps change.
Run(j, pc, copy, todo, rec, old) ==
  [pc |-> pc, op |-> j.op, prefix |-> j.prefix, copy |-> copy,
   backup |-> j.backup, todo |-> todo, rec |-> rec, old |-> old]

LEMMA JobEdit ==
  ASSUME NEW j \in Jobs, NEW x
  PROVE  /\ [j EXCEPT !.pc = x] = Run(j, x, j.copy, j.todo, j.rec, j.old)
         /\ [j EXCEPT !.todo = x] = Run(j, j.pc, j.copy, x, j.rec, j.old)
  BY DEF Jobs, Run

LEMMA PlaceAndTodo ==
  ASSUME NEW j \in Jobs, NEW l, NEW t
  PROVE  [j EXCEPT !.pc = l, !.todo = t] =
           Run(j, l, j.copy, t, j.rec, j.old)
  <1>1. j = Run(j, j.pc, j.copy, j.todo, j.rec, j.old)
    BY DEF Jobs, Run
  <1> DEFINE a1 == [j EXCEPT !.pc = l]
  <1>2. a1 = Run(j, l, j.copy, j.todo, j.rec, j.old)
    BY <1>1 DEF Run
  <1> HIDE DEF a1
  <1> DEFINE a2 == [a1 EXCEPT !.todo = t]
  <1>3. a2 = Run(j, l, j.copy, t, j.rec, j.old)
    BY <1>2 DEF Run
  <1> HIDE DEF a2
  <1> QED
    BY <1>3 DEF a1, a2

LEMMA PlaceAndOld ==
  ASSUME NEW j \in Jobs, NEW l, NEW x
  PROVE  [j EXCEPT !.pc = l, !.old = x] =
           Run(j, l, j.copy, j.todo, j.rec, x)
  <1>1. j = Run(j, j.pc, j.copy, j.todo, j.rec, j.old)
    BY DEF Jobs, Run
  <1> DEFINE a1 == [j EXCEPT !.pc = l]
  <1>2. a1 = Run(j, l, j.copy, j.todo, j.rec, j.old)
    BY <1>1 DEF Run
  <1> HIDE DEF a1
  <1> DEFINE a2 == [a1 EXCEPT !.old = x]
  <1>3. a2 = Run(j, l, j.copy, j.todo, j.rec, x)
    BY <1>2 DEF Run
  <1> HIDE DEF a2
  <1> QED
    BY <1>3 DEF a1, a2

LEMMA PlaceCopyTodo ==
  ASSUME NEW j \in Jobs, NEW l, NEW c, NEW t
  PROVE  [j EXCEPT !.pc = l, !.copy = c, !.todo = t] =
           Run(j, l, c, t, j.rec, j.old)
  <1>1. j = Run(j, j.pc, j.copy, j.todo, j.rec, j.old)
    BY DEF Jobs, Run
  <1> DEFINE a1 == [j EXCEPT !.pc = l]
  <1>2. a1 = Run(j, l, j.copy, j.todo, j.rec, j.old)
    BY <1>1 DEF Run
  <1> HIDE DEF a1
  <1> DEFINE a2 == [a1 EXCEPT !.copy = c]
  <1>3. a2 = Run(j, l, c, j.todo, j.rec, j.old)
    BY <1>2 DEF Run
  <1> HIDE DEF a2
  <1> DEFINE a3 == [a2 EXCEPT !.todo = t]
  <1>4. a3 = Run(j, l, c, t, j.rec, j.old)
    BY <1>3 DEF Run
  <1> HIDE DEF a3
  <1> QED
    BY <1>4 DEF a1, a2, a3

LEMMA TodoRecCopy ==
  ASSUME NEW j \in Jobs, NEW t, NEW x, NEW c
  PROVE  [j EXCEPT !.todo = t, !.rec = x, !.copy = c] =
           Run(j, j.pc, c, t, x, j.old)
  <1>1. j = Run(j, j.pc, j.copy, j.todo, j.rec, j.old)
    BY DEF Jobs, Run
  <1> DEFINE a1 == [j EXCEPT !.todo = t]
  <1>2. a1 = Run(j, j.pc, j.copy, t, j.rec, j.old)
    BY <1>1 DEF Run
  <1> HIDE DEF a1
  <1> DEFINE a2 == [a1 EXCEPT !.rec = x]
  <1>3. a2 = Run(j, j.pc, j.copy, t, x, j.old)
    BY <1>2 DEF Run
  <1> HIDE DEF a2
  <1> DEFINE a3 == [a2 EXCEPT !.copy = c]
  <1>4. a3 = Run(j, j.pc, c, t, x, j.old)
    BY <1>3 DEF Run
  <1> HIDE DEF a3
  <1> QED
    BY <1>4 DEF a1, a2, a3

\* A run that begins.
LEMMA FirstJob ==
  ASSUME NEW l, NEW op, NEW p
  PROVE  [NoJob EXCEPT !.pc = l, !.op = op, !.prefix = p, !.copy = overrides,
                   !.backup = overrides, !.todo = Roots] =
          [pc |-> l, op |-> op, prefix |-> p, copy |-> overrides, backup |-> overrides,
           todo |-> Roots, rec |-> NoJob.rec, old |-> NoJob.old]
  <1>0. NoJob = [pc |-> NoJob.pc, op |-> NoJob.op, prefix |-> NoJob.prefix, copy |-> NoJob.copy, backup |-> NoJob.backup,
             todo |-> NoJob.todo, rec |-> NoJob.rec, old |-> NoJob.old]
    BY NoJobTyped DEF Jobs
  <1> DEFINE a1 == [NoJob EXCEPT !.pc = l]
  <1>1. a1 = [pc |-> l, op |-> NoJob.op, prefix |-> NoJob.prefix, copy |-> NoJob.copy, backup |-> NoJob.backup,
              todo |-> NoJob.todo, rec |-> NoJob.rec, old |-> NoJob.old]
    BY <1>0
  <1> HIDE DEF a1
  <1> DEFINE a2 == [a1 EXCEPT !.op = op]
  <1>2. a2 = [pc |-> l, op |-> op, prefix |-> NoJob.prefix, copy |-> NoJob.copy, backup |-> NoJob.backup,
              todo |-> NoJob.todo, rec |-> NoJob.rec, old |-> NoJob.old]
    BY <1>1
  <1> HIDE DEF a2
  <1> DEFINE a3 == [a2 EXCEPT !.prefix = p]
  <1>3. a3 = [pc |-> l, op |-> op, prefix |-> p, copy |-> NoJob.copy, backup |-> NoJob.backup,
              todo |-> NoJob.todo, rec |-> NoJob.rec, old |-> NoJob.old]
    BY <1>2
  <1> HIDE DEF a3
  <1> DEFINE a4 == [a3 EXCEPT !.copy = overrides]
  <1>4. a4 = [pc |-> l, op |-> op, prefix |-> p, copy |-> overrides, backup |-> NoJob.backup,
              todo |-> NoJob.todo, rec |-> NoJob.rec, old |-> NoJob.old]
    BY <1>3
  <1> HIDE DEF a4
  <1> DEFINE a5 == [a4 EXCEPT !.backup = overrides]
  <1>5. a5 = [pc |-> l, op |-> op, prefix |-> p, copy |-> overrides, backup |-> overrides,
              todo |-> NoJob.todo, rec |-> NoJob.rec, old |-> NoJob.old]
    BY <1>4
  <1> HIDE DEF a5
  <1> DEFINE a6 == [a5 EXCEPT !.todo = Roots]
  <1>6. a6 = [pc |-> l, op |-> op, prefix |-> p, copy |-> overrides, backup |-> overrides,
              todo |-> Roots, rec |-> NoJob.rec, old |-> NoJob.old]
    BY <1>5
  <1> HIDE DEF a6
  <1> QED
    BY <1>6 DEF a1, a2, a3, a4, a5, a6

\* What each step makes of the run.
LEMMA JobSteps ==
  ASSUME job \in Jobs
  PROVE
    /\ UndoOverrides =>
         job' = IF Restorable(state, job.copy)
                THEN Run(job, "unlink", Restored(state, job.copy), state.owned,
                         job.rec, job.old)
                ELSE NoJob
    /\ \A r \in Roots : UnlinkOld(r) =>
         job' = Run(job, job.pc, job.copy, job.todo \ {r}, job.rec, job.old)
    /\ UnlinkEnd =>
         job' = IF job.op = "install"
                THEN Run(job, "map", job.copy, Roots, job.rec, job.old)
                ELSE Run(job, "commit", job.copy, job.todo, job.rec, job.old)
    /\ \A r \in Roots : MapRoot(r) =>
         job' = Run(job, job.pc,
                    [job.copy EXCEPT ![KeyFor(r, job.copy)] = Generated(r)],
                    job.todo \ {r}, Recorded(r, KeyFor(r, job.copy)), job.old)
    /\ InstallFails =>
         job' = Run(job, "unmap", job.copy, job.rec.owned, job.rec, job.old)
    /\ MapEnd => job' = Run(job, "seed", job.copy, Roots, job.rec, job.old)
    /\ \A r \in Roots : SeedLook(r) =>
         job' = Run(job, "seedWrite", job.copy, {r}, job.rec, job.old)
    /\ \A r \in Roots : SeedWrite(r) =>
         job' = Run(job, "seed", job.copy, {}, job.rec, job.old)
    /\ WriteState =>
         job' = Run(job, "commit", job.copy, job.todo, job.rec, job.old)
    /\ CommitAppinfo =>
         job' = Run(job, "aside", job.copy, job.todo, job.rec, job.old)
    /\ MoveAside =>
         job' = IF job.op = "remove" THEN NoJob
                ELSE Run(job, "name", job.copy, job.todo, job.rec, state)
    /\ NameState =>
         job' = Run(job, "finish", job.copy, job.todo, job.rec, job.old)
    /\ \A op, p : Begin(op, p) =>
         job' = [pc |-> IF state = None THEN "map" ELSE "undo", op |-> op,
                 prefix |-> p, copy |-> overrides, backup |-> overrides,
                 todo |-> Roots, rec |-> NoRecord, old |-> None]
  <1>1. UndoOverrides =>
         job' = IF Restorable(state, job.copy)
                THEN Run(job, "unlink", Restored(state, job.copy), state.owned,
                         job.rec, job.old)
                ELSE NoJob
    <2>1. [job EXCEPT !.pc = "unlink", !.copy = Restored(state, job.copy),
                       !.todo = state.owned] =
            Run(job, "unlink", Restored(state, job.copy), state.owned, job.rec, job.old)
      BY PlaceCopyTodo
    <2> QED
      BY <2>1 DEF UndoOverrides
  <1>2. \A r \in Roots : UnlinkOld(r) =>
         job' = Run(job, job.pc, job.copy, job.todo \ {r}, job.rec, job.old)
    BY JobEdit DEF UnlinkOld
  <1>3. UnlinkEnd =>
         job' = IF job.op = "install"
                THEN Run(job, "map", job.copy, Roots, job.rec, job.old)
                ELSE Run(job, "commit", job.copy, job.todo, job.rec, job.old)
    <2>1. [job EXCEPT !.pc = "map", !.todo = Roots] =
            Run(job, "map", job.copy, Roots, job.rec, job.old)
      BY PlaceAndTodo
    <2>2. [job EXCEPT !.pc = "commit"] =
            Run(job, "commit", job.copy, job.todo, job.rec, job.old)
      BY JobEdit
    <2> QED
      BY <2>1, <2>2 DEF UnlinkEnd
  <1>4. \A r \in Roots : MapRoot(r) =>
         job' = Run(job, job.pc,
                    [job.copy EXCEPT ![KeyFor(r, job.copy)] = Generated(r)],
                    job.todo \ {r}, Recorded(r, KeyFor(r, job.copy)), job.old)
    <2> TAKE r \in Roots
    <2> DEFINE key == KeyFor(r, job.copy)
    <2>1. [job EXCEPT !.todo = job.todo \ {r}, !.rec = Recorded(r, key),
                      !.copy = [job.copy EXCEPT ![key] = Generated(r)]] =
            Run(job, job.pc, [job.copy EXCEPT ![key] = Generated(r)],
                job.todo \ {r}, Recorded(r, key), job.old)
      BY TodoRecCopy
    <2> QED
      BY <2>1 DEF MapRoot
  <1>5. InstallFails =>
         job' = Run(job, "unmap", job.copy, job.rec.owned, job.rec, job.old)
    <2>1. [job EXCEPT !.pc = "unmap", !.todo = job.rec.owned] =
            Run(job, "unmap", job.copy, job.rec.owned, job.rec, job.old)
      BY PlaceAndTodo
    <2> QED
      BY <2>1 DEF InstallFails
  <1>6. MapEnd => job' = Run(job, "seed", job.copy, Roots, job.rec, job.old)
    <2>1. [job EXCEPT !.pc = "seed", !.todo = Roots] =
            Run(job, "seed", job.copy, Roots, job.rec, job.old)
      BY PlaceAndTodo
    <2> QED
      BY <2>1 DEF MapEnd
  <1>7. \A r \in Roots : SeedLook(r) =>
         job' = Run(job, "seedWrite", job.copy, {r}, job.rec, job.old)
    <2> TAKE r \in Roots
    <2>1. [job EXCEPT !.pc = "seedWrite", !.todo = {r}] =
            Run(job, "seedWrite", job.copy, {r}, job.rec, job.old)
      BY PlaceAndTodo
    <2> QED
      BY <2>1 DEF SeedLook
  <1>8. \A r \in Roots : SeedWrite(r) =>
         job' = Run(job, "seed", job.copy, {}, job.rec, job.old)
    <2>1. [job EXCEPT !.pc = "seed", !.todo = {}] =
            Run(job, "seed", job.copy, {}, job.rec, job.old)
      BY PlaceAndTodo
    <2> QED
      BY <2>1 DEF SeedWrite
  <1>9. WriteState =>
         job' = Run(job, "commit", job.copy, job.todo, job.rec, job.old)
    BY JobEdit DEF WriteState
  <1>10. CommitAppinfo =>
         job' = Run(job, "aside", job.copy, job.todo, job.rec, job.old)
    BY JobEdit DEF CommitAppinfo
  <1>11. MoveAside =>
         job' = IF job.op = "remove" THEN NoJob
                ELSE Run(job, "name", job.copy, job.todo, job.rec, state)
    <2>1. [job EXCEPT !.pc = "name", !.old = state] =
            Run(job, "name", job.copy, job.todo, job.rec, state)
      BY PlaceAndOld
    <2> QED
      BY <2>1 DEF MoveAside
  <1>12. NameState =>
         job' = Run(job, "finish", job.copy, job.todo, job.rec, job.old)
    BY JobEdit DEF NameState
  <1>13. \A op, p : Begin(op, p) =>
         job' = [pc |-> IF state = None THEN "map" ELSE "undo", op |-> op,
                 prefix |-> p, copy |-> overrides, backup |-> overrides,
                 todo |-> Roots, rec |-> NoRecord, old |-> None]
    <2> TAKE op, p
    <2> DEFINE l == IF state = None THEN "map" ELSE "undo"
    <2> HIDE DEF l
    <2>1. [NoJob EXCEPT !.pc = l, !.op = op, !.prefix = p, !.copy = overrides,
                        !.backup = overrides, !.todo = Roots] =
            [pc |-> l, op |-> op, prefix |-> p, copy |-> overrides,
             backup |-> overrides, todo |-> Roots, rec |-> NoJob.rec,
             old |-> NoJob.old]
      BY FirstJob
    <2>2. NoJob.rec = NoRecord /\ NoJob.old = None
      BY DEF NoJob
    <2> QED
      BY <2>1, <2>2 DEF Begin, l
  <1> QED
    BY <1>1, <1>2, <1>3, <1>4, <1>5, <1>6, <1>7, <1>8, <1>9, <1>10, <1>11,
       <1>12, <1>13

--------------------------------------------------------------------------------
(* Types.                                                                  *)

\* A look at the folder of a save changes the run's place and no more.
LEMMA SeedLookJob ==
  ASSUME job \in Jobs, NEW r \in Roots, SeedLook(r)
  PROVE  /\ job' \in Jobs /\ job'.pc = "seedWrite" /\ job'.todo = {r}
         /\ job'.op = job.op /\ job'.prefix = job.prefix /\ job'.copy = job.copy
         /\ job'.backup = job.backup /\ job'.rec = job.rec /\ job'.old = job.old
  <1>1. job' = Run(job, "seedWrite", job.copy, {r}, job.rec, job.old)
    BY JobSteps
  <1>2. "seedWrite" \in Labels /\ {r} \in SUBSET Roots
    BY DEF Labels, Changing
  <1> QED
    BY <1>1, <1>2 DEF Jobs, Run

LEMMA NoJobPlaced ==
  ASSUME job' = NoJob
  PROVE  job' \in Jobs /\ Placed' /\ job'.old = None
  BY NoJobTyped DEF NoJob, Placed, At

\* A step that changes the run, and the disk and its history within their types.
LEMMA TypedFrom ==
  ASSUME Typed, job' \in Jobs, Placed', torn' \in BOOLEAN,
         job'.old = None \/ job'.old = job.old \/ job'.old = state,
         overrides' \in Tables, published' \in Own,
         link' \in [Roots -> Targets \cup {None, Other}],
         users' \in [Roots -> Targets \cup {None, Other}],
         redirected' \subseteq Targets,
         saves' \in [Targets -> {"none", "game", "cloud"}],
         state' \in Records \cup {None},
         state' # None => Injective(state)',
         made' \subseteq Roots, leaked' \subseteq Roots
  PROVE  Typed'
  <1>1. job'.rec \in Records /\ job'.old \in Records \cup {None} /\ job'.todo \subseteq Roots
    BY DEF Jobs
  <1>2. job'.old # None => Injective(job'.old)
    BY DEF Typed, TypeOK, Injective
  <1>3. TypeOK'
    BY <1>1 DEF TypeOK, Injective
  <1> QED
    BY <1>2, <1>3 DEF Typed, Injective

LEMMA TypedParts ==
  ASSUME Typed
  PROVE  /\ overrides \in Tables /\ published \in Own
         /\ link \in [Roots -> Targets \cup {None, Other}]
         /\ users \in [Roots -> Targets \cup {None, Other}]
         /\ redirected \subseteq Targets
         /\ saves \in [Targets -> {"none", "game", "cloud"}]
         /\ state \in Records \cup {None}
         /\ state # None => state \in Records /\ Injective(state)
         /\ made \subseteq Roots /\ leaked \subseteq Roots
         /\ torn \in BOOLEAN
         /\ job \in Jobs /\ Placed
         /\ job.rec \in Records /\ job.old \in Records \cup {None}
         /\ job.copy \in Tables /\ job.backup \in Tables
         /\ job.rec.owned \subseteq Roots /\ job.todo \subseteq Roots
         /\ job.op \in {"install", "remove"} /\ job.pc \in Labels
  BY DEF Typed, TypeOK, Injective, Jobs, Records

LEMMA OnlyJobTyped ==
  ASSUME Typed, UNCHANGED <<overrides, link, redirected, state, saves, published, users>>,
         job' \in Jobs, Placed', torn' \in BOOLEAN,
         job'.old = None \/ job'.old = job.old \/ job'.old = state,
         made' \subseteq Roots, leaked' \subseteq Roots
  PROVE  Typed'
  BY TypedParts, TypedFrom DEF Injective

LEMMA UnlinkedTyped ==
  ASSUME Typed, NEW gone
  PROVE  Unlinked(gone) \in [Roots -> Targets \cup {None, Other}]
  BY TypedParts DEF Unlinked

LEMMA TypedInit == Init => Typed
  <1> SUFFICES ASSUME Init PROVE Typed
    OBVIOUS
  <1>1. job \in Jobs /\ job.old = None
    BY NoJobTyped DEF Init, NoJob
  <1>2. overrides \in Tables /\ published \in Own
    BY OwnTables DEF Init
  <1>3. job.rec \in Records /\ job.old \in Records \cup {None} /\ job.todo \subseteq Roots
    BY <1>1 DEF Jobs
  <1>4. TypeOK
    BY <1>2, <1>3 DEF Init, TypeOK
  <1>5. Placed
    BY DEF Init, Placed, NoJob, At
  <1> QED
    BY <1>1, <1>4, <1>5 DEF Typed, Init

\* The roots of a record that matches the copy have different keys.
LEMMA MappedInjective ==
  ASSUME Typed, RecordMatches, Mapped = Roots
  PROVE  Injective(job.rec)
  BY TypedParts, GeneratedTyped DEF RecordMatches, Injective

LEMMA RecordedTyped ==
  ASSUME Typed, NEW r \in Roots, NEW key \in Keys, job.prefix \in Prefixes
  PROVE  Recorded(r, key) \in Records
  <1>1. Target(r, job.prefix) \in Targets
    BY TargetTyped
  <1>2. /\ job.rec.key \in [Roots -> Keys]
        /\ job.rec.original \in [Roots -> Values \cup {None}]
        /\ job.rec.owned \subseteq Roots
        /\ job.rec.target \in [Roots -> Targets \cup {None}]
        /\ job.copy[key] \in Values \cup {None}
    BY TypedParts DEF Records, Tables
  <1> QED
    BY <1>1, <1>2 DEF Recorded, Records

LEMMA TypedTool == ASSUME Typed, Tool PROVE Typed'
  <1>1. CASE UndoOverrides
    <2>1. CASE job' = NoJob
      BY <1>1, <2>1, NoJobPlaced, TypedParts, OnlyJobTyped
      DEF UndoOverrides, OnlyJob, diskVars, ghostVars
    <2>2. CASE job' # NoJob
      <3>1. state # None /\ state \in Records /\ Injective(state) /\ At("undo")
        BY <1>1, TypedParts DEF UndoOverrides, Placed, At
      <3>2. state.owned \subseteq Roots /\ Restored(state, job.copy) \in Tables
        BY <3>1, RestoredTable, TypedParts DEF Records
      <3>3. job' = Run(job, "unlink", Restored(state, job.copy), state.owned,
                       job.rec, job.old)
        BY <1>1, <2>2, JobSteps, TypedParts
      <3>4. job' \in Jobs /\ job'.old = job.old /\ job'.pc = "unlink"
            /\ job'.op = job.op /\ job'.prefix = job.prefix
        BY <3>2, <3>3, TypedParts DEF Jobs, Run, Labels
      <3>5. Placed'
        BY <1>1, <3>1, <3>4, TypedParts DEF UndoOverrides, OnlyJob, diskVars, Placed, At
      <3> QED
        BY <1>1, <3>4, <3>5, TypedParts, OnlyJobTyped
        DEF UndoOverrides, OnlyJob, diskVars, ghostVars
    <2> QED
      BY <2>1, <2>2
  <1>2. CASE UnlinkEnd
    <2>1. job' \in Jobs /\ job'.old = job.old /\ job'.op = job.op /\ job'.prefix = job.prefix
          /\ job'.pc = IF job.op = "install" THEN "map" ELSE "commit"
      BY <1>2, JobSteps, TypedParts DEF Jobs, Run, Labels, Changing
    <2>2. Placed'
      BY <1>2, <2>1, TypedParts DEF UnlinkEnd, OnlyJob, diskVars, Placed, At
    <2> QED
      BY <1>2, <2>1, <2>2, TypedParts, OnlyJobTyped DEF UnlinkEnd, OnlyJob, diskVars, ghostVars
  <1>3. CASE UndoFails
    BY <1>3, NoJobPlaced, TypedParts, OnlyJobTyped DEF UndoFails, OnlyJob, diskVars, ghostVars
  <1>4. CASE MapEnd
    <2>1. job' \in Jobs /\ job'.old = job.old /\ job'.op = job.op /\ job'.prefix = job.prefix
          /\ job'.pc = "seed"
      BY <1>4, JobSteps, TypedParts DEF Jobs, Run, Labels, Changing
    <2>2. Placed'
      BY <1>4, <2>1, TypedParts DEF MapEnd, OnlyJob, diskVars, Placed, At
    <2> QED
      BY <1>4, <2>1, <2>2, TypedParts, OnlyJobTyped DEF MapEnd, OnlyJob, diskVars, ghostVars
  <1>5. CASE InstallFails
    <2>1. job' \in Jobs /\ job'.old = job.old /\ job'.op = job.op /\ job'.prefix = job.prefix
          /\ job'.pc = "unmap"
      BY <1>5, JobSteps, TypedParts DEF Jobs, Run, Labels, Changing
    <2>2. Placed'
      BY <1>5, <2>1, TypedParts DEF InstallFails, OnlyJob, diskVars, Placed, At
    <2> QED
      BY <1>5, <2>1, <2>2, TypedParts, OnlyJobTyped
      DEF InstallFails, OnlyJob, diskVars, ghostVars
  <1>6. CASE Unmap
    <2>1. job' \in Jobs /\ job'.old = None /\ Placed'
      BY <1>6, NoJobPlaced DEF Unmap
    <2> QED
      BY <1>6, <2>1, TypedParts, UnlinkedTyped, TypedFrom DEF Unmap, KeepsGhosts, Injective
  <1>7. CASE WriteState
    <2>1. job' \in Jobs /\ job'.old = job.old /\ job'.op = job.op /\ job'.prefix = job.prefix
          /\ job'.pc = "commit"
      BY <1>7, JobSteps, TypedParts DEF Jobs, Run, Labels, Changing
    <2>2. Placed'
      BY <1>7, <2>1, TypedParts DEF WriteState, OnlyJob, diskVars, Placed, At
    <2> QED
      BY <1>7, <2>1, <2>2, TypedParts, OnlyJobTyped
      DEF WriteState, OnlyJob, diskVars, ghostVars
  <1>8. ASSUME NEW r \in Roots, UnlinkOld(r) PROVE Typed'
    <2>1. job' \in Jobs /\ job'.old = job.old /\ job'.op = job.op /\ job'.prefix = job.prefix
          /\ job'.pc = "unlink" /\ job'.rec = job.rec
      BY <1>8, JobSteps, TypedParts DEF UnlinkOld, At, Jobs, Run
    <2>2. Placed'
      BY <1>8, <2>1, TypedParts DEF UnlinkOld, Placed, At
    <2> QED
      BY <1>8, <2>1, <2>2, TypedParts, UnlinkedTyped, TypedFrom
      DEF UnlinkOld, KeepsGhosts, Injective
  <1>9. ASSUME NEW r \in Roots, MapRoot(r) PROVE Typed'
    <2> DEFINE key == KeyFor(r, job.copy)
    <2>1. key \in Keys /\ At("map") /\ job.prefix \in Prefixes
      BY <1>9, TypedParts DEF MapRoot, Placed, At
    <2>2. Recorded(r, key) \in Records
      BY <2>1, RecordedTyped
    <2>3. [job.copy EXCEPT ![key] = Generated(r)] \in Tables
      BY <2>1, TypedParts, GeneratedTyped DEF Tables
    <2>4. job' \in Jobs /\ job'.old = job.old /\ job'.op = job.op /\ job'.prefix = job.prefix
          /\ job'.pc = "map"
      BY <1>9, <2>1, <2>2, <2>3, JobSteps, TypedParts DEF At, Jobs, Run
    <2>5. Placed'
      BY <1>9, <2>4, TypedParts DEF MapRoot, Placed, At
    <2>6. link' \in [Roots -> Targets \cup {None, Other}]
      BY <1>9, <2>1, TypedParts, TargetTyped DEF MapRoot
    <2> QED
      BY <1>9, <2>4, <2>5, <2>6, TypedParts, TypedFrom DEF MapRoot, KeepsGhosts, Injective
  <1>10. ASSUME NEW r \in Roots, SeedLook(r) PROVE Typed'
    <2>1. job' \in Jobs /\ job'.old = job.old /\ job'.op = job.op /\ job'.prefix = job.prefix
          /\ job'.pc = "seedWrite"
      BY <1>10, SeedLookJob, TypedParts
    <2>2. Placed'
      BY <1>10, <2>1, TypedParts DEF SeedLook, OnlyJob, diskVars, Placed, At
    <2> QED
      BY <1>10, <2>1, <2>2, TypedParts, OnlyJobTyped
      DEF SeedLook, OnlyJob, diskVars, ghostVars
  <1>11. ASSUME NEW r \in Roots, SeedWrite(r) PROVE Typed'
    <2>1. job' \in Jobs /\ job'.old = job.old /\ job'.op = job.op /\ job'.prefix = job.prefix
          /\ job'.pc = "seed"
      BY <1>11, JobSteps, TypedParts DEF Jobs, Run, Labels, Changing
    <2>2. Placed'
      BY <1>11, <2>1, TypedParts DEF SeedWrite, Placed, At
    <2>3. saves' \in [Targets -> {"none", "game", "cloud"}]
      BY <1>11, TypedParts DEF SeedWrite
    <2> QED
      BY <1>11, <2>1, <2>2, <2>3, TypedParts, TypedFrom DEF SeedWrite, ghostVars, Injective
  <1> QED
    BY <1>1, <1>2, <1>3, <1>4, <1>5, <1>6, <1>7, <1>8, <1>9, <1>10, <1>11 DEF Tool

LEMMA TypedScript == ASSUME Typed, RecordMatches, Script PROVE Typed'
  <1>1. ASSUME NEW op \in {"install", "remove"}, NEW p \in Prefixes, Begin(op, p)
        PROVE  Typed'
    <2>1. job' = [pc |-> IF state = None THEN "map" ELSE "undo", op |-> op,
                  prefix |-> p, copy |-> overrides, backup |-> overrides,
                  todo |-> Roots, rec |-> NoRecord, old |-> None]
      BY <1>1, JobSteps, TypedParts
    <2>2. job' \in Jobs /\ job'.old = None /\ job'.op = op /\ job'.prefix = p
          /\ job'.pc = IF state = None THEN "map" ELSE "undo"
      BY <2>1, TypedParts, NoRecordTyped DEF Jobs, Labels, Changing
    <2>3. Placed'
      BY <1>1, <2>2 DEF Begin, diskVars, Placed, At
    <2> QED
      BY <1>1, <2>2, <2>3, TypedParts, OnlyJobTyped DEF Begin, diskVars, ghostVars
  <1>2. CASE CommitAppinfo
    <2>1. job' \in Jobs /\ job'.old = job.old /\ job'.op = job.op /\ job'.prefix = job.prefix
          /\ job'.pc = "aside"
      BY <1>2, JobSteps, TypedParts DEF Jobs, Run, Labels, Changing
    <2>2. Placed'
      BY <1>2, <2>1, TypedParts DEF CommitAppinfo, Placed, At
    <2> QED
      BY <1>2, <2>1, <2>2, TypedParts, TypedFrom DEF CommitAppinfo, ghostVars, Injective
  <1>3. CASE MoveAside
    <2>1. state' = None
      BY <1>3 DEF MoveAside
    <2>2. job' \in Jobs /\ Placed' /\ (job'.old = None \/ job'.old = state)
      <3>1. CASE job.op = "remove"
        BY <1>3, <3>1, NoJobPlaced DEF MoveAside
      <3>2. CASE job.op # "remove"
        <4>1. job' \in Jobs /\ job'.old = state /\ job'.op = job.op
              /\ job'.prefix = job.prefix /\ job'.pc = "name"
          BY <1>3, <3>2, JobSteps, TypedParts DEF Jobs, Run, Labels, Changing
        <4>2. Placed'
          BY <1>3, <2>1, <3>2, <4>1, TypedParts DEF MoveAside, Placed, At
        <4> QED
          BY <4>1, <4>2
      <3> QED
        BY <3>1, <3>2
    <2> QED
      BY <1>3, <2>1, <2>2, TypedParts, TypedFrom DEF MoveAside, ghostVars
  <1>4. CASE NameState
    <2>1. job' \in Jobs /\ job'.old = job.old /\ job'.op = job.op /\ job'.prefix = job.prefix
          /\ job'.pc = "finish" /\ job'.rec = job.rec
      BY <1>4, JobSteps, TypedParts DEF Jobs, Run, Labels, Changing
    <2>2. state' = job.rec /\ job.rec \in Records /\ job.op = "install"
      BY <1>4, TypedParts DEF NameState, Placed, At
    <2>3. Mapped = Roots
      BY <1>4, <2>2 DEF NameState, Mapped, At, Changing
    <2>4. Injective(job.rec)
      BY <2>3, MappedInjective
    <2>5. Placed'
      BY <1>4, <2>1, <2>2, TypedParts DEF NameState, Placed, At
    <2> QED
      BY <1>4, <2>1, <2>2, <2>4, <2>5, TypedParts, TypedFrom
      DEF NameState, ghostVars, Injective
  <1>5. CASE Finish
    BY <1>5, NoJobPlaced, TypedParts, OnlyJobTyped DEF Finish, OnlyJob, diskVars, ghostVars
  <1>6. CASE RollBack
    <2>1. job' \in Jobs /\ Placed' /\ job'.old = None
      BY <1>6, NoJobPlaced DEF RollBack
    <2>2. overrides' \in Tables /\ leaked' \subseteq Roots /\ made' \subseteq Roots
      BY <1>6, TypedParts DEF RollBack
    <2>3. state' \in Records \cup {None} /\ (state' # None => Injective(state'))
      BY <1>6, TypedParts DEF RollBack, Typed
    <2> QED
      BY <1>6, <2>1, <2>2, <2>3, TypedParts, UnlinkedTyped, TypedFrom
      DEF RollBack, Injective
  <1>7. CASE Kill
    <2>1. torn' \in BOOLEAN /\ leaked' \subseteq Roots
      BY <1>7, TypedParts DEF Kill
    <2> QED
      BY <1>7, <2>1, NoJobPlaced, TypedParts, OnlyJobTyped DEF Kill, diskVars
  <1> QED
    BY <1>1, <1>2, <1>3, <1>4, <1>5, <1>6, <1>7 DEF Script

LEMMA TypedOthers == ASSUME Typed, Others PROVE Typed'
  <1>1. CASE SteamWrites
    <2>1. published' \in Own /\ overrides' \in Tables
      BY <1>1, OwnTables DEF SteamWrites
    <2>2. Placed'
      BY <1>1, TypedParts DEF SteamWrites, Placed, At
    <2> QED
      BY <1>1, <2>1, <2>2, TypedParts, TypedFrom DEF SteamWrites, Injective
  <1>2. ASSUME NEW r \in Roots, GameSaves(r) PROVE Typed'
    <2>1. job' = job
      BY <1>2 DEF GameSaves
    <2>2. job' \in Jobs /\ job'.old = job.old
      BY <2>1, TypedParts
    <2>3. Placed'
      BY <1>2, <2>1, TypedParts DEF GameSaves, Placed, At
    <2>4. saves' \in [Targets -> {"none", "game", "cloud"}]
      BY <1>2, TypedParts DEF GameSaves
    <2> QED
      BY <1>2, <2>1, <2>2, <2>3, <2>4, TypedParts, TypedFrom DEF GameSaves, ghostVars, Injective
  <1>3. ASSUME NEW r \in Roots, NEW to \in Targets \cup {None, Other}, UserLinks(r, to)
        PROVE  Typed'
    <2>1. /\ link' \in [Roots -> Targets \cup {None, Other}]
          /\ users' \in [Roots -> Targets \cup {None, Other}]
      BY <1>3, TypedParts DEF UserLinks
    <2>2. Placed'
      BY <1>3, TypedParts DEF UserLinks, Placed, At
    <2> QED
      BY <1>3, <2>1, <2>2, TypedParts, TypedFrom DEF UserLinks, Injective
  <1>4. ASSUME NEW t \in Targets, Redirect(t) PROVE Typed'
    <2>1. Placed'
      BY <1>4, TypedParts DEF Redirect, Placed, At
    <2> QED
      BY <1>4, <2>1, TypedParts, TypedFrom DEF Redirect, ghostVars, Injective
  <1> QED
    BY <1>1, <1>2, <1>3, <1>4, TargetTyped DEF Others

LEMMA TypedStep ==
  ASSUME Typed, RecordMatches, [Next]_vars
  PROVE  Typed'
  <1>1. CASE UNCHANGED vars
    <2>1. Placed'
      BY <1>1, TypedParts DEF vars, diskVars, Placed, At
    <2> QED
      BY <1>1, <2>1, TypedParts, OnlyJobTyped DEF vars, diskVars, ghostVars
  <1> QED
    BY <1>1, TypedTool, TypedScript, TypedOthers DEF Next

--------------------------------------------------------------------------------
(* Tables.                                                                 *)

LEMMA TablesAreFunctions ==
  ASSUME NEW t \in Tables, NEW u \in Tables, \A k \in Keys : t[k] = u[k]
  PROVE  t = u
  BY DEF Tables

\* A mapping that has been recorded and copied in full is exact.
LEMMA RecordedIsExact ==
  ASSUME NEW s \in Records, NEW t \in Tables, NEW steam \in Tables, Injective(s),
         Originals(s, steam),
         \A k \in Keys : (\A r \in Roots : s.key[r] # k) => t[k] = steam[k]
  PROVE  Exact(s, t, steam)
  <1>1. s # None
    BY NoneIsNoRecord
  <1>2. Restored(s, t) \in Tables
    BY RestoredTable
  <1>3. ASSUME NEW k \in Keys PROVE Restored(s, t)[k] = steam[k]
    <2>1. CASE \E r \in Roots : s.key[r] = k
      BY <2>1, RestoredTable DEF Originals
    <2>2. CASE \A r \in Roots : s.key[r] # k
      BY <2>2, RestoredTable
    <2> QED
      BY <2>1, <2>2
  <1>4. Restored(s, t) = steam
    BY <1>2, <1>3, TablesAreFunctions
  <1> QED
    BY <1>1, <1>4 DEF Exact

\* What Steam publishes cannot be undone, but for a game without roots.
LEMMA PublishedIsExact ==
  ASSUME NEW s \in Records \cup {None}, s # None => Injective(s), NEW steam \in Own
  PROVE  Exact(s, steam, steam)
  <1>1. CASE s = None
    BY <1>1 DEF Exact
  <1>2. CASE s # None
    <2>1. s \in Records /\ Injective(s) /\ steam \in Tables
      BY <1>2, OwnTables
    <2>2. CASE Roots = {}
      <3>1. Originals(s, steam)
        BY <2>2 DEF Originals
      <3> QED
        BY <2>1, <3>1, RecordedIsExact
    <2>3. CASE Roots # {}
      <3>1. ~Restorable(s, steam)
        BY <2>1, <2>3, OwnTables DEF Restorable, Records
      <3> QED
        BY <1>2, <3>1 DEF Exact
    <2> QED
      BY <2>2, <2>3
  <1> QED
    BY <1>1, <1>2

\* The old state file is exact with the table of the new mapping: that can be
\* undone with it only where both have the same keys.
LEMMA OldStateIsExact ==
  ASSUME NEW s \in Records, Injective(s), NEW rec \in Records,
         NEW t \in Tables, NEW steam \in Own,
         Originals(s, steam),
         \A k \in Keys : (\A r \in Roots : rec.key[r] # k) => t[k] = steam[k],
         \A r \in Roots : t[rec.key[r]] = Generated(r)
  PROVE  Exact(s, t, steam)
  <1>1. CASE Restorable(s, t)
    <2>1. s.key \in [Roots -> Keys] /\ rec.key \in [Roots -> Keys] /\ steam \in Tables
      BY OwnTables DEF Records
    <2>2. ASSUME NEW r \in Roots PROVE s.key[r] = rec.key[r]
      <3>1. t[s.key[r]] = Generated(r)
        BY <1>1 DEF Restorable
      <3>2. t[s.key[r]] # steam[s.key[r]]
        BY <2>1, <3>1, OwnTables
      <3>3. PICK q \in Roots : rec.key[q] = s.key[r]
        BY <2>1, <3>2
      <3>4. Generated(q) = Generated(r)
        BY <3>1, <3>3
      <3> QED
        BY <3>3, <3>4, GeneratedTyped
    <2>3. \A k \in Keys : (\A r \in Roots : s.key[r] # k) => t[k] = steam[k]
      BY <2>2
    <2> QED
      BY <2>1, <2>3, RecordedIsExact
  <1>2. CASE ~Restorable(s, t)
    <2>1. s # None
      BY NoneIsNoRecord
    <2> QED
      BY <1>2, <2>1 DEF Exact
  <1> QED
    BY <1>1, <1>2

--------------------------------------------------------------------------------

LEMMA TableInit == Init => TableInv
  <1> SUFFICES ASSUME Init PROVE TableInv
    OBVIOUS
  <1>1. At("idle") /\ job.op = "install" /\ state = None /\ overrides = published
    BY DEF Init, NoJob, At
  <1>2. Mapped = {}
    BY <1>1 DEF Mapped, At, Changing
  <1>3. Exact(state, overrides, published)
    BY <1>1 DEF Exact
  <1> QED
    BY <1>1, <1>2, <1>3
    DEF TableInv, RecordMatches, CopiesOfDisk, Follows, ExactNow, At, Changing, Copying

\* When a run is over only what is on the disk counts.
LEMMA OverTables ==
  ASSUME job' = NoJob, ~torn' => Exact(state', overrides', published')
  PROVE  TableInv'
  <1>1. job'.pc = "idle"
    BY DEF NoJob
  <1>2. Mapped' = {}
    BY <1>1 DEF Mapped, Changing
  <1> QED
    BY <1>1, <1>2
    DEF TableInv, RecordMatches, CopiesOfDisk, Follows, ExactNow, At, Changing, Copying

\* A run that stays where it is, or goes on before its commit, with the same
\* copy, record and roots behind it.
LEMMA OnTables ==
  ASSUME TableInv,
         UNCHANGED <<overrides, state, published, torn>>,
         job'.copy = job.copy, job'.backup = job.backup, job'.rec = job.rec,
         job'.old = job.old, job'.prefix = job.prefix,
         Mapped' = Mapped,
         \/ job'.pc = job.pc
         \/ /\ job.pc \in Copying \ {"undo"}
            /\ job'.pc \in Copying \ {"undo"}
  PROVE  TableInv'
  <1>1. RecordMatches'
    BY DEF TableInv, RecordMatches
  <1>2. CopiesOfDisk'
    BY DEF TableInv, CopiesOfDisk, At, Copying
  <1>3. ASSUME ~torn' PROVE Follows' /\ ExactNow'
    <2>1. Follows /\ ExactNow
      BY <1>3 DEF TableInv
    <2>2. Follows'
      BY <2>1 DEF Follows, Copying, Changing
    <2>3. ExactNow'
      BY <2>1 DEF ExactNow, Copying, At
    <2> QED
      BY <2>2, <2>3
  <1> QED
    BY <1>1, <1>2, <1>3 DEF TableInv

LEMMA UndoTables ==
  ASSUME Typed, TableInv, UndoOverrides
  PROVE  TableInv'
  <1>1. /\ At("undo") /\ state \in Records /\ Injective(state) /\ state # None
        /\ UNCHANGED <<overrides, state, published, torn>>
    BY TypedParts DEF UndoOverrides, OnlyJob, diskVars, ghostVars, Placed, At
  <1>2. job.copy = overrides /\ job.backup = overrides
    BY <1>1 DEF TableInv, CopiesOfDisk, At, Copying
  <1>3. ~torn => Exact(state, overrides, published)
    BY <1>1 DEF TableInv, ExactNow, At
  <1>4. CASE job' = NoJob
    BY <1>1, <1>3, <1>4, OverTables
  <1>5. CASE job' # NoJob
    <2>1. /\ Restorable(state, overrides)
          /\ job' = Run(job, "unlink", Restored(state, overrides), state.owned,
                        job.rec, job.old)
      BY <1>2, <1>5, JobSteps, TypedParts
    <2>2. job'.pc = "unlink" /\ job'.copy = Restored(state, overrides)
          /\ job'.backup = overrides
      BY <2>1, <1>2 DEF Run
    <2>3. Mapped' = {}
      BY <2>2 DEF Mapped, Changing
    <2>4. ASSUME ~torn' PROVE Follows' /\ ExactNow'
      <3>1. Restored(state, overrides) = published
        BY <1>1, <1>3, <2>1, <2>4 DEF Exact
      <3>2. Originals(state, published)
        BY <1>1, <3>1, RestoredTable, TypedParts DEF Originals
      <3>3. Follows'
        BY <1>1, <2>2, <2>3, <3>1 DEF Follows
      <3>4. ExactNow'
        BY <1>1, <1>3, <2>2, <2>4, <3>2 DEF ExactNow, At
      <3> QED
        BY <3>3, <3>4
    <2> QED
      BY <1>1, <2>2, <2>3, <2>4 DEF TableInv, RecordMatches, CopiesOfDisk, At, Copying
  <1> QED
    BY <1>4, <1>5

LEMMA MapTables ==
  ASSUME Typed, TableInv, NEW r \in Roots, MapRoot(r)
  PROVE  TableInv'
  <1> DEFINE key == KeyFor(r, job.copy)
             rec == job.rec
  <1>1. /\ key \in Keys /\ At("map") /\ r \in job.todo
        /\ UNCHANGED <<overrides, state, published, torn>>
    BY DEF MapRoot, KeepsGhosts
  <1>2. /\ job'.pc = "map" /\ job'.op = job.op /\ job'.prefix = job.prefix
        /\ job'.copy = [job.copy EXCEPT ![key] = Generated(r)]
        /\ job'.todo = job.todo \ {r} /\ job'.rec = Recorded(r, key)
        /\ job'.backup = job.backup /\ job'.old = job.old
    BY <1>1, JobSteps, TypedParts DEF Run, At
  <1>3. /\ rec.key \in [Roots -> Keys]
        /\ rec.original \in [Roots -> Values \cup {None}]
        /\ rec.target \in [Roots -> Targets \cup {None}]
        /\ job.copy \in [Keys -> Values \cup {None}]
    BY TypedParts DEF Records, Tables
  <1>4. job.op # "remove"
    BY <1>1, TypedParts DEF Placed, At
  <1>5. Mapped = Roots \ job.todo /\ Mapped' = Mapped \cup {r} /\ r \notin Mapped
    BY <1>1, <1>2, <1>4, TypedParts DEF Mapped, At, Changing
  <1>6. job.copy[key] = None \/ job.copy[key].root = r
    BY <1>1, KeyIsFree, TypedParts
  <1>7. \A q \in Mapped : job.copy[rec.key[q]] = Generated(q)
    BY DEF TableInv, RecordMatches
  <1>8. \A q \in Mapped : rec.key[q] # key /\ q \in Roots /\ q # r
    BY <1>5, <1>6, <1>7, GeneratedTyped
  <1>9. /\ Recorded(r, key).key = [rec.key EXCEPT ![r] = key]
        /\ Recorded(r, key).original = [rec.original EXCEPT ![r] = job.copy[key]]
        /\ Recorded(r, key).target = [rec.target EXCEPT ![r] = Target(r, job.prefix)]
    BY DEF Recorded
  <1> HIDE DEF key
  <1>10. RecordMatches'
    <2> SUFFICES ASSUME NEW q \in Mapped'
                 PROVE  /\ job'.copy[job'.rec.key[q]] = Generated(q)
                        /\ job'.rec.target[q] = Target(q, job'.prefix)
      BY DEF RecordMatches
    <2>1. CASE q = r
      BY <2>1, <1>1, <1>2, <1>3, <1>9
    <2>2. CASE q # r
      <3>1. q \in Mapped /\ q \in Roots
        BY <2>2, <1>5, <1>8
      <3>2. job'.rec.key[q] = rec.key[q] /\ job'.rec.target[q] = rec.target[q]
        BY <2>2, <3>1, <1>2, <1>3, <1>9
      <3>3. job'.copy[rec.key[q]] = job.copy[rec.key[q]]
        BY <3>1, <1>2, <1>3, <1>8
      <3>4. rec.target[q] = Target(q, job.prefix)
        BY <3>1 DEF TableInv, RecordMatches
      <3> QED
        BY <3>1, <3>2, <3>3, <3>4, <1>2, <1>7
    <2> QED
      BY <2>1, <2>2
  <1>11. CopiesOfDisk'
    BY <1>1, <1>2 DEF TableInv, CopiesOfDisk, At, Copying
  <1>12. ASSUME ~torn' PROVE Follows' /\ ExactNow'
    <2>1. Follows /\ ExactNow
      BY <1>1, <1>12 DEF TableInv
    <2>2. /\ \A q \in Mapped : rec.original[q] = published[rec.key[q]]
          /\ \A k \in Keys :
               (\A q \in Mapped : rec.key[q] # k) => job.copy[k] = published[k]
      BY <1>1, <2>1 DEF Follows, At, Changing
    <2>3. job.copy[key] = published[key]
      BY <1>1, <1>8, <2>2
    <2>4. ASSUME NEW q \in Mapped'
          PROVE  job'.rec.original[q] = published[job'.rec.key[q]]
      <3>1. CASE q = r
        BY <3>1, <2>3, <1>2, <1>3, <1>9
      <3>2. CASE q # r
        <4>1. q \in Mapped /\ q \in Roots
          BY <3>2, <1>5, <1>8
        <4> QED
          BY <3>2, <4>1, <2>2, <1>2, <1>3, <1>9
      <3> QED
        BY <3>1, <3>2
    <2>5. ASSUME NEW k \in Keys, \A q \in Mapped' : job'.rec.key[q] # k
          PROVE  job'.copy[k] = published[k]
      <3>1. job'.rec.key[r] = key
        BY <1>2, <1>3, <1>9
      <3>2. k # key
        BY <3>1, <2>5, <1>5
      <3>3. \A q \in Mapped : rec.key[q] # k
        BY <2>5, <1>2, <1>3, <1>5, <1>8, <1>9
      <3>4. job'.copy[k] = job.copy[k]
        BY <3>2, <1>2, <1>3
      <3> QED
        BY <3>3, <3>4, <2>2
    <2>6. Follows'
      BY <2>4, <2>5, <1>1 DEF Follows
    <2>7. ExactNow'
      BY <2>1, <1>1, <1>2 DEF ExactNow, At, Copying
    <2> QED
      BY <2>6, <2>7
  <1> QED
    BY <1>10, <1>11, <1>12 DEF TableInv

LEMMA ToolTables == ASSUME Typed, TableInv, Tool PROVE TableInv'
  <1>1. CASE UndoOverrides
    BY <1>1, UndoTables
  <1>2. CASE UnlinkEnd
    <2>1. /\ job'.copy = job.copy /\ job'.backup = job.backup /\ job'.rec = job.rec
          /\ job'.old = job.old /\ job'.prefix = job.prefix /\ job'.op = job.op
          /\ job'.todo = IF job.op = "install" THEN Roots ELSE job.todo
          /\ job'.pc = IF job.op = "install" THEN "map" ELSE "commit"
      BY <1>2, JobSteps, TypedParts DEF Run
    <2>2. job.pc = "unlink"
      BY <1>2 DEF UnlinkEnd, At
    <2>3. Mapped = {} /\ Mapped' = {}
      BY <2>1, <2>2, TypedParts DEF Mapped, At, Changing
    <2> QED
      BY <1>2, <2>1, <2>2, <2>3, OnTables
      DEF UnlinkEnd, OnlyJob, diskVars, ghostVars, Copying
  <1>3. CASE UndoFails
    <2>1. ~torn => Exact(state, overrides, published)
      BY <1>3 DEF UndoFails, TableInv, ExactNow, At
    <2> QED
      BY <1>3, <2>1, OverTables DEF UndoFails, OnlyJob, diskVars, ghostVars
  <1>4. CASE MapEnd
    <2>1. /\ job'.copy = job.copy /\ job'.backup = job.backup /\ job'.rec = job.rec
          /\ job'.old = job.old /\ job'.prefix = job.prefix /\ job'.op = job.op
          /\ job'.pc = "seed"
      BY <1>4, JobSteps, TypedParts DEF Run
    <2>2. job.pc = "map" /\ job.todo = {}
      BY <1>4 DEF MapEnd, At
    <2>3. Mapped' = Mapped
      BY <2>1, <2>2, TypedParts DEF Mapped, At, Changing
    <2> QED
      BY <1>4, <2>1, <2>2, <2>3, OnTables DEF MapEnd, OnlyJob, diskVars, ghostVars, Copying
  <1>5. CASE InstallFails
    <2>1. /\ job'.backup = job.backup /\ job'.pc = "unmap"
      BY <1>5, JobSteps, TypedParts DEF Run
    <2>2. ~torn => Exact(state, overrides, published)
      BY <1>5 DEF InstallFails, TableInv, ExactNow, At
    <2>3. Mapped' = {}
      BY <2>1 DEF Mapped, Changing
    <2>4. UNCHANGED <<overrides, state, published, torn>>
      BY <1>5 DEF InstallFails, OnlyJob, diskVars, ghostVars
    <2> QED
      BY <2>1, <2>2, <2>3, <2>4
      DEF TableInv, RecordMatches, CopiesOfDisk, Follows, ExactNow, At, Changing, Copying
  <1>6. CASE Unmap
    <2>1. ~torn => Exact(state, overrides, published)
      BY <1>6 DEF Unmap, TableInv, ExactNow, At
    <2> QED
      BY <1>6, <2>1, OverTables DEF Unmap, KeepsGhosts
  <1>7. CASE WriteState
    <2>1. /\ job'.copy = job.copy /\ job'.backup = job.backup /\ job'.rec = job.rec
          /\ job'.old = job.old /\ job'.prefix = job.prefix /\ job'.op = job.op
          /\ job'.pc = "commit"
      BY <1>7, JobSteps, TypedParts DEF Run
    <2>2. job.pc = "seed"
      BY <1>7 DEF WriteState, At
    <2>3. Mapped' = Mapped
      BY <2>1, <2>2 DEF Mapped, At, Changing
    <2> QED
      BY <1>7, <2>1, <2>2, <2>3, OnTables
      DEF WriteState, OnlyJob, diskVars, ghostVars, Copying
  <1>8. ASSUME NEW r \in Roots, UnlinkOld(r) PROVE TableInv'
    <2>1. /\ job'.copy = job.copy /\ job'.backup = job.backup /\ job'.rec = job.rec
          /\ job'.old = job.old /\ job'.prefix = job.prefix /\ job'.op = job.op
          /\ job'.pc = job.pc
      BY <1>8, JobSteps, TypedParts DEF Run
    <2>2. job.pc = "unlink"
      BY <1>8 DEF UnlinkOld, At
    <2>3. Mapped' = Mapped
      BY <2>1, <2>2 DEF Mapped, At, Changing
    <2> QED
      BY <1>8, <2>1, <2>3, OnTables DEF UnlinkOld, KeepsGhosts
  <1>9. ASSUME NEW r \in Roots, MapRoot(r) PROVE TableInv'
    BY <1>9, MapTables
  <1>10. ASSUME NEW r \in Roots, SeedLook(r) PROVE TableInv'
    <2>1. job.pc = "seed" /\ job'.pc = "seedWrite" /\ job'.op = job.op
      BY <1>10, SeedLookJob, TypedParts DEF SeedLook, At
    <2>2. Mapped' = Mapped
      BY <2>1 DEF Mapped, At, Changing
    <2> QED
      BY <1>10, <2>1, <2>2, SeedLookJob, TypedParts, OnTables
      DEF SeedLook, OnlyJob, diskVars, ghostVars, Copying
  <1>11. ASSUME NEW r \in Roots, SeedWrite(r) PROVE TableInv'
    <2>1. /\ job'.copy = job.copy /\ job'.backup = job.backup /\ job'.rec = job.rec
          /\ job'.old = job.old /\ job'.prefix = job.prefix /\ job'.op = job.op
          /\ job'.pc = "seed"
      BY <1>11, JobSteps, TypedParts DEF Run
    <2>2. job.pc = "seedWrite"
      BY <1>11 DEF SeedWrite, At
    <2>3. Mapped' = Mapped
      BY <2>1, <2>2 DEF Mapped, At, Changing
    <2> QED
      BY <1>11, <2>1, <2>2, <2>3, OnTables DEF SeedWrite, ghostVars, Copying
  <1> QED
    BY <1>1, <1>2, <1>3, <1>4, <1>5, <1>6, <1>7, <1>8, <1>9, <1>10, <1>11 DEF Tool

\* What the copy and the record hold once every root is mapped.
LEMMA MappedTables ==
  ASSUME Typed, TableInv, job.op = "install", ~torn,
         job.pc \in {"commit", "aside", "name", "finish"}
  PROVE  /\ Injective(job.rec) /\ Originals(job.rec, published)
         /\ \A k \in Keys :
              (\A r \in Roots : job.rec.key[r] # k) => job.copy[k] = published[k]
         /\ \A r \in Roots : job.copy[job.rec.key[r]] = Generated(r)
         /\ Exact(job.rec, job.copy, published)
  <1>1. Mapped = Roots
    BY DEF Mapped, Changing, At
  <1>2. RecordMatches /\ Follows
    BY DEF TableInv
  <1>3. Injective(job.rec)
    BY <1>1, <1>2, MappedInjective
  <1>4. /\ Originals(job.rec, published)
        /\ \A k \in Keys :
             (\A r \in Roots : job.rec.key[r] # k) => job.copy[k] = published[k]
    BY <1>1, <1>2 DEF Follows, Changing, Originals
  <1>5. Exact(job.rec, job.copy, published)
    BY <1>3, <1>4, RecordedIsExact, TypedParts, OwnTables
  <1> QED
    BY <1>1, <1>2, <1>3, <1>4, <1>5 DEF RecordMatches

\* The copy of a remove, once the mapping is undone, is what Steam published.
LEMMA RemovedTables ==
  ASSUME Typed, TableInv, job.op = "remove", ~torn, job.pc \in {"commit", "aside"}
  PROVE  job.copy = published
  <1>1. Mapped = {} /\ Follows
    BY DEF Mapped, TableInv
  <1>2. \A k \in Keys : job.copy[k] = published[k]
    BY <1>1 DEF Follows, Changing
  <1> QED
    BY <1>2, TablesAreFunctions, TypedParts, OwnTables

LEMMA ScriptTables == ASSUME Typed, TableInv, Script PROVE TableInv'
  <1>1. ASSUME NEW op \in {"install", "remove"}, NEW p \in Prefixes, Begin(op, p)
        PROVE  TableInv'
    <2>1. /\ job'.pc = IF state = None THEN "map" ELSE "undo"
          /\ job'.copy = overrides /\ job'.backup = overrides /\ job'.todo = Roots
      BY <1>1, JobSteps, TypedParts
    <2>2. At("idle") /\ UNCHANGED <<overrides, state, published, torn>>
      BY <1>1 DEF Begin, diskVars, ghostVars
    <2>3. Mapped' = {}
      BY <2>1 DEF Mapped, At, Changing
    <2>4. ~torn => Exact(state, overrides, published)
      BY <2>2 DEF TableInv, ExactNow, At
    <2>5. CopiesOfDisk'
      BY <2>1, <2>2 DEF CopiesOfDisk, At, Copying
    <2>6. ASSUME ~torn' PROVE Follows'
      <3>1. CASE state = None
        <4>1. overrides = published
          BY <2>2, <2>4, <2>6, <3>1 DEF Exact
        <4> QED
          BY <4>1, <2>1, <2>2, <2>3 DEF Follows
      <3>2. CASE state # None
        BY <2>1, <3>2 DEF Follows, Changing
      <3> QED
        BY <3>1, <3>2
    <2>7. ASSUME ~torn' PROVE ExactNow'
      <3>1. job'.pc \notin {"name", "aside", "finish"}
        BY <2>1
      <3>2. job'.pc \in Copying \ {"undo"} => state = None
        BY <2>1 DEF Copying
      <3> QED
        BY <3>1, <3>2, <2>2, <2>4, <2>7 DEF ExactNow, At
    <2> QED
      BY <2>3, <2>5, <2>6, <2>7 DEF TableInv, RecordMatches
  <1>2. CASE CommitAppinfo
    <2>1. /\ job'.copy = job.copy /\ job'.backup = job.backup /\ job'.rec = job.rec
          /\ job'.prefix = job.prefix /\ job'.op = job.op /\ job'.pc = "aside"
      BY <1>2, JobSteps, TypedParts DEF Run
    <2>2. At("commit") /\ overrides' = job.copy
          /\ UNCHANGED <<state, published, torn>>
      BY <1>2 DEF CommitAppinfo, ghostVars
    <2>3. Mapped' = Mapped
      BY <2>1, <2>2 DEF Mapped, At, Changing
    <2>4. RecordMatches'
      BY <2>1, <2>3 DEF TableInv, RecordMatches
    <2>5. CopiesOfDisk'
      BY <2>1, <2>2 DEF CopiesOfDisk, At, Copying
    <2>6. ASSUME ~torn' PROVE Follows' /\ ExactNow'
      <3>1. Follows /\ ExactNow /\ ~torn
        BY <2>2, <2>6 DEF TableInv
      <3>2. Follows'
        BY <3>1, <2>1, <2>2, <2>3 DEF Follows, At, Changing
      <3>3. Exact(state, job.backup, published)
        <4>1. job.backup = overrides
          BY <2>2 DEF TableInv, CopiesOfDisk, At, Copying
        <4> QED
          BY <3>1, <4>1, <2>2 DEF ExactNow, At
      <3>4. state # None => Exact(state, job.copy, published)
        <4>1. CASE job.op = "remove"
          <5>1. job.copy = published
            BY <3>1, <4>1, <2>2, RemovedTables DEF At
          <5> QED
            BY <5>1, PublishedIsExact, TypedParts
        <4>2. CASE job.op = "install"
          <5>1. state # None => Originals(state, published)
            BY <3>1, <2>2 DEF ExactNow, At, Copying
          <5>2. /\ \A k \in Keys :
                     (\A r \in Roots : job.rec.key[r] # k) => job.copy[k] = published[k]
                /\ \A r \in Roots : job.copy[job.rec.key[r]] = Generated(r)
            BY <3>1, <4>2, <2>2, MappedTables DEF At
          <5> QED
            BY <5>1, <5>2, OldStateIsExact, TypedParts
        <4> QED
          BY <4>1, <4>2, TypedParts
      <3>5. ExactNow'
        BY <3>3, <3>4, <2>1, <2>2 DEF ExactNow, At, Copying
      <3> QED
        BY <3>2, <3>5
    <2> QED
      BY <2>4, <2>5, <2>6 DEF TableInv
  <1>3. CASE MoveAside
    <2>1. /\ At("aside") /\ state' = None /\ UNCHANGED <<overrides, published, torn>>
          /\ overrides = job.copy
      BY <1>3 DEF MoveAside, ghostVars, TableInv, CopiesOfDisk, At
    <2>2. CASE job.op = "remove"
      <3>1. ~torn => overrides = published
        BY <2>1, <2>2, RemovedTables DEF At
      <3>2. job' = NoJob
        BY <1>3, <2>2 DEF MoveAside
      <3> QED
        BY <2>1, <3>1, <3>2, OverTables DEF Exact
    <2>3. CASE job.op # "remove"
      <3>1. /\ job'.copy = job.copy /\ job'.backup = job.backup /\ job'.rec = job.rec
            /\ job'.prefix = job.prefix /\ job'.op = job.op /\ job'.pc = "name"
            /\ job'.old = state
        BY <1>3, <2>3, JobSteps, TypedParts DEF Run
      <3>2. Mapped' = Mapped
        BY <2>1, <3>1 DEF Mapped, At, Changing
      <3>3. ASSUME ~torn' PROVE Follows' /\ ExactNow'
        <4>1. Follows /\ ExactNow
          BY <2>1, <3>3 DEF TableInv
        <4>2. Follows'
          BY <4>1, <2>1, <3>1, <3>2 DEF Follows, At, Changing
        <4>3. ExactNow'
          BY <4>1, <2>1, <3>1 DEF ExactNow, At, Copying
        <4> QED
          BY <4>2, <4>3
      <3> QED
        BY <2>1, <3>1, <3>2, <3>3 DEF TableInv, RecordMatches, CopiesOfDisk, At, Copying
    <2> QED
      BY <2>2, <2>3
  <1>4. CASE NameState
    <2>1. /\ job'.copy = job.copy /\ job'.backup = job.backup /\ job'.rec = job.rec
          /\ job'.prefix = job.prefix /\ job'.op = job.op /\ job'.pc = "finish"
          /\ job'.old = job.old
      BY <1>4, JobSteps, TypedParts DEF Run
    <2>2. /\ At("name") /\ state' = job.rec /\ UNCHANGED <<overrides, published, torn>>
          /\ overrides = job.copy /\ job.op = "install"
      BY <1>4, TypedParts DEF NameState, ghostVars, TableInv, CopiesOfDisk, Placed, At
    <2>3. Mapped' = Mapped
      BY <2>1, <2>2 DEF Mapped, At, Changing
    <2>4. ASSUME ~torn' PROVE Follows' /\ ExactNow'
      <3>1. Follows /\ ExactNow /\ ~torn
        BY <2>2, <2>4 DEF TableInv
      <3>2. Follows'
        BY <3>1, <2>1, <2>2, <2>3 DEF Follows, At, Changing
      <3>3. Exact(job.rec, job.copy, published)
        BY <3>1, <2>2, MappedTables DEF At
      <3>4. ExactNow'
        BY <3>1, <3>3, <2>1, <2>2 DEF ExactNow, At, Copying
      <3> QED
        BY <3>2, <3>4
    <2> QED
      BY <2>1, <2>2, <2>3, <2>4 DEF TableInv, RecordMatches, CopiesOfDisk, At, Copying
  <1>5. CASE Finish
    <2>1. ~torn => Exact(state, overrides, published)
      BY <1>5 DEF Finish, TableInv, ExactNow, At
    <2> QED
      BY <1>5, <2>1, OverTables DEF Finish, OnlyJob, diskVars, ghostVars
  <1>6. CASE RollBack
    <2>1. UNCHANGED <<published, torn>> /\ job' = NoJob
      BY <1>6 DEF RollBack
    <2>2. ASSUME ~torn PROVE Exact(state', overrides', published)
      <3>1. ExactNow
        BY <2>2 DEF TableInv
      <3>2. CASE At("commit")
        BY <1>6, <3>1, <3>2 DEF RollBack, ExactNow, At
      <3>3. CASE At("aside")
        BY <1>6, <3>1, <3>3 DEF RollBack, ExactNow, At
      <3>4. CASE job.pc \in {"name", "finish"}
        BY <1>6, <3>1, <3>4 DEF RollBack, ExactNow, At
      <3> QED
        BY <1>6, <3>2, <3>3, <3>4 DEF RollBack, At
    <2> QED
      BY <2>1, <2>2, OverTables
  <1>7. CASE Kill
    <2>1. UNCHANGED <<overrides, state, published>> /\ job' = NoJob
      BY <1>7 DEF Kill, diskVars
    <2>2. ASSUME ~torn' PROVE Exact(state, overrides, published)
      <3>1. ~torn /\ ~(job.op = "install" /\ job.pc \in {"aside", "name"} /\ state = None)
        BY <1>7, <2>2, TypedParts DEF Kill
      <3>2. ~At("name") /\ (At("aside") => state # None)
        BY <3>1, TypedParts DEF Placed, At
      <3> QED
        BY <3>1, <3>2 DEF TableInv, ExactNow
    <2> QED
      BY <2>1, <2>2, OverTables
  <1> QED
    BY <1>1, <1>2, <1>3, <1>4, <1>5, <1>6, <1>7 DEF Script

LEMMA TableStep ==
  ASSUME Typed, TableInv, [Next]_vars
  PROVE  TableInv'
  <1>1. CASE SteamWrites
    <2>1. /\ At("idle") /\ published' \in Own /\ overrides' = published'
          /\ UNCHANGED <<state, job>>
      BY <1>1 DEF SteamWrites
    <2>2. job' = NoJob
      BY <2>1, TypedParts DEF Placed
    <2>3. Exact(state', overrides', published')
      BY <2>1, PublishedIsExact, TypedParts
    <2> QED
      BY <2>2, <2>3, OverTables
  <1>2. ASSUME NEW r \in Roots, GameSaves(r) PROVE TableInv'
    <2>1. Mapped' = Mapped
      BY <1>2 DEF GameSaves, Mapped, At
    <2> QED
      BY <1>2, <2>1, TypedParts, OnTables DEF GameSaves, ghostVars
  <1>3. CASE UNCHANGED <<overrides, state, published, torn, job>>
    <2>1. Mapped' = Mapped
      BY <1>3 DEF Mapped, At
    <2> QED
      BY <1>3, <2>1, OnTables
  <1>4. ASSUME Others PROVE TableInv'
    <2>1. ASSUME NEW r \in Roots, NEW to, UserLinks(r, to) PROVE TableInv'
      BY <1>3, <2>1 DEF UserLinks
    <2>2. ASSUME NEW t, Redirect(t) PROVE TableInv'
      BY <1>3, <2>2 DEF Redirect, ghostVars
    <2> QED
      BY <1>1, <1>2, <1>4, <2>1, <2>2 DEF Others
  <1>5. CASE UNCHANGED vars
    BY <1>3, <1>5 DEF vars, diskVars, ghostVars
  <1> QED
    BY <1>4, <1>5, ToolTables, ScriptTables DEF Next

--------------------------------------------------------------------------------
(* Links.                                                                  *)

\* When a run is over the links are those of the state file.
LEMMA OverLinks ==
  ASSUME job' = NoJob, made' \subseteq leaked' \cup Accounted'
  PROVE  LinkInv'
  <1>1. job'.pc = "idle"
    BY DEF NoJob
  <1> QED
    BY <1>1 DEF LinkInv, At, Changing

LEMMA ToolLinks == ASSUME Typed, LinkInv, Tool PROVE LinkInv'
  <1>1. CASE UndoOverrides
    <2>1. /\ At("undo") /\ state # None /\ UNCHANGED <<link, state, made, leaked>>
          /\ made \subseteq leaked \cup Standing(state)
      BY <1>1, TypedParts
      DEF UndoOverrides, OnlyJob, diskVars, ghostVars, Placed, LinkInv, Accounted, At
    <2>2. CASE job' = NoJob
      <3>1. Accounted' = Standing(state)
        BY <2>1 DEF Accounted, Standing
      <3> QED
        BY <2>1, <2>2, <3>1, OverLinks
    <2>3. CASE job' # NoJob
      <3>1. job'.pc = "unlink" /\ job'.todo = state.owned
        BY <1>1, <2>3, JobSteps, TypedParts DEF Run
      <3> QED
        BY <2>1, <3>1 DEF LinkInv, Standing, At, Changing
    <2> QED
      BY <2>2, <2>3
  <1>2. CASE UnlinkEnd
    <2>1. job'.pc \in {"map", "commit"} /\ job'.op = job.op
      BY <1>2, JobSteps, TypedParts DEF Run
    <2>2. made \subseteq leaked /\ UNCHANGED <<made, leaked>>
      BY <1>2 DEF UnlinkEnd, OnlyJob, ghostVars, LinkInv
    <2> QED
      BY <2>1, <2>2 DEF LinkInv, At, Changing
  <1>3. CASE UndoFails
    <2>1. /\ At("unlink") /\ state # None /\ UNCHANGED <<link, state, made, leaked>>
          /\ job' = NoJob
      BY <1>3, TypedParts DEF UndoFails, OnlyJob, diskVars, ghostVars, Placed, At
    <2>2. Accounted' = Standing(state)
      BY <2>1 DEF Accounted, Standing
    <2> QED
      BY <2>1, <2>2, OverLinks DEF LinkInv
  <1>4. CASE MapEnd
    <2>1. job'.pc = "seed" /\ job'.op = job.op /\ job'.rec = job.rec
      BY <1>4, JobSteps, TypedParts DEF Run
    <2>2. job.pc = "map" /\ UNCHANGED <<link, made, leaked>>
      BY <1>4 DEF MapEnd, OnlyJob, diskVars, ghostVars, At
    <2> QED
      BY <2>1, <2>2 DEF LinkInv, Standing, At, Changing
  <1>5. CASE InstallFails
    <2>1. job'.pc = "unmap" /\ job'.op = job.op /\ job'.rec = job.rec
      BY <1>5, JobSteps, TypedParts DEF Run
    <2>2. job.pc \in {"map", "seed", "seedWrite"} /\ UNCHANGED <<made, leaked>>
      BY <1>5 DEF InstallFails, OnlyJob, ghostVars
    <2>3. made \subseteq leaked \cup job.rec.owned
      BY <2>2 DEF LinkInv, Standing, Changing
    <2> QED
      BY <2>1, <2>2, <2>3 DEF LinkInv, At, Changing
  <1>6. CASE Unmap
    <2>1. job' = NoJob /\ made' = made \ job.rec.owned /\ leaked' = leaked
          /\ made \subseteq leaked \cup job.rec.owned
      BY <1>6 DEF Unmap, KeepsGhosts, LinkInv
    <2> QED
      BY <2>1, OverLinks
  <1>7. CASE WriteState
    <2>1. job'.pc = "commit" /\ job'.op = job.op /\ job'.rec = job.rec
      BY <1>7, JobSteps, TypedParts DEF Run
    <2>2. job.pc = "seed" /\ UNCHANGED <<link, made, leaked>>
      BY <1>7 DEF WriteState, OnlyJob, diskVars, ghostVars, At
    <2> QED
      BY <2>1, <2>2 DEF LinkInv, Standing, At, Changing
  <1>8. ASSUME NEW r \in Roots, UnlinkOld(r) PROVE LinkInv'
    <2>1. job'.pc = "unlink" /\ job'.todo = job.todo \ {r}
      BY <1>8, JobSteps, TypedParts DEF Run, UnlinkOld, At
    <2>2. /\ At("unlink") /\ state' = state /\ leaked' = leaked
          /\ made' = made \ (Standing(state) \cap {r})
          /\ state \in Records
      BY <1>8, TypedParts DEF UnlinkOld, KeepsGhosts, Placed, At
    <2>3. \A q \in Roots \ {r} : link'[q] = link[q]
      BY <1>8, TypedParts DEF UnlinkOld, Unlinked
    <2>4. state.owned \subseteq Roots
      BY <2>2 DEF Records
    <2>5. Standing(state) \ {r} \subseteq Standing(state)'
      BY <2>2, <2>3, <2>4 DEF Standing
    <2>6. made \subseteq leaked \cup (Standing(state) \cap job.todo)
      BY <2>2 DEF LinkInv
    <2>7. made' \subseteq leaked' \cup (Standing(state)' \cap job'.todo)
      BY <2>1, <2>2, <2>5, <2>6
    <2> QED
      BY <2>1, <2>7 DEF LinkInv, At, Changing
  <1>9. ASSUME NEW r \in Roots, MapRoot(r) PROVE LinkInv'
    <2> DEFINE key == KeyFor(r, job.copy)
    <2>0. job.pc = "map"
      BY <1>9 DEF MapRoot, At
    <2>1. job'.pc = "map" /\ job'.op = job.op /\ job'.rec = Recorded(r, key)
      BY <1>9, <2>0, JobSteps, TypedParts DEF Run
    <2>2. /\ At("map") /\ job.op = "install" /\ leaked' = leaked
          /\ made' = IF link[r] = None THEN made \cup {r} ELSE made
          /\ link[r] \in {None, Target(r, job.prefix)}
          /\ job.rec.target \in [Roots -> Targets \cup {None}]
          /\ job.rec.owned \subseteq Roots
      BY <1>9, TypedParts DEF MapRoot, KeepsGhosts, Placed, At, Fits, Records
    <2>3. link'[r] = Target(r, job.prefix) /\ \A q \in Roots \ {r} : link'[q] = link[q]
      BY <1>9, <2>2, TypedParts DEF MapRoot
    <2>4. /\ job'.rec.target[r] = Target(r, job.prefix)
          /\ \A q \in Roots \ {r} : job'.rec.target[q] = job.rec.target[q]
          /\ job'.rec.owned = IF link[r] = None THEN job.rec.owned \cup {r} ELSE job.rec.owned
      BY <2>1, <2>2 DEF Recorded, Owns
    <2>5. Standing(job.rec) \subseteq Standing(job.rec)'
      BY <2>2, <2>3, <2>4 DEF Standing
    <2>6. link[r] = None => r \in Standing(job.rec)'
      BY <2>3, <2>4 DEF Standing
    <2>7. made \subseteq leaked \cup Standing(job.rec)
      BY <2>2 DEF LinkInv, At, Changing
    <2>8. made' \subseteq leaked' \cup Standing(job.rec)'
      BY <2>2, <2>5, <2>6, <2>7
    <2> QED
      BY <2>1, <2>2, <2>8 DEF LinkInv, At, Changing
  <1>10. ASSUME NEW r \in Roots, SeedLook(r) PROVE LinkInv'
    <2>1. job'.pc = "seedWrite" /\ job'.op = job.op /\ job'.rec = job.rec
      BY <1>10, SeedLookJob, TypedParts
    <2>2. job.pc = "seed" /\ UNCHANGED <<link, made, leaked>>
      BY <1>10 DEF SeedLook, OnlyJob, diskVars, ghostVars, At
    <2> QED
      BY <2>1, <2>2 DEF LinkInv, Standing, At, Changing
  <1>11. ASSUME NEW r \in Roots, SeedWrite(r) PROVE LinkInv'
    <2>1. job'.pc = "seed" /\ job'.op = job.op /\ job'.rec = job.rec
      BY <1>11, JobSteps, TypedParts DEF Run
    <2>2. job.pc = "seedWrite" /\ UNCHANGED <<link, made, leaked>>
      BY <1>11 DEF SeedWrite, ghostVars, At
    <2> QED
      BY <2>1, <2>2 DEF LinkInv, Standing, At, Changing
  <1> QED
    BY <1>1, <1>2, <1>3, <1>4, <1>5, <1>6, <1>7, <1>8, <1>9, <1>10, <1>11 DEF Tool

LEMMA ScriptLinks == ASSUME Typed, LinkInv, Script PROVE LinkInv'
  <1>1. ASSUME NEW op \in {"install", "remove"}, NEW p \in Prefixes, Begin(op, p)
        PROVE  LinkInv'
    <2>1. job'.pc = (IF state = None THEN "map" ELSE "undo") /\ job'.op = op
      BY <1>1, JobSteps, TypedParts
    <2>2. /\ UNCHANGED <<link, state, made, leaked>>
          /\ made \subseteq leaked \cup Accounted
      BY <1>1 DEF Begin, diskVars, ghostVars, LinkInv, At
    <2>3. CASE state = None
      BY <2>1, <2>2, <2>3 DEF LinkInv, Accounted, At
    <2>4. CASE state # None
      BY <2>1, <2>2, <2>4 DEF LinkInv, Accounted, Standing, At, Changing
    <2> QED
      BY <2>3, <2>4
  <1>2. CASE CommitAppinfo
    <2>1. job'.pc = "aside" /\ job'.op = job.op /\ job'.rec = job.rec
      BY <1>2, JobSteps, TypedParts DEF Run
    <2>2. job.pc = "commit" /\ UNCHANGED <<link, made, leaked>>
      BY <1>2 DEF CommitAppinfo, ghostVars, At
    <2> QED
      BY <2>1, <2>2 DEF LinkInv, Standing, At, Changing
  <1>3. CASE MoveAside
    <2>1. job.pc = "aside" /\ UNCHANGED <<link, made, leaked>>
      BY <1>3 DEF MoveAside, ghostVars, At
    <2>2. CASE job.op = "remove"
      <3>1. made \subseteq leaked
        BY <2>1, <2>2 DEF LinkInv, Changing
      <3>2. job' = NoJob
        BY <1>3, <2>2 DEF MoveAside
      <3> QED
        BY <2>1, <3>1, <3>2, OverLinks
    <2>3. CASE job.op # "remove"
      <3>1. job'.pc = "name" /\ job'.op = job.op /\ job'.rec = job.rec
        BY <1>3, <2>3, JobSteps, TypedParts DEF Run
      <3> QED
        BY <2>1, <3>1 DEF LinkInv, Standing, At, Changing
    <2> QED
      BY <2>2, <2>3
  <1>4. CASE NameState
    <2>1. job'.pc = "finish" /\ job'.op = job.op /\ job'.rec = job.rec
      BY <1>4, JobSteps, TypedParts DEF Run
    <2>2. job.pc = "name" /\ UNCHANGED <<link, made, leaked>>
      BY <1>4 DEF NameState, ghostVars, At
    <2> QED
      BY <2>1, <2>2 DEF LinkInv, Standing, At, Changing
  <1>5. CASE Finish
    <2>1. /\ job.pc = "finish" /\ UNCHANGED <<link, state, made, leaked>> /\ job' = NoJob
          /\ state = job.rec /\ job.op # "remove" /\ state # None
      BY <1>5, TypedParts, NoneIsNoRecord
      DEF Finish, OnlyJob, diskVars, ghostVars, Placed, At
    <2>2. Accounted' = Standing(job.rec)
      BY <2>1 DEF Accounted, Standing
    <2>3. made \subseteq leaked \cup Standing(job.rec)
      BY <2>1 DEF LinkInv, Changing
    <2> QED
      BY <2>1, <2>2, <2>3, OverLinks
  <1>6. CASE RollBack
    <2>1. job' = NoJob /\ job.pc \in Changing
      BY <1>6 DEF RollBack, Changing
    <2>2. CASE At("finish")
      <3>1. leaked' = leaked \cup job.rec.owned /\ made' \subseteq made
        BY <1>6, <2>2 DEF RollBack
      <3>2. made \subseteq leaked \cup job.rec.owned
        BY <2>1 DEF LinkInv, Standing
      <3>3. made' \subseteq leaked'
        BY <3>1, <3>2
      <3> QED
        BY <2>1, <3>3, OverLinks
    <2>3. CASE ~At("finish")
      <3>1. leaked' = leaked
        BY <1>6, <2>3 DEF RollBack
      <3>2. made' = made \ (IF job.op = "install" THEN Standing(job.rec) ELSE {})
        BY <1>6, <2>3 DEF RollBack
      <3>3. made' \subseteq leaked'
        BY <2>1, <3>1, <3>2, TypedParts DEF LinkInv
      <3> QED
        BY <2>1, <3>3, OverLinks
    <2> QED
      BY <2>2, <2>3
  <1>7. CASE Kill
    <2>1. /\ job' = NoJob /\ made' = made /\ leaked' = leaked \cup (made \ Accounted)
          /\ UNCHANGED <<link, state>>
      BY <1>7 DEF Kill, diskVars
    <2>2. Accounted' = Accounted
      BY <2>1 DEF Accounted, Standing
    <2> QED
      BY <2>1, <2>2, OverLinks
  <1> QED
    BY <1>1, <1>2, <1>3, <1>4, <1>5, <1>6, <1>7 DEF Script

\* Nothing that the links are accounted by changes.
LEMMA SameLinks ==
  ASSUME LinkInv, UNCHANGED <<link, state, made, leaked>>,
         job'.pc = job.pc, job'.op = job.op, job'.todo = job.todo, job'.rec = job.rec
  PROVE  LinkInv'
  <1>1. Accounted' = Accounted /\ Standing(job.rec)' = Standing(job.rec)
        /\ Standing(state)' = Standing(state)
    BY DEF Accounted, Standing
  <1> QED
    BY <1>1 DEF LinkInv, At

LEMMA OthersLinks == ASSUME Typed, LinkInv, Others PROVE LinkInv'
  <1>1. CASE SteamWrites
    BY <1>1, SameLinks DEF SteamWrites
  <1>2. ASSUME NEW r \in Roots, GameSaves(r) PROVE LinkInv'
    BY <1>2, SameLinks, TypedParts DEF GameSaves, ghostVars
  <1>3. ASSUME NEW r \in Roots, NEW to, UserLinks(r, to) PROVE LinkInv'
    <2>1. /\ At("idle") /\ UNCHANGED <<state, job, leaked>> /\ made' = made \ {r}
          /\ \A q \in Roots \ {r} : link'[q] = link[q]
      BY <1>3, TypedParts DEF UserLinks
    <2>2. job' = NoJob
      BY <2>1, TypedParts DEF Placed
    <2>3. state # None => state.owned \subseteq Roots
      BY TypedParts DEF Records
    <2>4. Accounted \ {r} \subseteq Accounted'
      BY <2>1, <2>3 DEF Accounted, Standing
    <2>5. made \subseteq leaked \cup Accounted
      BY <2>1 DEF LinkInv, At
    <2> QED
      BY <2>1, <2>2, <2>4, <2>5, OverLinks
  <1>4. ASSUME NEW t, Redirect(t) PROVE LinkInv'
    BY <1>4, SameLinks DEF Redirect, ghostVars
  <1> QED
    BY <1>1, <1>2, <1>3, <1>4 DEF Others

LEMMA LinkStep == ASSUME Typed, LinkInv, [Next]_vars PROVE LinkInv'
  <1>1. CASE UNCHANGED vars
    BY <1>1, SameLinks DEF vars, diskVars, ghostVars
  <1> QED
    BY <1>1, ToolLinks, ScriptLinks, OthersLinks DEF Next

--------------------------------------------------------------------------------
(* What is the user's and the game's.                                      *)

\* When a run is over only the record of the state file has a claim.
LEMMA OverUsers ==
  ASSUME job' = NoJob, UsersLinksKept', state' # None => Spared(state)'
  PROVE  UserInv'
  <1>1. job'.old = None /\ job'.rec.owned = {}
    BY DEF NoJob, NoRecord
  <1> QED
    BY <1>1 DEF UserInv

\* A step that leaves the links and the records alone.
LEMMA SameUsers ==
  ASSUME UserInv, UNCHANGED <<link, state, users>>,
         job' = NoJob \/ (job'.rec.owned = job.rec.owned /\ job'.old = job.old)
  PROVE  UserInv'
  <1>1. UsersLinksKept' /\ (state' # None => Spared(state)')
    BY DEF UserInv, UsersLinksKept, Spared
  <1>2. CASE job' = NoJob
    BY <1>1, <1>2, OverUsers
  <1>3. CASE job'.rec.owned = job.rec.owned /\ job'.old = job.old
    BY <1>1, <1>3 DEF UserInv, Spared
  <1> QED
    BY <1>2, <1>3

\* Links that go where the user has put none.
LEMMA UsersUnlinked ==
  ASSUME Typed, UserInv, NEW gone, \A r \in gone : users[r] = None,
         link' = Unlinked(gone), users' = users
  PROVE  UsersLinksKept'
  BY TypedParts DEF UserInv, UsersLinksKept, Unlinked

LEMMA UserInit == Init => UserInv
  <1> SUFFICES ASSUME Init PROVE UserInv
    OBVIOUS
  <1>1. job.old = None /\ job.rec.owned = {} /\ state = None
    BY DEF Init, NoJob, NoRecord
  <1>2. UsersLinksKept
    BY DEF Init, UsersLinksKept
  <1> QED
    BY <1>1, <1>2 DEF UserInv

LEMMA ToolUsers == ASSUME Typed, UserInv, Tool PROVE UserInv'
  <1>1. CASE UndoOverrides \/ UnlinkEnd \/ MapEnd \/ InstallFails \/ WriteState \/ UndoFails
    <2>1. UNCHANGED <<link, state, users>>
      BY <1>1
      DEF UndoOverrides, UnlinkEnd, MapEnd, InstallFails, WriteState, UndoFails,
          OnlyJob, diskVars, ghostVars
    <2>2. job' = NoJob \/ (job'.rec = job.rec /\ job'.old = job.old)
      <3>1. CASE UndoOverrides
        BY <3>1, JobSteps, TypedParts DEF Run
      <3>2. CASE UnlinkEnd
        BY <3>2, JobSteps, TypedParts DEF Run
      <3>3. CASE MapEnd
        BY <3>3, JobSteps, TypedParts DEF Run
      <3>4. CASE InstallFails
        BY <3>4, JobSteps, TypedParts DEF Run
      <3>5. CASE WriteState
        BY <3>5, JobSteps, TypedParts DEF Run
      <3>6. CASE UndoFails
        BY <3>6 DEF UndoFails
      <3> QED
        BY <1>1, <3>1, <3>2, <3>3, <3>4, <3>5, <3>6
    <2> QED
      BY <2>1, <2>2, SameUsers
  <1>2. CASE Unmap
    <2>1. \A r \in job.rec.owned : users[r] = None
      BY DEF UserInv
    <2>2. /\ link' = Unlinked(job.rec.owned) /\ users' = users /\ state' = state
          /\ job' = NoJob
      BY <1>2 DEF Unmap, KeepsGhosts
    <2>3. UsersLinksKept'
      BY <2>1, <2>2, UsersUnlinked
    <2>4. state' # None => Spared(state)'
      BY <2>2 DEF UserInv, Spared
    <2> QED
      BY <2>2, <2>3, <2>4, OverUsers
  <1>3. ASSUME NEW r \in Roots, UnlinkOld(r) PROVE UserInv'
    <2>1. job'.rec = job.rec /\ job'.old = job.old
      BY <1>3, JobSteps, TypedParts DEF Run
    <2>2. /\ link' = Unlinked(Standing(state) \cap {r}) /\ users' = users /\ state' = state
          /\ state \in Records /\ state # None
      BY <1>3, TypedParts DEF UnlinkOld, KeepsGhosts, Placed, At
    <2>3. \A q \in Standing(state) : users[q] = None
      <3> SUFFICES ASSUME NEW q \in Standing(state), users[q] # None PROVE FALSE
        OBVIOUS
      <3>1. q \in state.owned /\ link[q] = state.target[q] /\ q \in Roots
        BY <2>2 DEF Standing, Records
      <3>2. link[q] = users[q] /\ users[q] # state.target[q]
        BY <2>2, <3>1 DEF UserInv, UsersLinksKept, Spared
      <3> QED
        BY <3>1, <3>2
    <2>4. UsersLinksKept'
      BY <2>2, <2>3, UsersUnlinked
    <2> QED
      BY <2>1, <2>2, <2>4 DEF UserInv, Spared
  <1>4. ASSUME NEW r \in Roots, MapRoot(r) PROVE UserInv'
    <2> DEFINE key == KeyFor(r, job.copy)
    <2>1. job'.rec = Recorded(r, key) /\ job'.old = job.old
      BY <1>4, JobSteps, TypedParts DEF Run
    <2>2. /\ UNCHANGED <<state, users>>
          /\ link' = [link EXCEPT ![r] = IF @ = None THEN Target(r, job.prefix) ELSE @]
      BY <1>4 DEF MapRoot, KeepsGhosts
    <2>3. UsersLinksKept'
      BY <2>2, TypedParts DEF UserInv, UsersLinksKept
    <2>4. job'.rec.owned = IF link[r] = None THEN job.rec.owned \cup {r} ELSE job.rec.owned
      BY <2>1 DEF Recorded, Owns
    <2>5. \A q \in job'.rec.owned : users[q] = None
      BY <2>4 DEF UserInv, UsersLinksKept
    <2> QED
      BY <2>1, <2>2, <2>3, <2>5 DEF UserInv, Spared
  <1>5. ASSUME NEW r \in Roots, SeedLook(r) PROVE UserInv'
    BY <1>5, SeedLookJob, TypedParts, SameUsers DEF SeedLook, OnlyJob, diskVars, ghostVars
  <1>6. ASSUME NEW r \in Roots, SeedWrite(r) PROVE UserInv'
    <2>1. job'.rec = job.rec /\ job'.old = job.old
      BY <1>6, JobSteps, TypedParts DEF Run
    <2> QED
      BY <1>6, <2>1, SameUsers DEF SeedWrite, ghostVars
  <1> QED
    BY <1>1, <1>2, <1>3, <1>4, <1>5, <1>6 DEF Tool

LEMMA ScriptUsers == ASSUME Typed, UserInv, Script PROVE UserInv'
  <1>1. ASSUME NEW op \in {"install", "remove"}, NEW p \in Prefixes, Begin(op, p)
        PROVE  UserInv'
    <2>1. job'.rec = NoRecord /\ job'.old = None
      BY <1>1, JobSteps, TypedParts
    <2>2. UNCHANGED <<link, state, users>>
      BY <1>1 DEF Begin, diskVars, ghostVars
    <2>3. job'.rec.owned = {}
      BY <2>1 DEF NoRecord
    <2> QED
      BY <2>1, <2>2, <2>3 DEF UserInv, UsersLinksKept, Spared
  <1>2. CASE CommitAppinfo
    <2>1. job'.rec = job.rec /\ job'.old = job.old
      BY <1>2, JobSteps, TypedParts DEF Run
    <2> QED
      BY <1>2, <2>1, SameUsers DEF CommitAppinfo, ghostVars
  <1>3. CASE MoveAside
    <2>1. state' = None /\ UNCHANGED <<link, users>>
      BY <1>3 DEF MoveAside, ghostVars
    <2>2. UsersLinksKept'
      BY <2>1 DEF UserInv, UsersLinksKept
    <2>3. CASE job' = NoJob
      BY <2>1, <2>2, <2>3, OverUsers
    <2>4. CASE job' # NoJob
      <3>1. job'.rec = job.rec /\ job'.old = state
        BY <1>3, <2>4, JobSteps, TypedParts DEF Run
      <3> QED
        BY <2>1, <2>2, <3>1 DEF UserInv, Spared
    <2> QED
      BY <2>3, <2>4
  <1>4. CASE NameState
    <2>1. job'.rec = job.rec /\ job'.old = job.old
      BY <1>4, JobSteps, TypedParts DEF Run
    <2>2. state' = job.rec /\ UNCHANGED <<link, users>>
      BY <1>4 DEF NameState, ghostVars
    <2>3. Spared(state)'
      BY <2>2 DEF UserInv, Spared
    <2> QED
      BY <2>1, <2>2, <2>3 DEF UserInv, UsersLinksKept, Spared
  <1>5. CASE Finish
    BY <1>5, SameUsers DEF Finish, OnlyJob, diskVars, ghostVars
  <1>6. CASE RollBack
    <2> DEFINE undone == IF job.op = "install" /\ ~At("finish") THEN Standing(job.rec) ELSE {}
    <2>1. \A r \in undone : users[r] = None
      BY DEF UserInv, Standing
    <2>2. /\ link' = Unlinked(undone) /\ users' = users /\ job' = NoJob
          /\ state' = IF job.pc \in {"name", "finish"} THEN job.old ELSE state
      BY <1>6 DEF RollBack
    <2> HIDE DEF undone
    <2>3. UsersLinksKept'
      BY <2>1, <2>2, UsersUnlinked
    <2>4. state' # None => Spared(state)'
      BY <2>2 DEF UserInv, Spared
    <2> QED
      BY <2>2, <2>3, <2>4, OverUsers
  <1>7. CASE Kill
    BY <1>7, SameUsers DEF Kill, diskVars
  <1> QED
    BY <1>1, <1>2, <1>3, <1>4, <1>5, <1>6, <1>7 DEF Script

LEMMA OthersUsers == ASSUME Typed, UserInv, Others PROVE UserInv'
  <1>1. CASE SteamWrites
    BY <1>1, SameUsers DEF SteamWrites
  <1>2. ASSUME NEW r \in Roots, GameSaves(r) PROVE UserInv'
    BY <1>2, SameUsers, TypedParts DEF GameSaves, ghostVars
  <1>3. ASSUME NEW r \in Roots, NEW to, UserLinks(r, to) PROVE UserInv'
    <2>1. /\ UNCHANGED <<state, job>> /\ At("idle")
          /\ link' = [link EXCEPT ![r] = to]
          /\ users' = [users EXCEPT ![r] = IF Claimed(r, to) THEN None ELSE to]
      BY <1>3 DEF UserLinks
    <2>2. job' = NoJob
      BY <2>1, TypedParts DEF Placed
    <2>3. UsersLinksKept'
      BY <2>1, TypedParts DEF UserInv, UsersLinksKept
    <2>4. ASSUME state # None PROVE Spared(state)'
      <3>1. state \in Records /\ state.owned \subseteq Roots
        BY <2>4, TypedParts DEF Records
      <3>2. Spared(state)
        BY <2>4 DEF UserInv
      <3>3. ASSUME NEW q \in state.owned, users'[q] # None PROVE users'[q] # state.target[q]
        <4>1. CASE q = r
          BY <2>1, <2>4, <3>1, <3>3, <4>1, TypedParts DEF Claimed
        <4>2. CASE q # r
          BY <2>1, <3>1, <3>2, <3>3, <4>2, TypedParts DEF Spared
        <4> QED
          BY <4>1, <4>2
      <3> QED
        BY <2>1, <3>3 DEF Spared
    <2> QED
      BY <2>1, <2>2, <2>3, <2>4, OverUsers
  <1>4. ASSUME NEW t, Redirect(t) PROVE UserInv'
    BY <1>4, SameUsers DEF Redirect, ghostVars
  <1> QED
    BY <1>1, <1>2, <1>3, <1>4 DEF Others

LEMMA UserStep == ASSUME Typed, UserInv, [Next]_vars PROVE UserInv'
  <1>1. CASE UNCHANGED vars
    BY <1>1, SameUsers DEF vars, diskVars, ghostVars
  <1> QED
    BY <1>1, ToolUsers, ScriptUsers, OthersUsers DEF Next

--------------------------------------------------------------------------------
(* Theorems.                                                               *)

IInv == Typed /\ TableInv /\ LinkInv /\ UserInv

LEMMA IInvHolds == Spec => []IInv
  <1>1. Init => IInv
    <2> SUFFICES ASSUME Init PROVE IInv
      OBVIOUS
    <2>1. At("idle") /\ made = {}
      BY DEF Init, NoJob, At
    <2>2. LinkInv
      BY <2>1 DEF LinkInv, At
    <2> QED
      BY <2>2, TypedInit, TableInit, UserInit DEF IInv
  <1>2. IInv /\ [Next]_vars => IInv'
    <2> SUFFICES ASSUME IInv, [Next]_vars PROVE IInv'
      OBVIOUS
    <2>1. RecordMatches
      BY DEF IInv, TableInv
    <2> QED
      BY <2>1, TypedStep, TableStep, LinkStep, UserStep DEF IInv
  <1> QED
    BY <1>1, <1>2, PTL DEF Spec

\* Overrides, links, folders, the state file and the record of a run are of
\* their types throughout, and a state file gives each root a key of its own.
THEOREM CloudTypes == Spec => []TypeOK
  <1>1. IInv => TypeOK
    BY DEF IInv, Typed
  <1> QED
    BY <1>1, IInvHolds, PTL

\* restore gives Steam its overrides back exactly, whatever installs, removes,
\* errors and kills came before, unless a kill took the state file.
THEOREM RestoreGivesBackSteams == Spec => []RestoreIsExact
  <1>1. IInv => RestoreIsExact
    <2> SUFFICES ASSUME IInv, At("idle"), ~torn
                 PROVE  IF state = None THEN overrides = published
                        ELSE Restorable(state, overrides) => Restored(state, overrides) = published
      BY DEF RestoreIsExact
    <2>1. Exact(state, overrides, published)
      BY DEF IInv, TableInv, ExactNow, At
    <2> QED
      BY <2>1 DEF Exact
  <1> QED
    BY <1>1, IInvHolds, PTL

\* Between runs the state file accounts for every link that the tool made, but
\* for those lost in a kill, an interrupt or an error after its renaming.
THEOREM NoLinkIsForgotten == Spec => []LinksAccounted
  <1>1. IInv => LinksAccounted
    BY DEF IInv, LinkInv, LinksAccounted, At
  <1> QED
    BY <1>1, IInvHolds, PTL

\* No install, remove, error or kill changes what the user put where a link of
\* the tool would go.
THEOREM UsersLinksStay == Spec => []UsersLinksKept
  <1>1. IInv => UsersLinksKept
    BY DEF IInv, UserInv
  <1> QED
    BY <1>1, IInvHolds, PTL
================================================================================
