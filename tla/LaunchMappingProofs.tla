-------------------------- MODULE LaunchMappingProofs --------------------------
(***************************************************************************)
(* Proofs about LaunchMapping, for every set of launch options, of         *)
(* published executables, and every bound.                                 *)
(***************************************************************************)
EXTENDS LaunchMapping, TLAPS

--------------------------------------------------------------------------------
(* The inductive invariant.                                                *)

\* Steam publishes neither a launcher nor the marker of a hidden option.
SteamPublishes ==
  \A e \in Entries : pub.exe[e] # Launcher /\ pub.config[e] # "hidden"

\* Each field is as Steam wrote it, or Ullage's own, with the field of Steam in
\* the state.
FieldsAccounted ==
  ~overrun =>
    /\ state = NoState => rec = pub
    /\ state \in State => \A e \in Entries :
         /\ \/ rec.exe[e] = pub.exe[e]
            \/ e \in state.map /\ rec.exe[e] = Launcher /\ state.exe[e] = pub.exe[e]
         /\ \/ rec.config[e] = pub.config[e]
            \/ /\ e \in state.hid
               /\ rec.config[e] = "hidden"
               /\ state.config[e] = pub.config[e]

Inspected == job.pc \in {"guard", "backup", "copy", "replace"}

\* What a repair takes on is stale, and what it has copied is what it saw.
WorkIsStale ==
  /\ Inspected /\ ~job.force =>
       \A e \in job.want.map : job.seen[e] \in {Launcher, job.want.exe[e], Absent}
  /\ job.pc = "replace" =>
       \A e \in job.want.map :
         /\ job.copy.exe[e] # Absent
         /\ job.copy.exe[e] = job.seen[e] \/ Unchecked(e)

\* What a look that nobody came after says is still so.
LooksHold ==
  /\ Inspected /\ "mapping" \in fresh => state = job.want /\ Complete
  /\ job.pc # "idle" /\ "steam" \in fresh =>
       /\ job.pc # "look" => ~steam
       /\ job.pc \in {"copy", "replace"} => job.backup = rec
       /\ job.pc = "replace" => job.copy = rec

IInv == TypeOK /\ SteamPublishes /\ FieldsAccounted /\ WorkIsStale /\ LooksHold

--------------------------------------------------------------------------------
(* The operators.                                                          *)

\* The parts of a record.
LEMMA RecordFields ==
  ASSUME NEW r \in Record
  PROVE  r.exe \in [Entries -> Exe] /\ r.config \in [Entries -> Config]
  BY DEF Record

\* Two records with the same fields for every option are equal.
LEMMA RecordEqual ==
  ASSUME NEW r \in Record, NEW s \in Record,
         \A e \in Entries : r.exe[e] = s.exe[e] /\ r.config[e] = s.config[e]
  PROVE  r = s
  <1>1. r.exe = s.exe /\ r.config = s.config
    BY DEF Record
  <1> QED BY <1>1 DEF Record

\* A state has the fields of a state.
LEMMA StateFields ==
  ASSUME NEW st \in State
  PROVE  /\ st.map \subseteq Entries /\ st.hid \subseteq Entries
         /\ st.exe \in [Entries -> Exe] /\ st.config \in [Entries -> Config]
  BY DEF State

--------------------------------------------------------------------------------
(* Types.                                                                  *)

\* What the editor writes is a record, and what it records a state.
LEMMA EditorTypes ==
  ASSUME NEW r \in Record, NEW usable \in Usable(r),
         NEW map \in Maps(usable)
  PROVE  /\ Patched(r, map, usable) \in Record
         /\ PatchState(r, map, usable) \in State
         /\ map \subseteq Entries
  <1>1. usable \subseteq Entries /\ usable # {}
    BY DEF Usable, Mappable, Windows
  <1>2. map \subseteq Entries /\ map # {}
    BY <1>1 DEF Maps
  <1>3. Launcher \in Exe /\ "hidden" \in Config
    BY DEF Exe, Config
  <1>4. With(r.exe, map, Launcher) \in [Entries -> Exe]
    BY <1>3, RecordFields DEF With
  <1>5. With(r.config, Windows(r) \ usable, "hidden") \in [Entries -> Config]
    BY <1>3, RecordFields DEF With
  <1>6. Patched(r, map, usable) \in Record
    BY <1>4, <1>5 DEF Patched, Record
  <1>7. PatchState(r, map, usable) \in State
    BY <1>2 DEF PatchState, State, Windows, Record
  <1> QED BY <1>2, <1>6, <1>7

\* A restored record is a record.
LEMMA RestoredType ==
  ASSUME NEW st \in State, NEW r \in Record
  PROVE  Restored(st, r) \in Record
  <1>1. Merge(r.exe, st.map, st.exe) \in [Entries -> Exe]
    BY RecordFields, StateFields DEF Merge
  <1>2. Merge(r.config, st.hid, st.config) \in [Entries -> Config]
    BY RecordFields, StateFields DEF Merge
  <1> QED BY <1>1, <1>2 DEF Restored, Record

\* No repair is a job.
LEMMA NoJobType == NoJob \in Job
  <1>1. Native(Absent) \in Record
    BY DEF Native, Record, Exe, Config
  <1> QED BY <1>1 DEF NoJob, Job, Record

\* The record that an install begins with, the old mapping undone.
Base == IF state \in State THEN Restored(state, rec) ELSE rec

\* Every step keeps the types.
LEMMA TypePreserved ==
  ASSUME TypeOK, [Next]_vars
  PROVE  TypeOK'
  <1> USE LaunchAssumption DEF TypeOK, launchVars, boundVars, At, Stay, Ended
  <1>0. NoJob \in Job /\ NoJob.pc = "idle"
    BY NoJobType DEF NoJob
  <1>1. ASSUME NEW t \in {"repair", "reconcile", "direct"}, NEW f \in BOOLEAN,
               RepairBegin(t, f)
        PROVE  TypeOK'
    <2>1. job' \in Job /\ job'.pc \in {"inspect", "look"}
      BY <1>0, <1>1 DEF RepairBegin, Job, NoJob
    <2> QED BY <1>1, <2>1 DEF RepairBegin
  <1>2. CASE Look
    <2>1. job' \in Job /\ job'.pc \in {"inspect", "idle"}
      BY <1>0, <1>2 DEF Look, Job
    <2> QED BY <1>2, <2>1 DEF Look
  <1>3. CASE Inspect
    <2>1. CASE Wanted /\ Complete
      <3>1. state \in State
        BY <2>1 DEF Wanted, Status
      <3>2. rec.exe \in [Entries -> Exe]
        BY RecordFields
      <3>3. job' = [job EXCEPT
                     !.pc = IF job.tool = "reconcile" THEN "backup" ELSE "guard",
                     !.want = state, !.seen = rec.exe]
        BY <1>3, <2>1 DEF Inspect
      <3>4. job' \in Job /\ job'.want \in State
        BY <3>1, <3>2, <3>3 DEF Job
      <3> QED BY <1>3, <3>4 DEF Inspect
    <2>2. CASE ~(Wanted /\ Complete)
      BY <1>0, <1>3, <2>2 DEF Inspect
    <2> QED BY <2>1, <2>2
  <1>4. CASE Guard
    <2>1. job' \in Job /\ (job'.pc = "idle" \/ job'.want = job.want)
      BY <1>0, <1>4 DEF Guard, Job
    <2> QED BY <1>0, <1>4, <2>1 DEF Guard
  <1>5. CASE BackUp
    <2>1. job' \in Job /\ job'.want = job.want
      BY <1>5 DEF BackUp, Job
    <2> QED BY <1>5, <2>1 DEF BackUp
  <1>6. CASE Copy
    <2>1. job' \in Job /\ job'.want = job.want
      BY <1>6 DEF Copy, Job
    <2> QED BY <1>6, <2>1 DEF Copy
  <1>7. CASE Replace
    <2>1. job.copy \in Record /\ job.want \in State
      BY <1>7 DEF Replace, Job
    <2>2. Launcher \in Exe
      BY DEF Exe
    <2>3. With(job.copy.exe, job.want.map, Launcher) \in [Entries -> Exe]
      BY <2>1, <2>2, RecordFields DEF With
    <2>4. Edited \in Record
      BY <2>1, <2>3 DEF Edited, Record
    <2> QED BY <1>0, <1>7, <2>4 DEF Replace
  <1>8. CASE Stop
    BY <1>0, <1>8 DEF Stop
  <1>9. CASE Install
    <2>1. Base \in Record
      BY RestoredType DEF Base
    <2>2. PICK usable \in Usable(Base) : \E map \in Maps(usable) :
            /\ rec' = Patched(Base, map, usable)
            /\ state' = PatchState(Base, map, usable)
            /\ generated' = {ConfigFile} \cup map
      BY <1>9 DEF Install, Base
    <2>5. PICK map \in Maps(usable) :
            /\ rec' = Patched(Base, map, usable)
            /\ state' = PatchState(Base, map, usable)
            /\ generated' = {ConfigFile} \cup map
      BY <2>2
    <2>3. rec' \in Record /\ state' \in State /\ map \subseteq Entries
      BY <2>1, <2>5, EditorTypes
    <2>4. Operation
      BY <1>9 DEF Install
    <2> QED BY <2>5, <2>3, <2>4 DEF Operation, Outside
  <1>10. CASE Remove
    <2>1. rec' \in Record
      BY <1>10, RestoredType DEF Remove
    <2> QED BY <1>10, <2>1 DEF Remove, Operation, Outside
  <1>11. CASE SteamStart
    BY <1>11 DEF SteamStart, Outside
  <1>12. CASE SteamStop
    BY <1>12 DEF SteamStop, Outside
  <1>13. CASE SteamWrite
    <2>1. PICK S \in SUBSET Entries, v \in Published \cup {Absent},
               c \in {"plain", "changed"} :
       /\ rec' = [exe |-> With(rec.exe, S, v), config |-> With(rec.config, S, c)]
       /\ pub' = [exe |-> With(pub.exe, S, v), config |-> With(pub.config, S, c)]
      BY <1>13 DEF SteamWrite
    <2>2. v \in Exe /\ c \in Config
      BY DEF Exe, Config
    <2>3. rec' \in Record
      <3>1. /\ With(rec.exe, S, v) \in [Entries -> Exe]
            /\ With(rec.config, S, c) \in [Entries -> Config]
        BY <2>2, RecordFields DEF With
      <3> QED BY <2>1, <3>1 DEF Record
    <2>4. pub' \in Record
      <3>1. /\ With(pub.exe, S, v) \in [Entries -> Exe]
            /\ With(pub.config, S, c) \in [Entries -> Config]
        BY <2>2, RecordFields DEF With
      <3> QED BY <2>1, <3>1 DEF Record
    <2> QED BY <1>13, <2>3, <2>4 DEF SteamWrite, Outside
  <1>14. CASE Lose
    BY <1>14 DEF Lose, Outside
  <1>15. CASE UNCHANGED vars
    BY <1>15 DEF vars
  <1> QED
    BY <1>1, <1>2, <1>3, <1>4, <1>5, <1>6, <1>7, <1>8, <1>9, <1>10, <1>11, <1>12,
       <1>13, <1>14, <1>15 DEF Next, Repair

--------------------------------------------------------------------------------
(* The record and the state.                                               *)

\* A mapping that restore_state accepts gives Steam's own record back.
LEMMA UndoIsPublished ==
  ASSUME TypeOK, SteamPublishes, FieldsAccounted, ~overrun,
         state \in State, Restorable(state, rec)
  PROVE  Restored(state, rec) = pub
  <1>1. Restored(state, rec) \in Record
    BY RestoredType DEF TypeOK
  <1>2. ASSUME NEW e \in Entries
        PROVE  /\ Restored(state, rec).exe[e] = pub.exe[e]
               /\ Restored(state, rec).config[e] = pub.config[e]
    <2>1. /\ e \in state.map => rec.exe[e] \in {state.exe[e], Launcher}
          /\ e \in state.hid => rec.config[e] \in {state.config[e], "hidden"}
      BY DEF Restorable
    <2>2. /\ \/ rec.exe[e] = pub.exe[e]
             \/ e \in state.map /\ rec.exe[e] = Launcher /\ state.exe[e] = pub.exe[e]
          /\ \/ rec.config[e] = pub.config[e]
             \/ /\ e \in state.hid
                /\ rec.config[e] = "hidden"
                /\ state.config[e] = pub.config[e]
      BY <1>2 DEF FieldsAccounted
    <2>3. pub.exe[e] # Launcher /\ pub.config[e] # "hidden"
      BY <1>2 DEF SteamPublishes
    <2> QED BY <1>2, <2>1, <2>2, <2>3 DEF Restored, Merge
  <1> QED BY <1>1, <1>2, RecordEqual DEF TypeOK

\* The invariant gives the property.
LEMMA UndoFollows ==
  ASSUME IInv PROVE UndoGivesPublished
  BY UndoIsPublished DEF IInv, UndoGivesPublished, FieldsAccounted

\* Steam publishes only what it publishes.
LEMMA SteamPreserved ==
  ASSUME TypeOK, SteamPublishes, [Next]_vars
  PROVE  SteamPublishes'
  <1>1. CASE SteamWrite
    <2>1. PICK S \in SUBSET Entries, v \in Published \cup {Absent},
               c \in {"plain", "changed"} :
            pub' = [exe |-> With(pub.exe, S, v), config |-> With(pub.config, S, c)]
      BY <1>1 DEF SteamWrite
    <2>2. v # Launcher /\ c # "hidden"
      BY LaunchAssumption
    <2>3. ASSUME NEW e \in Entries
          PROVE  pub'.exe[e] # Launcher /\ pub'.config[e] # "hidden"
      BY <2>1, <2>2, <2>3 DEF With, SteamPublishes
    <2> QED BY <2>3 DEF SteamPublishes
  <1>2. CASE UNCHANGED pub
    BY <1>2 DEF SteamPublishes
  <1>3. SteamWrite \/ UNCHANGED pub
    BY DEF Next, Repair, RepairBegin, Look, Inspect, Guard, BackUp, Copy, Replace,
       Stop, Stay, Install, Remove, Operation, SteamStart, SteamStop, Lose, vars
  <1> QED BY <1>1, <1>2, <1>3

\* Every step keeps the fields accounted for; a repair, because what it takes
\* back is what it saw.
LEMMA FieldsPreserved ==
  ASSUME IInv, [Next]_vars
  PROVE  FieldsAccounted'
  <1> USE DEF IInv
  <1>1. CASE Replace /\ ~overrun'
    <2> USE <1>1 DEF Replace, At
    <2>1. /\ ~overrun /\ ~job.force /\ rec = job.copy /\ state = job.want
          /\ \A e \in job.want.map : ~Unchecked(e)
      BY DEF Unseen
    <2>2. job.want \in State /\ state' = state /\ pub' = pub
      BY DEF TypeOK
    <2>3. rec' = [rec EXCEPT !.exe = With(rec.exe, state.map, Launcher)]
      BY <2>1 DEF Edited
    <2>4. rec \in Record /\ state.map \subseteq Entries
      BY <2>1, <2>2, StateFields DEF TypeOK
    <2>5. ASSUME NEW e \in Entries
          PROVE  /\ rec'.exe[e] = IF e \in state.map THEN Launcher ELSE rec.exe[e]
                 /\ rec'.config[e] = rec.config[e]
      BY <2>3, <2>4, <2>5 DEF Record, With
    <2>6. ASSUME NEW e \in Entries, e \in state.map
          PROVE  Launcher = pub.exe[e] \/ state.exe[e] = pub.exe[e]
      <3>1. rec.exe[e] \in {Launcher, state.exe[e]}
        BY <2>1, <2>6 DEF WorkIsStale, Inspected
      <3> QED BY <2>1, <2>2, <2>6, <3>1 DEF FieldsAccounted
    <2> QED
      BY <2>1, <2>2, <2>5, <2>6, LaunchAssumption DEF FieldsAccounted
  <1>2. CASE Install /\ ~overrun'
    <2> USE <1>2 DEF Install, Operation, Outside
    <2>1. ~overrun /\ pub' = pub
      OBVIOUS
    <2>2. Base = pub
      <3>1. CASE state \in State
        BY <2>1, <3>1, UndoIsPublished DEF Base
      <3>2. CASE state = NoState
        BY <2>1, <3>2, LaunchAssumption DEF Base, FieldsAccounted
      <3> QED BY <3>1, <3>2 DEF TypeOK
    <2>3. PICK usable \in Usable(Base) : \E map \in Maps(usable) :
            rec' = Patched(Base, map, usable) /\ state' = PatchState(Base, map, usable)
      BY DEF Base
    <2>4. PICK map \in Maps(usable) :
            rec' = Patched(pub, map, usable) /\ state' = PatchState(pub, map, usable)
      BY <2>2, <2>3
    <2>5. state' \in State
      BY <2>2, <2>4, EditorTypes DEF TypeOK
    <2>6. ASSUME NEW e \in Entries
          PROVE  /\ \/ rec'.exe[e] = pub.exe[e]
                    \/ /\ e \in state'.map
                       /\ rec'.exe[e] = Launcher
                       /\ state'.exe[e] = pub.exe[e]
                 /\ \/ rec'.config[e] = pub.config[e]
                    \/ /\ e \in state'.hid
                       /\ rec'.config[e] = "hidden"
                       /\ state'.config[e] = pub.config[e]
      BY <2>4, <2>6 DEF Patched, PatchState, With
    <2> QED BY <2>1, <2>5, <2>6, LaunchAssumption DEF FieldsAccounted
  <1>3. CASE Remove /\ ~overrun'
    <2>1. rec' = pub' /\ state' = NoState
      BY <1>3, UndoIsPublished DEF Remove, Operation, Outside
    <2> QED BY <2>1, LaunchAssumption DEF FieldsAccounted
  <1>4. CASE SteamWrite /\ ~overrun'
    <2> USE <1>4 DEF SteamWrite, Outside
    <2>1. PICK S \in SUBSET Entries, v \in Published \cup {Absent},
               c \in {"plain", "changed"} :
       /\ rec' = [exe |-> With(rec.exe, S, v), config |-> With(rec.config, S, c)]
       /\ pub' = [exe |-> With(pub.exe, S, v), config |-> With(pub.config, S, c)]
      OBVIOUS
    <2>2. state' = state /\ ~overrun
      OBVIOUS
    <2>3. ASSUME NEW e \in Entries
          PROVE  /\ rec'.exe[e] = IF e \in S THEN v ELSE rec.exe[e]
                 /\ pub'.exe[e] = IF e \in S THEN v ELSE pub.exe[e]
                 /\ rec'.config[e] = IF e \in S THEN c ELSE rec.config[e]
                 /\ pub'.config[e] = IF e \in S THEN c ELSE pub.config[e]
      BY <2>1, <2>3 DEF With
    <2>4. CASE state = NoState
      BY <2>1, <2>2, <2>4, LaunchAssumption DEF FieldsAccounted
    <2>5. CASE state \in State
      BY <2>2, <2>3, <2>5, LaunchAssumption DEF FieldsAccounted
    <2>6. CASE state = BadState
      BY <2>2, <2>6, LaunchAssumption DEF FieldsAccounted
    <2> QED BY <2>4, <2>5, <2>6 DEF TypeOK
  <1>5. CASE Lose
    BY <1>5, LaunchAssumption DEF Lose, Outside, FieldsAccounted
  <1>6. CASE UNCHANGED <<rec, state, pub, overrun>>
    BY <1>6 DEF FieldsAccounted
  <1>7. CASE overrun'
    BY <1>7 DEF FieldsAccounted
  <1>8. \/ Replace \/ Install \/ Remove \/ SteamWrite \/ Lose
        \/ UNCHANGED <<rec, state, pub, overrun>>
    BY DEF Next, Repair, RepairBegin, Look, Inspect, Guard, BackUp, Copy, Stop, Stay,
       launchVars, SteamStart, SteamStop, Outside, vars
  <1> QED BY <1>1, <1>2, <1>3, <1>4, <1>5, <1>6, <1>7, <1>8

--------------------------------------------------------------------------------
(* The repair.                                                             *)

\* A status that a repair takes on says where the entries are.
LEMMA StatusMeans ==
  ASSUME TypeOK
  PROVE  /\ Status \in {"stale", "foreign"} => state \in State
         /\ Status = "stale" =>
              \A e \in state.map : rec.exe[e] \in {Launcher, state.exe[e], Absent}
  <1>1. Status \in {"stale", "foreign"} => state \in State
    BY DEF Status, TypeOK
  <1>2. Status = "stale" => Foreign(state) = {}
    BY DEF Status
  <1> QED BY <1>1, <1>2 DEF Foreign

\* What a repair works on stays what it inspected.
LEMMA WorkPreserved ==
  ASSUME TypeOK, WorkIsStale, [Next]_vars
  PROVE  WorkIsStale'
  <1> USE DEF TypeOK, WorkIsStale, Inspected, Unchecked, At
  <1>0. NoJob.pc = "idle"
    BY DEF NoJob
  <1>1. ASSUME NEW t \in {"repair", "reconcile", "direct"}, NEW f \in BOOLEAN,
               RepairBegin(t, f)
        PROVE  WorkIsStale'
    <2>1. job'.pc \in {"inspect", "look"}
      BY <1>1 DEF RepairBegin, NoJob
    <2> QED BY <2>1
  <1>2. CASE Look
    <2>1. job'.pc \in {"inspect", "idle"}
      BY <1>0, <1>2 DEF Look, Ended, Job
    <2> QED BY <2>1
  <1>3. CASE Inspect
    <2>1. CASE Wanted /\ Complete
      <3>1. job' = [job EXCEPT
                     !.pc = IF job.tool = "reconcile" THEN "backup" ELSE "guard",
                     !.want = state, !.seen = rec.exe]
        BY <1>3, <2>1 DEF Inspect
      <3>2. /\ job'.pc \in {"backup", "guard"}
            /\ job'.want = state /\ job'.seen = rec.exe /\ job'.force = job.force
        BY <3>1 DEF Job
      <3>3. ~job.force => Status = "stale"
        BY <2>1 DEF Wanted
      <3> QED BY <3>2, <3>3, StatusMeans
    <2>2. CASE ~(Wanted /\ Complete)
      BY <1>0, <1>3, <2>2 DEF Inspect, Ended
    <2> QED BY <2>1, <2>2
  <1>4. CASE Guard
    <2>1. CASE steam
      BY <1>0, <1>4, <2>1 DEF Guard, Ended
    <2>2. CASE ~steam
      <3>1. job' = [job EXCEPT !.pc = "backup"]
        BY <1>4, <2>2 DEF Guard
      <3> QED BY <1>4, <3>1 DEF Guard, Job
    <2> QED BY <2>1, <2>2
  <1>5. CASE BackUp
    <2>1. job' = [job EXCEPT !.pc = "copy", !.backup = rec]
      BY <1>5 DEF BackUp
    <2> QED BY <1>5, <2>1 DEF BackUp, Job
  <1>6. CASE Copy
    <2>1. job' = [job EXCEPT !.pc = "replace", !.copy = rec]
      BY <1>6 DEF Copy
    <2>2. /\ job'.copy = rec /\ job'.want = job.want /\ job'.seen = job.seen
          /\ job'.force = job.force
      BY <2>1 DEF Job
    <2> QED BY <1>6, <2>2 DEF Copy, Expected
  <1>7. CASE job' = NoJob
    BY <1>0, <1>7
  <1>8. CASE UNCHANGED job
    BY <1>8
  <1>9. \/ \E t \in {"repair", "reconcile", "direct"}, f \in BOOLEAN : RepairBegin(t, f)
        \/ Look \/ Inspect \/ Guard \/ BackUp \/ Copy \/ job' = NoJob
        \/ UNCHANGED job
    BY DEF Next, Repair, Replace, Stop, Ended, Install, Remove, Operation, SteamStart,
       SteamStop, SteamWrite, Lose, Outside, vars
  <1> QED BY <1>1, <1>2, <1>3, <1>4, <1>5, <1>6, <1>7, <1>8, <1>9

\* A look that nobody came after holds until the repair ends.
LEMMA LooksPreserved ==
  ASSUME TypeOK, LooksHold, [Next]_vars
  PROVE  LooksHold'
  <1> USE DEF TypeOK, LooksHold, Inspected, At
  <1>0. NoJob.pc = "idle"
    BY DEF NoJob
  <1>1. CASE job' = NoJob
    BY <1>0, <1>1
  <1>2. CASE fresh' = {}
    BY <1>2
  <1>3. CASE Look /\ job' # NoJob
    <2>1. job' = [job EXCEPT !.pc = "inspect"] /\ ~steam /\ fresh' = {"steam"}
      BY <1>3 DEF Look, Ended
    <2> QED BY <1>3, <2>1 DEF Look, Stay, Job
  <1>4. CASE Inspect /\ job' # NoJob
    <2>1. Complete
      BY <1>4 DEF Inspect, Ended
    <2>2. job' = [job EXCEPT
                   !.pc = IF job.tool = "reconcile" THEN "backup" ELSE "guard",
                   !.want = state, !.seen = rec.exe]
      BY <1>4 DEF Inspect, Ended
    <2>3. job'.want = state /\ job'.pc \in {"backup", "guard"}
      BY <2>2 DEF Job
    <2> QED BY <1>4, <2>1, <2>3 DEF Inspect, Stay, launchVars, Complete
  <1>5. CASE Guard /\ job' # NoJob
    <2>1. job' = [job EXCEPT !.pc = "backup"] /\ ~steam
      BY <1>5 DEF Guard, Ended
    <2> QED BY <1>5, <2>1 DEF Guard, Stay, launchVars, Complete, Job
  <1>6. CASE BackUp
    <2>1. job' = [job EXCEPT !.pc = "copy", !.backup = rec]
      BY <1>6 DEF BackUp
    <2> QED BY <1>6, <2>1 DEF BackUp, Stay, launchVars, Complete, Job
  <1>7. CASE Copy
    <2>1. job' = [job EXCEPT !.pc = "replace", !.copy = rec]
      BY <1>7 DEF Copy
    <2> QED BY <1>7, <2>1 DEF Copy, Stay, launchVars, Complete, Job
  <1>8. CASE UNCHANGED vars
    BY <1>8 DEF vars, launchVars, Complete
  <1>9. \/ job' = NoJob \/ fresh' = {} \/ Look \/ Inspect \/ Guard \/ BackUp \/ Copy
        \/ UNCHANGED vars
    BY DEF Next, Repair, RepairBegin, Replace, Stop, Ended, Install, Remove, Operation,
       SteamStart, SteamStop, SteamWrite, Lose, Outside
  <1> QED BY <1>1, <1>2, <1>3, <1>4, <1>5, <1>6, <1>7, <1>8, <1>9

--------------------------------------------------------------------------------
(* The theorems.                                                           *)

\* The inductive invariant holds in the initial states.
LEMMA InitHolds == Init => IInv
  <1> SUFFICES ASSUME Init PROVE IInv
    OBVIOUS
  <1> USE LaunchAssumption DEF Init
  <1>1. TypeOK
    <2>1. rec \in Record
      BY DEF Native, Record, Exe, Config
    <2>2. NoJob.pc = "idle"
      BY DEF NoJob
    <2>3. ops \in 0..MaxOps /\ writes \in 0..MaxWrites /\ faults \in 0..MaxFaults
      OBVIOUS
    <2>4. job \in Job /\ job.pc = "idle"
      BY <2>2, NoJobType
    <2> QED BY <2>1, <2>3, <2>4 DEF TypeOK
  <1>2. SteamPublishes
    BY DEF SteamPublishes, Native
  <1>3. FieldsAccounted
    BY DEF FieldsAccounted
  <1>4. WorkIsStale /\ LooksHold
    BY DEF WorkIsStale, LooksHold, Inspected, NoJob
  <1> QED BY <1>1, <1>2, <1>3, <1>4 DEF IInv

\* The inductive invariant holds in every reachable state.
LEMMA Inductive == Spec => []IInv
  <1>1. IInv /\ [Next]_vars => IInv'
    BY TypePreserved, SteamPreserved, FieldsPreserved, WorkPreserved, LooksPreserved
    DEF IInv
  <1> QED BY <1>1, InitHolds, PTL DEF Spec

\* Every variable keeps its type, and a repair that writes has inspected a state:
\* what Steam and the installs and repairs of any number of options leave.
THEOREM MappingTyped == Spec => []TypeOK
  <1>1. IInv => TypeOK
    BY DEF IInv
  <1> QED BY <1>1, Inductive, PTL

\* Whatever installs, repairs, rewrites by Steam and losses came before, a
\* mapping that the editor agrees to undo gives Steam's record back exactly.
THEOREM MappingUndone == Spec => []UndoGivesPublished
  <1>1. IInv => UndoGivesPublished
    BY UndoFollows
  <1> QED BY <1>1, Inductive, PTL

\* The record is replaced with Steam stopped and what is replaced in the backup,
\* if nobody came after the last look at Steam.
THEOREM RepairGuarded == Spec => RepairIsGuarded
  <1>1. IInv /\ [Next]_vars =>
          [Replace /\ "steam" \in fresh =>
             ~steam /\ job.backup = rec /\ job.copy = rec]_vars
    BY DEF IInv, LooksHold, Replace, At
  <1> QED BY <1>1, Inductive, PTL DEF Spec, RepairIsGuarded

\* The mapping is healthy after a repair, if nobody came after its inspection.
THEOREM RepairHealed == Spec => RepairHeals
  <1>1. ASSUME IInv, [Next]_vars, Replace, "mapping" \in fresh
        PROVE  Status' = "healthy"
    <2>1. /\ state \in State /\ state = job.want /\ Complete
          /\ state' = state /\ generated' = generated /\ readable' /\ rec' = Edited
      BY <1>1 DEF IInv, TypeOK, LooksHold, Inspected, Replace, At
    <2>2. job.copy \in Record /\ state.map \subseteq Entries
      BY <1>1, <2>1, StateFields DEF IInv, TypeOK, Job
    <2>3. ASSUME NEW e \in state.map
          PROVE  rec'.exe[e] = Launcher
      BY <2>1, <2>2, <2>3 DEF Edited, With, Record
    <2>4. Foreign(state)' = {} /\ Stale(state)' = {}
      BY <2>1, <2>3 DEF Foreign, Stale
    <2>5. Broken(state)' = {}
      BY <2>1 DEF Broken, Complete
    <2>6. state' # NoState /\ state' # BadState
      BY <2>1, LaunchAssumption
    <2> QED BY <2>1, <2>4, <2>5, <2>6 DEF Status
  <1>2. IInv /\ [Next]_vars =>
          [Replace /\ "mapping" \in fresh => Status' = "healthy"]_vars
    BY <1>1
  <1> QED BY <1>2, Inductive, PTL DEF Spec, RepairHeals
================================================================================
