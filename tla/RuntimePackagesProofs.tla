------------------------ MODULE RuntimePackagesProofs ------------------------
(***************************************************************************)
(* The pointer current.json names an installed build, the packages are a   *)
(* registry, and history.json tells what was current before, for any       *)
(* number of processes, builds and versions.                               *)
(*                                                                         *)
(* What a process is about to make current is held as well: that is the    *)
(* inductive part of the first two, since a package that is in its         *)
(* directory leaves it only when somebody deletes it.  The history rests   *)
(* on what Others does to a list: the second part of the module.           *)
(***************************************************************************)
EXTENDS RuntimePackages, TLAPS, NaturalsInduction, WellFoundedInduction,
        SequenceTheorems

PackagesTyped ==
  /\ pkg \in [Versions -> Builds \cup {None}]
  /\ \A v \in Versions : pkg[v] # None => VersionOf[pkg[v]] = v

\* The part of TypeOK the argument needs; it leaves the sequences out.
Typed ==
  /\ PackagesTyped
  /\ current \in Builds \cup {None}
  /\ want \in [Procs -> Builds \cup {None}]
  /\ pc \in [Procs -> Labels]
  /\ \A p \in Procs :
       pc[p] \in {"cached", "download", "extract", "check", "stage", "rename",
                  "readInstalled", "named"} => want[p] # None

IInv == Typed /\ CurrentIsInstalled /\ WantedIsInstalled

\* A step that keeps what is in the directories, or fills an empty one, and
\* forgets no deletion.
KeepsPackages ==
  /\ \A v \in Versions : pkg[v] = None \/ pkg'[v] = pkg[v]
  /\ deleted \subseteq deleted'

\* Such a step keeps a build that is in its directory there.
LEMMA HeldIsKept ==
  ASSUME KeepsPackages, NEW b \in Builds, Held(b)
  PROVE  Held(b)'
  <1>1. VersionOf[b] \in Versions
    BY DEF Versions
  <1>2. b # None
    BY RuntimeAssumption
  <1> QED
    BY <1>1, <1>2 DEF KeepsPackages, Held

\* The labels a process with a build in hand can be at, and those at which the
\* build is held.
InHand == {"cached", "download", "extract", "check", "stage", "rename",
           "readInstalled", "named"}
Writing == {"readCurrent", "readHistory", "writeHistory", "writeCurrent"}

\* What IInv says of one process.
ProcInv(p) ==
  /\ pc[p] \in InHand => want[p] # None
  /\ pc[p] \in Writing => want[p] # None /\ Held(want[p])

\* A step changes the label and the build of this process only.
Alone(p) ==
  /\ pc' \in [Procs -> Labels]
  /\ want' \in [Procs -> Builds \cup {None}]
  /\ \A q \in Procs \ {p} : pc'[q] = pc[q] /\ want'[q] = want[q]

\* A step of one process that keeps the packages and leaves the pointer alone
\* preserves the invariant if it leaves the process in order.
LEMMA OneProcess ==
  ASSUME IInv, NEW p \in Procs, Alone(p), ProcInv(p)',
         KeepsPackages, PackagesTyped',
         UNCHANGED current
  PROVE  IInv'
  <1>1. ASSUME NEW q \in Procs
        PROVE  ProcInv(q)'
    <2>1. CASE q = p
      BY <2>1
    <2>2. CASE q # p
      <3>1. want'[q] = want[q] /\ pc'[q] = pc[q]
        BY <2>2 DEF Alone
      <3>2. pc[q] \in InHand => want[q] # None
        BY DEF IInv, Typed, InHand
      <3>3. ASSUME pc[q] \in Writing
            PROVE  want[q] # None /\ Held(want[q]) /\ want[q] \in Builds
        BY <3>3 DEF IInv, Typed, WantedIsInstalled, Writing
      <3>4. ASSUME pc[q] \in Writing
            PROVE  Held(want[q])'
        <4>1. ASSUME NEW d \in Builds, Held(d)
              PROVE  Held(d)'
          BY <4>1, HeldIsKept
        <4> QED
          BY <3>1, <3>3, <3>4, <4>1 DEF Held
      <3> QED
        BY <3>1, <3>2, <3>3, <3>4 DEF ProcInv
    <2> QED
      BY <2>1, <2>2
  <1>2. Typed'
    BY <1>1 DEF Alone, ProcInv, IInv, Typed, InHand
  <1>3. CurrentIsInstalled'
    BY HeldIsKept DEF IInv, Typed, CurrentIsInstalled
  <1>4. WantedIsInstalled'
    BY <1>1 DEF ProcInv, WantedIsInstalled, Writing
  <1> QED
    BY <1>2, <1>3, <1>4 DEF IInv

\* The same for a step that changes no package.
LEMMA OneProcessOnly ==
  ASSUME IInv, NEW p \in Procs, Alone(p), ProcInv(p)',
         UNCHANGED <<pkg, deleted, current>>
  PROVE  IInv'
  BY OneProcess DEF KeepsPackages, IInv, Typed, PackagesTyped

\* A build that is ready is in its directory.
LEMMA ReadyIsHeld ==
  ASSUME NEW b, Ready(b)
  PROVE  b # None /\ Held(b)
  BY DEF Ready, Held

LEMMA InitInv == Init => IInv
  <1> SUFFICES ASSUME Init PROVE IInv
    OBVIOUS
  <1>1. Typed
    <2>1. PackagesTyped
      BY DEF Init, PackagesTyped
    <2>2. current \in Builds \cup {None}
      BY DEF Init
    <2>3. want \in [Procs -> Builds \cup {None}]
      BY DEF Init
    <2>4. pc \in [Procs -> Labels]
      BY DEF Init, Labels
    <2> QED
      BY <2>1, <2>2, <2>3, <2>4 DEF Init, Typed
  <1>2. CurrentIsInstalled /\ WantedIsInstalled
    BY DEF Init, CurrentIsInstalled, WantedIsInstalled
  <1> QED
    BY <1>1, <1>2 DEF IInv

\* A process that goes to a label and keeps its build, or takes another.
LEMMA Moves ==
  ASSUME IInv, NEW p \in Procs, NEW l \in Labels, NEW b \in Builds \cup {None},
         pc' = [pc EXCEPT ![p] = l], want' = [want EXCEPT ![p] = b]
  PROVE  Alone(p) /\ pc'[p] = l /\ want'[p] = b
  BY DEF IInv, Typed, Alone

LEMMA Goes ==
  ASSUME IInv, NEW p \in Procs, NEW l \in Labels,
         pc' = [pc EXCEPT ![p] = l], UNCHANGED want
  PROVE  Alone(p) /\ pc'[p] = l /\ want'[p] = want[p]
  BY DEF IInv, Typed, Alone

\* The start of an operation.
LEMMA BeginInv ==
  ASSUME IInv, NEW p \in Procs,
         NEW l \in {"cached", "check", "rollback", "named"},
         NEW b \in Builds \cup {None}, l \in InHand => b # None,
         Begin(p, l, b)
  PROVE  IInv'
  <1>1. l \in Labels /\ l \notin Writing
    BY DEF Labels, Writing
  <1>2. Alone(p) /\ pc'[p] = l /\ want'[p] = b
    BY <1>1, Moves DEF Begin, Goto
  <1>3. ProcInv(p)'
    BY <1>1, <1>2 DEF ProcInv
  <1> QED
    BY <1>2, <1>3, OneProcessOnly DEF Begin, diskVars

\* The steps before the activation that change no package and keep the build.
LEMMA PrepareInv ==
  ASSUME IInv, NEW p \in Procs,
         \/ LookInCache(p) \/ Download(p) \/ Extract(p) \/ Check(p) \/ Stage(p)
         \/ LookCurrent(p) \/ Stop(p)
  PROVE  IInv'
  <1> DEFINE After == {"download", "extract", "check", "stage", "rename",
                       "readCurrent", "choose", "idle"}
  <1>1. UNCHANGED <<pkg, deleted, current, want>>
    BY DEF LookInCache, Download, Extract, Check, Stage, LookCurrent, Stop,
           ProcOnly, diskVars, boundVars
  <1>2. PICK l \in After :
          /\ pc' = [pc EXCEPT ![p] = l]
          /\ l \in InHand => pc[p] \in InHand
          /\ l = "readCurrent" => Ready(want[p])
    BY DEF LookInCache, Download, Extract, Check, Stage, LookCurrent, Stop,
           Goto, InHand
  <1>3. l \in Labels
    BY DEF Labels, Activating
  <1>4. Alone(p) /\ pc'[p] = l /\ want'[p] = want[p]
    BY <1>1, <1>2, <1>3, Goes
  <1>5. l \in InHand => want[p] # None
    BY <1>2 DEF IInv, Typed, InHand
  <1>6. l \in Writing => want[p] # None /\ Held(want[p])
    BY <1>2, ReadyIsHeld DEF Writing
  <1>7. ProcInv(p)'
    BY <1>1, <1>4, <1>5, <1>6 DEF ProcInv, Held
  <1> QED
    BY <1>1, <1>4, <1>7, OneProcessOnly

\* The steps that choose what is made current.
LEMMA TargetInv ==
  ASSUME IInv, NEW p \in Procs,
         ReadInstalled(p) \/ LookNamed(p) \/ Choose(p)
  PROVE  IInv'
  <1>1. UNCHANGED <<pkg, deleted, current>>
    BY DEF ReadInstalled, LookNamed, Choose, ProcOnly, diskVars, boundVars
  <1>2. CASE pc' = [pc EXCEPT ![p] = "idle"] /\ UNCHANGED want
    <2>1. Alone(p) /\ pc'[p] = "idle"
      BY <1>2, Goes, "idle" \in Labels DEF Labels
    <2>2. ProcInv(p)'
      BY <2>1 DEF ProcInv, InHand, Writing
    <2> QED
      BY <1>1, <2>1, <2>2, OneProcessOnly
  <1>3. CASE \E b \in Builds :
               /\ Held(b)
               /\ pc' = [pc EXCEPT ![p] = "readCurrent"]
               /\ want' = [want EXCEPT ![p] = b]
    <2>1. PICK b \in Builds :
               /\ Held(b)
               /\ pc' = [pc EXCEPT ![p] = "readCurrent"]
               /\ want' = [want EXCEPT ![p] = b]
      BY <1>3
    <2>2. Alone(p) /\ pc'[p] = "readCurrent" /\ want'[p] = b
      BY <2>1, Moves, "readCurrent" \in Labels DEF Labels, Activating
    <2>3. b # None
      BY RuntimeAssumption
    <2>4. ProcInv(p)'
      BY <1>1, <2>1, <2>2, <2>3 DEF ProcInv, Held
    <2> QED
      BY <1>1, <2>2, <2>4, OneProcessOnly
  <1>4. CASE ReadInstalled(p)
    <2> DEFINE b == pkg[VersionOf[want[p]]]
    <2>1. want[p] \in Builds
      BY <1>4 DEF ReadInstalled, Goto, IInv, Typed
    <2>2. b \in Builds \cup {None}
      BY <2>1 DEF IInv, Typed, PackagesTyped, Versions
    <2>3. CASE b = None
      <3>1. want' = want
        BY <1>4, <2>3 DEF ReadInstalled, IInv, Typed
      <3> QED
        BY <1>2, <1>4, <2>3, <3>1 DEF ReadInstalled, Goto
    <2>4. CASE b # None
      <3>1. Held(b)
        BY <2>1, <2>4 DEF IInv, Typed, PackagesTyped, Held, Versions
      <3>2. b \in Builds
        BY <2>2, <2>4
      <3> QED
        BY <1>3, <1>4, <2>4, <3>1, <3>2 DEF ReadInstalled, Goto
    <2> QED
      BY <2>3, <2>4
  <1>5. CASE LookNamed(p)
    <2> DEFINE b == pkg[VersionOf[want[p]]]
    <2>1. CASE Ready(current) /\ Ready(b)
      <3>1. b # None /\ Held(b)
        BY <2>1, ReadyIsHeld
      <3>2. want[p] \in Builds
        BY <1>5 DEF LookNamed, Goto, IInv, Typed
      <3>3. b \in Builds
        BY <3>1, <3>2 DEF IInv, Typed, PackagesTyped, Versions
      <3> QED
        BY <1>3, <1>5, <2>1, <3>1, <3>3 DEF LookNamed, Goto
    <2>2. CASE ~(Ready(current) /\ Ready(b))
      BY <1>2, <1>5, <2>2 DEF LookNamed, Goto, IInv, Typed
    <2> QED
      BY <2>1, <2>2
  <1>6. CASE Choose(p)
    <2>1. CASE UNCHANGED want
      <3>1. CASE pc' = [pc EXCEPT ![p] = "idle"]
        BY <1>2, <2>1, <3>1
      <3>2. CASE /\ pc' = [pc EXCEPT ![p] = "readCurrent"]
                 /\ \E b \in Builds : /\ Previous(b, old[p])
                                      /\ want' = [want EXCEPT ![p] = b]
        BY <1>3, <3>2, ReadyIsHeld DEF Previous, Eligible
      <3> QED
        BY <1>6, <3>1, <3>2 DEF Choose, Goto
    <2>2. CASE want' # want
      BY <1>3, <1>6, <2>2, ReadyIsHeld DEF Choose, Goto, Previous, Eligible
    <2> QED
      BY <2>1, <2>2
  <1> QED
    BY <1>4, <1>5, <1>6

\* The rename of a staged package into its directory.
LEMMA RenameInv ==
  ASSUME IInv, NEW p \in Procs, Rename(p)
  PROVE  IInv'
  <1>1. want[p] \in Builds
    BY DEF IInv, Typed, Rename, Goto
  <1>2. PackagesTyped' /\ KeepsPackages
    BY <1>1 DEF IInv, Typed, PackagesTyped, Rename, KeepsPackages, boundVars,
                Versions
  <1>3. PICK l \in {"readInstalled", "idle"} : pc' = [pc EXCEPT ![p] = l]
    BY DEF Rename, Goto
  <1>4. l \in Labels
    BY DEF Labels
  <1>5. UNCHANGED <<current, want>>
    BY DEF Rename
  <1>6. Alone(p) /\ pc'[p] = l /\ want'[p] = want[p]
    BY <1>3, <1>4, <1>5, Goes
  <1>7. ProcInv(p)'
    BY <1>1, <1>6, RuntimeAssumption DEF ProcInv, Writing
  <1> QED
    BY <1>2, <1>5, <1>6, <1>7, OneProcess

\* The activation up to the pointer itself.
LEMMA HistoryInv ==
  ASSUME IInv, NEW p \in Procs,
         ReadCurrent(p) \/ ReadHistory(p) \/ WriteHistory(p)
  PROVE  IInv'
  <1>1. UNCHANGED <<pkg, deleted, current, want>>
    BY DEF ReadCurrent, ReadHistory, WriteHistory, diskVars, boundVars
  <1>2. pc[p] \in Writing
    BY DEF ReadCurrent, ReadHistory, WriteHistory, Goto, Writing
  <1>3. PICK l \in Writing : pc' = [pc EXCEPT ![p] = l]
    BY DEF ReadCurrent, ReadHistory, WriteHistory, Goto, Writing
  <1>4. l \in Labels
    BY DEF Labels, Activating, Writing
  <1>5. Alone(p) /\ pc'[p] = l /\ want'[p] = want[p]
    BY <1>1, <1>3, <1>4, Goes
  <1>6. ProcInv(p)'
    BY <1>1, <1>2, <1>5 DEF ProcInv, IInv, WantedIsInstalled, Held, InHand, Writing
  <1> QED
    BY <1>1, <1>5, <1>6, OneProcessOnly

\* The pointer.
LEMMA PointerInv ==
  ASSUME IInv, NEW p \in Procs, WriteCurrent(p)
  PROVE  IInv'
  <1>1. /\ UNCHANGED <<pkg, deleted, want>>
        /\ current' = want[p]
        /\ pc' = [pc EXCEPT ![p] = "idle"]
    BY DEF WriteCurrent, Goto, boundVars
  <1>2. want[p] \in Builds /\ Held(want[p])
    BY DEF WriteCurrent, Goto, IInv, Typed, WantedIsInstalled
  <1>3. Alone(p) /\ pc'[p] = "idle" /\ want'[p] = want[p]
    BY <1>1, Goes, "idle" \in Labels DEF Labels
  <1>4. CurrentIsInstalled'
    BY <1>1, <1>2 DEF CurrentIsInstalled, Held
  <1>5. Typed'
    BY <1>1, <1>2, <1>3 DEF IInv, Typed, PackagesTyped, Alone
  <1>6. WantedIsInstalled'
    BY <1>1, <1>3 DEF IInv, WantedIsInstalled, Held, Alone
  <1> QED
    BY <1>4, <1>5, <1>6 DEF IInv

\* What happens to the disk from outside.
LEMMA FaultInv ==
  ASSUME IInv,
         \/ \E v \in Versions : Damage(v) \/ Delete(v)
         \/ \E b \in Released : SpoilCache(b)
  PROVE  IInv'
  <1>1. UNCHANGED <<current, pc, want>>
    BY DEF Damage, Delete, SpoilCache, Fault, procVars
  <1>2. PackagesTyped'
    BY DEF IInv, Typed, PackagesTyped, Damage, Delete, SpoilCache
  <1>3. ASSUME NEW d \in Builds, Held(d)
        PROVE  Held(d)'
    <2>1. d # None /\ VersionOf[d] \in Versions
      BY RuntimeAssumption DEF Versions
    <2>2. CASE UNCHANGED <<pkg, deleted>>
      BY <1>3, <2>2 DEF Held
    <2>3. CASE \E v \in Versions : Delete(v)
      BY <1>3, <2>1, <2>3 DEF Held, Delete, IInv, Typed, PackagesTyped
    <2> QED
      BY <2>2, <2>3 DEF Damage, SpoilCache
  <1>4. Typed'
    BY <1>1, <1>2 DEF IInv, Typed
  <1>5. CurrentIsInstalled'
    BY <1>1, <1>3 DEF IInv, Typed, CurrentIsInstalled, Held
  <1>6. WantedIsInstalled'
    <2>1. ASSUME NEW q \in Procs, pc[q] \in Writing
          PROVE  want[q] # None /\ Held(want[q])'
      <3>1. want[q] # None /\ Held(want[q]) /\ want[q] \in Builds
        BY <2>1 DEF IInv, Typed, WantedIsInstalled, Writing
      <3> QED
        BY <1>1, <1>3, <3>1 DEF Held
    <2> QED
      BY <1>1, <2>1 DEF WantedIsInstalled, Writing, Held
  <1> QED
    BY <1>4, <1>5, <1>6 DEF IInv

\* Every step keeps the invariant.
LEMMA NextInv ==
  ASSUME IInv, [Next]_vars
  PROVE  IInv'
  <1>1. CASE \E p \in Procs, b \in Builds :
               Fetch(p, b) \/ Install(p, b) \/ RollbackTo(p, b)
    <2>1. PICK p \in Procs, b \in Builds :
               Fetch(p, b) \/ Install(p, b) \/ RollbackTo(p, b)
      BY <1>1
    <2>2. b # None
      BY RuntimeAssumption
    <2> QED
      BY <2>1, <2>2, BeginInv DEF Fetch, Install, RollbackTo
  <1>2. CASE \E p \in Procs : Rollback(p)
    BY <1>2, BeginInv DEF Rollback, InHand
  <1>3. CASE \E p \in Procs : Step(p)
    <2>1. PICK p \in Procs : Step(p)
      BY <1>3
    <2> QED
      BY <2>1, PrepareInv, TargetInv, RenameInv, HistoryInv, PointerInv
         DEF Step
  <1>4. CASE \/ \E v \in Versions : Damage(v) \/ Delete(v)
             \/ \E b \in Released : SpoilCache(b)
    BY <1>4, FaultInv
  <1>5. CASE UNCHANGED vars
    BY <1>5 DEF vars, diskVars, procVars, boundVars, IInv, Typed,
       PackagesTyped, CurrentIsInstalled, WantedIsInstalled, Held
  <1> QED
    BY <1>1, <1>2, <1>3, <1>4, <1>5 DEF Next

\* The pointer and what is about to be written to it name builds that are in
\* their directories, whichever processes run and wherever they stop:
\* install_manifest, fetch_release and rollback, with _activate_package.
THEOREM PointerIsInstalled == Spec => [](CurrentIsInstalled /\ WantedIsInstalled)
  <1>1. IInv /\ [Next]_vars => IInv'
    BY NextInv
  <1>2. IInv => CurrentIsInstalled /\ WantedIsInstalled
    BY DEF IInv
  <1> QED
    BY <1>1, <1>2, InitInv, PTL DEF Spec

\* Every step of the processes, and everything that happens to the disk, is a
\* step of the registry or leaves it as it is.
LEMMA RegistryStep ==
  ASSUME IInv, [Next]_vars
  PROVE  [Registry!Next]_<<pkg, deleted, current>>
  <1>1. CASE \E p \in Procs : Rename(p)
    <2>1. PICK p \in Procs : Rename(p)
      BY <1>1
    <2> DEFINE v == VersionOf[want[p]]
    <2>2. want[p] \in Builds
      BY <2>1 DEF IInv, Typed, Rename, Goto
    <2>3. CASE pkg[v] = None
      <3>1. Registry!Put(want[p])
        BY <2>1, <2>3 DEF Rename, Registry!Put, boundVars
      <3> QED
        BY <2>2, <3>1 DEF Registry!Next
    <2>4. CASE pkg[v] # None
      BY <2>1, <2>4 DEF Rename, boundVars
    <2> QED
      BY <2>3, <2>4
  <1>2. CASE \E p \in Procs : WriteCurrent(p)
    <2>1. PICK p \in Procs : WriteCurrent(p)
      BY <1>2
    <2>2. want[p] \in Builds /\ Held(want[p])
      BY <2>1 DEF WriteCurrent, Goto, IInv, Typed, WantedIsInstalled
    <2>3. Registry!Point(want[p])
      BY <2>1, <2>2 DEF WriteCurrent, Registry!Point, Held, boundVars
    <2> QED
      BY <2>2, <2>3 DEF Registry!Next
  <1>3. CASE \E v \in Versions : Delete(v)
    <2>1. PICK v \in Versions : Delete(v)
      BY <1>3
    <2>2. Registry!DeleteByHand(v)
      BY <2>1 DEF Delete, Fault, Registry!DeleteByHand
    <2>3. v \in Registry!Dirs
      BY DEF Versions, Registry!Dirs
    <2> QED
      BY <2>2, <2>3 DEF Registry!Next
  <1>5. CASE \E p \in Procs :
               \/ LookInCache(p) \/ Download(p) \/ Extract(p) \/ Check(p)
               \/ Stage(p) \/ LookCurrent(p) \/ Stop(p) \/ ReadInstalled(p)
               \/ LookNamed(p) \/ Choose(p) \/ ReadCurrent(p) \/ ReadHistory(p)
               \/ WriteHistory(p)
    BY <1>5 DEF LookInCache, Download, Extract, Check, Stage, LookCurrent, Stop,
         ReadInstalled, LookNamed, Choose, ReadCurrent, ReadHistory, WriteHistory,
         ProcOnly, diskVars, boundVars
  <1>6. CASE \E v \in Versions : Damage(v)
    BY <1>6 DEF Damage, Fault
  <1>7. CASE \E b \in Released : SpoilCache(b)
    BY <1>7 DEF SpoilCache, Fault
  <1>8. CASE UNCHANGED vars
    BY <1>8 DEF vars, diskVars, boundVars
  <1>9. CASE \E p \in Procs :
               \/ \E b \in Builds : Fetch(p, b) \/ Install(p, b) \/ RollbackTo(p, b)
               \/ Rollback(p)
    BY <1>9 DEF Fetch, Install, RollbackTo, Rollback, Begin, diskVars, boundVars
  <1> QED
    BY <1>1, <1>2, <1>3, <1>5, <1>6, <1>7, <1>8, <1>9 DEF Next, Step

\* The processes that install, fetch and roll back together implement the
\* registry of packages that whoever reads current.json relies on.
THEOREM PackagesImplementRegistry == Spec => PackagesAreARegistry
  <1>1. Init => Registry!Init
    BY DEF Init, Registry!Init, Registry!Dirs, Versions
  <1>2. IInv /\ [Next]_vars => IInv'
    BY NextInv
  <1>3. IInv /\ [Next]_vars => [Registry!Next]_<<pkg, deleted, current>>
    BY RegistryStep
  <1> QED
    BY <1>1, <1>2, <1>3, InitInv, PTL
       DEF Spec, PackagesAreARegistry, Registry!Spec, Registry!registryVars

--------------------------------------------------------------------------------
(* Lists without a build.                                                  *)

\* Natural induction, for a set of numbers.
LEMMA NatSetInduction ==
  ASSUME NEW T, 0 \in T, \A n \in Nat : n \in T => n + 1 \in T
  PROVE  \A n \in Nat : n \in T
  <1> DEFINE U == Nat \ T
  <1>1. SUFFICES ASSUME U # {} PROVE FALSE
    OBVIOUS
  <1>2. IsWellFoundedOn(OpToRel(<, Nat), Nat)
    BY NatLessThanWellFounded
  <1>3. U \subseteq Nat
    OBVIOUS
  <1> HIDE DEF U
  <1>4. PICK m \in U : \A k \in U : <<k, m>> \notin OpToRel(<, Nat)
    BY <1>1, <1>2, <1>3, WFMin
  <1>5. \A k \in U : ~(k < m)
    BY <1>3, <1>4 DEF OpToRel
  <1>6. m \in Nat /\ m # 0 /\ m \notin T
    BY <1>4 DEF U
  <1>7. m - 1 \in Nat /\ (m - 1) + 1 = m
    BY <1>6
  <1>8. m - 1 \in T
    BY <1>5, <1>7 DEF U
  <1> QED
    BY <1>6, <1>7, <1>8

\* g is the function Others(s, x) defines, up to position m.
KeptTo(g, s, x, m) ==
  g = [n \in 0..m |-> IF n = 0 THEN <<>>
                      ELSE IF s[n] = x THEN g[n - 1] ELSE Append(g[n - 1], s[n])]

LEMMA KeptExists ==
  ASSUME NEW s, NEW x, NEW m \in Nat
  PROVE  \E g : KeptTo(g, s, x, m)
  <1> DEFINE T == {n \in Nat : \E g : KeptTo(g, s, x, n)}
  <1>1. 0 \in T
    <2>1. KeptTo([n \in 0..0 |-> <<>>], s, x, 0)
      BY DEF KeptTo
    <2> QED
      BY <2>1
  <1>2. ASSUME NEW n \in Nat, n \in T
        PROVE  n + 1 \in T
    <2>1. PICK g : KeptTo(g, s, x, n)
      BY <1>2
    <2> DEFINE last == IF s[n + 1] = x THEN g[n] ELSE Append(g[n], s[n + 1])
               h == [k \in 0..(n + 1) |-> IF k = n + 1 THEN last ELSE g[k]]
    <2>2. \A k \in 0..n : g[k] = IF k = 0 THEN <<>>
                                 ELSE IF s[k] = x THEN g[k - 1] ELSE Append(g[k - 1], s[k])
      BY <2>1 DEF KeptTo
    <2>3. ASSUME NEW k \in 0..(n + 1)
          PROVE  h[k] = IF k = 0 THEN <<>>
                        ELSE IF s[k] = x THEN h[k - 1] ELSE Append(h[k - 1], s[k])
      <3>1. CASE k = n + 1
        <4>1. k # 0 /\ k - 1 = n /\ h[k - 1] = g[n] /\ h[k] = last
          BY <3>1
        <4> QED
          BY <3>1, <4>1
      <3>2. CASE k # n + 1
        <4>1. k \in 0..n /\ h[k] = g[k] /\ (k # 0 => h[k - 1] = g[k - 1])
          BY <3>2
        <4> HIDE DEF h
        <4> QED
          BY <2>2, <4>1
      <3> QED
        BY <3>1, <3>2
    <2>4. KeptTo(h, s, x, n + 1)
      <3>1. h = [k \in 0..(n + 1) |-> h[k]]
        OBVIOUS
      <3> HIDE DEF h
      <3> QED
        BY <2>3, <3>1 DEF KeptTo
    <2> QED
      BY <2>4
  <1> HIDE DEF T
  <1>3. m \in T
    BY <1>1, <1>2, NatSetInduction
  <1> QED
    BY <1>3 DEF T

\* Only the first positions matter to the value at one of them.
LEMMA KeptAgree ==
  ASSUME NEW s, NEW t, NEW x, NEW l \in Nat, NEW m \in Nat, NEW g, NEW h,
         KeptTo(g, s, x, l), KeptTo(h, t, x, m),
         NEW k \in Nat, k <= l, k <= m, \A i \in 1..k : s[i] = t[i]
  PROVE  g[k] = h[k]
  <1> DEFINE T == {n \in Nat : n <= k => g[n] = h[n]}
  <1>1. 0 \in T
    BY DEF KeptTo
  <1>2. ASSUME NEW n \in Nat, n \in T
        PROVE  n + 1 \in T
    <2>1. SUFFICES ASSUME n + 1 <= k PROVE g[n + 1] = h[n + 1]
      OBVIOUS
    <2>2. g[n] = h[n] /\ s[n + 1] = t[n + 1]
      BY <1>2, <2>1
    <2>3. /\ n + 1 \in 0..l /\ n + 1 \in 0..m /\ n + 1 # 0 /\ (n + 1) - 1 = n
      BY <2>1
    <2>4. g[n + 1] = IF s[n + 1] = x THEN g[n] ELSE Append(g[n], s[n + 1])
      BY <2>3 DEF KeptTo
    <2>5. h[n + 1] = IF t[n + 1] = x THEN h[n] ELSE Append(h[n], t[n + 1])
      BY <2>3 DEF KeptTo
    <2> QED
      BY <2>2, <2>4, <2>5
  <1> HIDE DEF T
  <1>3. k \in T
    BY <1>1, <1>2, NatSetInduction
  <1> QED
    BY <1>3 DEF T

LEMMA OthersIs ==
  ASSUME NEW s, NEW x, Len(s) \in Nat
  PROVE  \E g : KeptTo(g, s, x, Len(s)) /\ Others(s, x) = g[Len(s)]
  <1> DEFINE g == CHOOSE g : KeptTo(g, s, x, Len(s))
  <1>1. KeptTo(g, s, x, Len(s))
    BY KeptExists
  <1>2. Others(s, x) = g[Len(s)]
    BY DEF Others, KeptTo
  <1> QED
    BY <1>1, <1>2

LEMMA OthersEmpty ==
  ASSUME NEW s, NEW x, Len(s) = 0
  PROVE  Others(s, x) = <<>>
  <1> DEFINE n == Len(s)
  <1>1. n \in Nat /\ n = 0
    OBVIOUS
  <1>2. PICK g : KeptTo(g, s, x, n) /\ Others(s, x) = g[n]
    BY <1>1, OthersIs
  <1> HIDE DEF n
  <1>3. 0 \in 0..n
    BY <1>1
  <1>4. g[0] = <<>>
    BY <1>2, <1>3 DEF KeptTo
  <1> QED
    BY <1>1, <1>2, <1>4

LEMMA OthersAppend ==
  ASSUME NEW S, NEW s \in Seq(S), NEW e \in S, NEW x
  PROVE  Others(Append(s, e), x) = IF e = x THEN Others(s, x)
                                   ELSE Append(Others(s, x), e)
  <1> DEFINE t == Append(s, e)
             n == Len(s)
  <1>1. /\ n \in Nat /\ Len(t) = n + 1 /\ t[n + 1] = e
        /\ \A i \in 1..n : s[i] = t[i]
    BY AppendProperties, LenProperties
  <1>2. PICK g : KeptTo(g, s, x, n) /\ Others(s, x) = g[n]
    BY <1>1, OthersIs
  <1> HIDE DEF t, n
  <1>3. PICK h : KeptTo(h, t, x, Len(t)) /\ Others(t, x) = h[Len(t)]
    <2>1. Len(t) \in Nat
      BY <1>1
    <2> QED
      BY <2>1, OthersIs
  <1>4. g[n] = h[n]
    <2>1. n \in Nat /\ Len(t) \in Nat /\ n <= n /\ n <= Len(t)
      BY <1>1
    <2>2. KeptTo(g, s, x, n) /\ KeptTo(h, t, x, Len(t))
      BY <1>2, <1>3
    <2>3. \A i \in 1..n : s[i] = t[i]
      BY <1>1
    <2> QED
      BY <2>1, <2>2, <2>3, KeptAgree
  <1>5. h[n + 1] = IF t[n + 1] = x THEN h[n] ELSE Append(h[n], t[n + 1])
    <2>1. n + 1 \in 0..(n + 1) /\ n + 1 # 0 /\ (n + 1) - 1 = n
      BY <1>1
    <2>2. KeptTo(h, t, x, n + 1)
      BY <1>1, <1>3
    <2> QED
      BY <2>1, <2>2 DEF KeptTo
  <1>6. Others(t, x) = h[n + 1]
    BY <1>1, <1>3
  <1> QED
    BY <1>1, <1>2, <1>4, <1>5, <1>6 DEF t, n

\* Induction on sequences, for a set of them.
LEMMA SeqSetInduction ==
  ASSUME NEW S, NEW T, <<>> \in T,
         \A s \in Seq(S), e \in S : s \in T => Append(s, e) \in T
  PROVE  \A s \in Seq(S) : s \in T
  <1> DEFINE L == {n \in Nat : \A s \in Seq(S) : Len(s) = n => s \in T}
  <1>1. 0 \in L
    BY EmptySeq
  <1>2. ASSUME NEW n \in Nat, n \in L
        PROVE  n + 1 \in L
    <2>1. SUFFICES ASSUME NEW s \in Seq(S), Len(s) = n + 1
                   PROVE  s \in T
      OBVIOUS
    <2>2. s # <<>>
      BY <2>1, EmptySeq
    <2>3. PICK r \in Seq(S), e \in S : s = Append(r, e)
      BY <2>2, SequenceEmptyOrAppend
    <2>4. Len(r) = n
      BY <2>1, <2>3, AppendProperties, LenProperties
    <2> QED
      BY <1>2, <2>3, <2>4
  <1> HIDE DEF L
  <1>3. \A n \in Nat : n \in L
    BY <1>1, <1>2, NatSetInduction
  <1> QED
    BY <1>3, LenProperties DEF L

\* Everything Others leaves out is x, and only that.
Selects(o, s, x) ==
  /\ Len(o) <= Len(s)
  /\ \A i \in 1..Len(o) : o[i] # x /\ \E j \in 1..Len(s) : o[i] = s[j]
  /\ \A j \in 1..Len(s) : s[j] # x => \E i \in 1..Len(o) : o[i] = s[j]
  /\ (\A j \in 1..Len(s) : s[j] # x) => o = s

LEMMA OthersSelects ==
  ASSUME NEW S, NEW s \in Seq(S), NEW x
  PROVE  Others(s, x) \in Seq(S) /\ Selects(Others(s, x), s, x)
  <1> DEFINE T == {r \in Seq(S) : /\ Others(r, x) \in Seq(S)
                                  /\ Selects(Others(r, x), r, x)}
  <1>1. <<>> \in T
    <2>1. Others(<<>>, x) = <<>> /\ <<>> \in Seq(S) /\ Len(<<>>) = 0
      BY OthersEmpty, EmptySeq
    <2>2. ASSUME NEW z, Len(z) = 0
          PROVE  Selects(z, z, x)
      BY <2>2 DEF Selects
    <2>3. Selects(<<>>, <<>>, x)
      BY <2>1, <2>2
    <2> QED
      BY <2>1, <2>3
  <1>2. ASSUME NEW r \in Seq(S), NEW e \in S, r \in T
        PROVE  Append(r, e) \in T
    <2> DEFINE o == Others(r, x)
               t == Append(r, e)
               u == Others(t, x)
    <2>1. /\ t \in Seq(S) /\ Len(t) = Len(r) + 1 /\ t[Len(r) + 1] = e
          /\ \A i \in 1..Len(r) : t[i] = r[i]
          /\ Len(r) \in Nat
      BY AppendProperties, LenProperties
    <2>2. o \in Seq(S) /\ Selects(o, r, x) /\ Len(o) \in Nat
      BY <1>2, LenProperties
    <2>3. CASE e = x
      <3>1. u = o
        BY <2>3, OthersAppend
      <3>2. Selects(o, t, x)
        <4> HIDE DEF o, t, u
        <4>1. \A i \in 1..Len(o) : o[i] # x /\ \E j \in 1..Len(t) : o[i] = t[j]
          BY <2>1, <2>2 DEF Selects
        <4>2. ASSUME NEW j \in 1..Len(t), t[j] # x
              PROVE  \E i \in 1..Len(o) : o[i] = t[j]
          <5>1. j \in 1..Len(r)
            BY <2>1, <2>3, <4>2
          <5> QED
            BY <2>1, <2>2, <4>2, <5>1 DEF Selects
        <4>3. Len(r) + 1 \in 1..Len(t) /\ t[Len(r) + 1] = x /\ Len(o) <= Len(t)
          BY <2>1, <2>2, <2>3 DEF Selects
        <4> QED
          BY <4>1, <4>2, <4>3 DEF Selects
      <3>3. Others(t, x) = o /\ t \in Seq(S) /\ o \in Seq(S)
        BY <2>1, <2>2, <3>1
      <3> QED
        BY <3>2, <3>3
    <2>4. CASE e # x
      <3>1. u = Append(o, e)
        BY <2>4, OthersAppend
      <3>2. /\ u \in Seq(S) /\ Len(u) = Len(o) + 1 /\ u[Len(o) + 1] = e
            /\ \A i \in 1..Len(o) : u[i] = o[i]
        BY <2>2, <3>1, AppendProperties
      <3>3. Selects(u, t, x)
        <4> HIDE DEF o, t, u
        <4>1. Len(u) <= Len(t)
          BY <2>1, <2>2, <3>2 DEF Selects
        <4>2. ASSUME NEW i \in 1..Len(u)
              PROVE  u[i] # x /\ \E j \in 1..Len(t) : u[i] = t[j]
          <5>1. CASE i \in 1..Len(o)
            <6>1. PICK j \in 1..Len(r) : o[i] = r[j]
              BY <2>2, <5>1 DEF Selects
            <6>2. j \in 1..Len(t) /\ u[i] = t[j] /\ u[i] # x
              BY <2>1, <2>2, <3>2, <5>1, <6>1 DEF Selects
            <6> QED
              BY <6>2
          <5>2. CASE i = Len(o) + 1
            BY <2>1, <2>4, <3>2, <5>2
          <5> QED
            BY <2>2, <3>2, <5>1, <5>2
        <4>3. ASSUME NEW j \in 1..Len(t), t[j] # x
              PROVE  \E i \in 1..Len(u) : u[i] = t[j]
          <5>1. CASE j \in 1..Len(r)
            <6>1. PICK i \in 1..Len(o) : o[i] = r[j]
              BY <2>1, <2>2, <4>3, <5>1 DEF Selects
            <6>2. i \in 1..Len(u) /\ u[i] = t[j]
              BY <2>1, <2>2, <3>2, <5>1, <6>1
            <6> QED
              BY <6>2
          <5>2. CASE j = Len(r) + 1
            <6>1. Len(o) + 1 \in 1..Len(u)
              BY <2>2, <3>2
            <6> QED
              BY <2>1, <3>2, <5>2, <6>1
          <5> QED
            BY <2>1, <5>1, <5>2
        <4>4. ASSUME \A j \in 1..Len(t) : t[j] # x
              PROVE  u = t
          <5>1. \A j \in 1..Len(r) : r[j] # x
            BY <2>1, <4>4
          <5>2. o = r
            BY <2>2, <5>1 DEF Selects
          <5> QED
            BY <3>1, <5>2 DEF t
        <4> QED
          BY <4>1, <4>2, <4>3, <4>4 DEF Selects
      <3> QED
        BY <2>1, <3>2, <3>3
    <2> QED
      BY <2>3, <2>4
  <1> HIDE DEF T
  <1>3. s \in T
    BY <1>1, <1>2, SeqSetInduction
  <1> QED
    BY <1>3 DEF T

\* No build twice.
Distinct(s) == \A i, j \in 1..Len(s) : s[i] = s[j] => i = j

\* u is what t begins with.
Begins(u, t) == Len(u) <= Len(t) /\ \A i \in 1..Len(u) : u[i] = t[i]

LEMMA BeginsWhole ==
  ASSUME NEW S, NEW u \in Seq(S), NEW t \in Seq(S), Begins(u, t),
         Len(t) <= Len(u)
  PROVE  u = t
  BY LenProperties, SeqEqual DEF Begins

LEMMA BeginsTransitive ==
  ASSUME NEW S, NEW u \in Seq(S), NEW t \in Seq(S), NEW v \in Seq(S),
         Begins(u, t), Begins(t, v)
  PROVE  Begins(u, v)
  BY LenProperties DEF Begins

\* What Others leaves of a beginning is a beginning of what it leaves.
LEMMA OthersBegins ==
  ASSUME NEW S, NEW u \in Seq(S), NEW t \in Seq(S), NEW x, Begins(u, t)
  PROVE  Begins(Others(u, x), Others(t, x))
  <1> DEFINE T == {r \in Seq(S) : \A v \in Seq(S) :
                     Begins(v, r) => Begins(Others(v, x), Others(r, x))}
  <1>1. ASSUME NEW v \in Seq(S)
        PROVE  Begins(v, v)
    BY LenProperties DEF Begins
  <1>2. <<>> \in T
    <2>1. ASSUME NEW v \in Seq(S), Begins(v, <<>>)
          PROVE  v = <<>>
      BY <2>1, EmptySeq, LenProperties DEF Begins
    <2>2. <<>> \in Seq(S) /\ Others(<<>>, x) \in Seq(S)
      BY EmptySeq, OthersSelects
    <2>3. Begins(Others(<<>>, x), Others(<<>>, x))
      BY <1>1, <2>2
    <2> QED
      BY <2>1, <2>2, <2>3
  <1>3. ASSUME NEW r \in Seq(S), NEW e \in S, r \in T
        PROVE  Append(r, e) \in T
    <2> DEFINE a == Append(r, e)
    <2>1. /\ a \in Seq(S) /\ Len(a) = Len(r) + 1 /\ Len(r) \in Nat
          /\ \A i \in 1..Len(r) : a[i] = r[i]
      BY AppendProperties, LenProperties
    <2>2. /\ Others(r, x) \in Seq(S) /\ Len(Others(r, x)) \in Nat
          /\ Others(a, x) \in Seq(S)
      BY <2>1, OthersSelects, LenProperties
    <2>3. Begins(Others(r, x), Others(a, x))
      <3>1. CASE e = x
        BY <1>1, <2>2, <3>1, OthersAppend
      <3>2. CASE e # x
        <4>1. Others(a, x) = Append(Others(r, x), e)
          BY <3>2, OthersAppend
        <4> QED
          BY <2>2, <4>1, AppendProperties DEF Begins
      <3> QED
        BY <3>1, <3>2
    <2>4. ASSUME NEW v \in Seq(S), Begins(v, a)
          PROVE  Begins(Others(v, x), Others(a, x))
      <3>1. Len(v) \in Nat
        BY LenProperties
      <3>2. CASE Len(v) <= Len(r)
        <4>1. Begins(v, r)
          <5> HIDE DEF a
          <5> QED
            BY <2>1, <2>4, <3>1, <3>2 DEF Begins
        <4>2. Begins(Others(v, x), Others(r, x))
          BY <1>3, <4>1
        <4>3. Others(v, x) \in Seq(S)
          BY OthersSelects
        <4> QED
          BY <2>2, <2>3, <4>2, <4>3, BeginsTransitive
      <3>3. CASE Len(v) > Len(r)
        <4>1. v = a
          <5> HIDE DEF a
          <5> QED
            BY <2>1, <2>4, <3>1, <3>3, BeginsWhole
        <4> QED
          BY <1>1, <2>2, <4>1
      <3> QED
        BY <2>1, <3>1, <3>2, <3>3
    <2> QED
      BY <2>1, <2>4
  <1> HIDE DEF T
  <1>4. t \in T
    BY <1>2, <1>3, SeqSetInduction
  <1> QED
    BY <1>4 DEF T

\* Of builds that are all different Others leaves out one at most.
LEMMA OthersDistinct ==
  ASSUME NEW S, NEW s \in Seq(S), NEW x, Distinct(s)
  PROVE  Distinct(Others(s, x)) /\ Len(s) <= Len(Others(s, x)) + 1
  <1> DEFINE T == {r \in Seq(S) : Distinct(r) =>
                     /\ Distinct(Others(r, x))
                     /\ Len(r) <= Len(Others(r, x)) + 1}
  <1>1. <<>> \in T
    <2>1. Others(<<>>, x) = <<>> /\ <<>> \in Seq(S) /\ Len(<<>>) = 0
      BY OthersEmpty, EmptySeq
    <2> QED
      BY <2>1
  <1>2. ASSUME NEW r \in Seq(S), NEW e \in S, r \in T
        PROVE  Append(r, e) \in T
    <2> DEFINE a == Append(r, e)
               o == Others(r, x)
    <2>1. /\ a \in Seq(S) /\ Len(a) = Len(r) + 1 /\ Len(r) \in Nat
          /\ \A i \in 1..Len(r) : a[i] = r[i]
          /\ a[Len(r) + 1] = e
      BY AppendProperties, LenProperties
    <2>2. o \in Seq(S) /\ Len(o) \in Nat /\ Selects(o, r, x)
      BY OthersSelects, LenProperties
    <2>3. ASSUME Distinct(a)
          PROVE  Distinct(Others(a, x)) /\ Len(a) <= Len(Others(a, x)) + 1
      <3> HIDE DEF a, o
      <3>1. Distinct(r) /\ \A i \in 1..Len(r) : r[i] # e
        BY <2>1, <2>3 DEF Distinct
      <3>2. Distinct(o) /\ Len(r) <= Len(o) + 1
        BY <1>2, <3>1 DEF o
      <3>3. CASE e = x
        <4>1. Others(a, x) = o
          BY <3>3, OthersAppend DEF a, o
        <4>2. o = r
          BY <2>2, <3>1, <3>3 DEF Selects
        <4> QED
          BY <2>1, <3>2, <4>1, <4>2
      <3>4. CASE e # x
        <4> DEFINE u == Others(a, x)
        <4>1. u = Append(o, e)
          BY <3>4, OthersAppend DEF a, o
        <4>2. /\ Len(u) = Len(o) + 1 /\ u[Len(o) + 1] = e
              /\ \A i \in 1..Len(o) : u[i] = o[i]
          BY <2>2, <4>1, AppendProperties
        <4>3. \A i \in 1..Len(o) : o[i] # e
          BY <2>2, <3>1 DEF Selects
        <4>4. Distinct(u)
          <5> HIDE DEF u
          <5> QED
            BY <2>2, <3>2, <4>2, <4>3 DEF Distinct
        <4> QED
          BY <2>1, <2>2, <3>2, <4>2, <4>4
      <3> QED
        BY <3>3, <3>4
    <2> QED
      BY <2>1, <2>3
  <1> HIDE DEF T
  <1>3. s \in T
    BY <1>1, <1>2, SeqSetInduction
  <1> QED
    BY <1>3 DEF T

\* A build put in front stays there, unless it is the one to leave out.
LEMMA OthersInFront ==
  ASSUME NEW S, NEW s \in Seq(S), NEW a \in S, NEW x
  PROVE  Others(Cons(a, s), x) = IF a = x THEN Others(s, x)
                                 ELSE Cons(a, Others(s, x))
  <1> DEFINE front(r) == IF a = x THEN Others(r, x) ELSE <<a>> \o Others(r, x)
             T == {r \in Seq(S) : Others(<<a>> \o r, x) = front(r)}
  <1>1. <<a>> \in Seq(S) /\ <<>> \in Seq(S) /\ Others(<<>>, x) = <<>>
    BY EmptySeq, OthersEmpty
  <1>2. <<>> \in T
    <2>1. <<a>> \o <<>> = <<a>> /\ Append(<<>>, a) = <<a>>
      BY <1>1, ConcatEmptySeq
    <2>2. Others(<<a>>, x) = IF a = x THEN <<>> ELSE <<a>>
      <3> DEFINE none == <<>>
                 one == <<a>>
      <3>1. none \in Seq(S) /\ Others(none, x) = none /\ one = Append(none, a)
        BY <1>1, <2>1
      <3> HIDE DEF none, one
      <3>2. Others(one, x) = IF a = x THEN none ELSE one
        BY <3>1, OthersAppend
      <3> QED
        BY <3>2 DEF none, one
    <2> QED
      BY <1>1, <2>1, <2>2
  <1>3. ASSUME NEW r \in Seq(S), NEW e \in S, r \in T
        PROVE  Append(r, e) \in T
    <2> DEFINE o == Others(r, x)
    <2>1. ASSUME NEW v \in Seq(S)
          PROVE  <<a>> \o Append(v, e) = Append(<<a>> \o v, e)
      <3>1. Append(v, e) = v \o <<e>> /\ <<e>> \in Seq(S)
        BY AppendIsConcat
      <3>2. <<a>> \o v \in Seq(S)
        BY <1>1, ConcatProperties
      <3>3. Append(<<a>> \o v, e) = (<<a>> \o v) \o <<e>>
        BY <3>2, AppendIsConcat
      <3> QED
        BY <1>1, <3>1, <3>3, ConcatAssociative
    <2>2. Others(<<a>> \o Append(r, e), x) =
            IF e = x THEN Others(<<a>> \o r, x)
            ELSE Append(Others(<<a>> \o r, x), e)
      <3> DEFINE t == <<a>> \o r
      <3>1. t \in Seq(S) /\ <<a>> \o Append(r, e) = Append(t, e)
        BY <1>1, <2>1, ConcatProperties
      <3> HIDE DEF t
      <3>2. Others(Append(t, e), x) = IF e = x THEN Others(t, x)
                                      ELSE Append(Others(t, x), e)
        BY <3>1, OthersAppend
      <3> QED
        BY <3>1, <3>2 DEF t
    <2>3. Others(<<a>> \o r, x) = front(r)
      BY <1>3
    <2>4. o \in Seq(S)
      BY OthersSelects
    <2>5. Others(Append(r, e), x) = IF e = x THEN o ELSE Append(o, e)
      BY OthersAppend
    <2>6. <<a>> \o Append(o, e) = Append(<<a>> \o o, e)
      BY <2>1, <2>4
    <2>7. Others(<<a>> \o Append(r, e), x) = front(Append(r, e))
      BY <2>2, <2>3, <2>5, <2>6
    <2>8. Append(r, e) \in Seq(S)
      BY AppendProperties
    <2> QED
      BY <2>7, <2>8
  <1> HIDE DEF T
  <1>4. s \in T
    BY <1>2, <1>3, SeqSetInduction
  <1> QED
    BY <1>4 DEF T, Cons

--------------------------------------------------------------------------------
(* The two steps that change the lists.                                    *)

\* What HistoryIsRecent asks of the history without the current build.
Tells(e, r) == Begins(e, r) /\ (Len(e) < HistoryCap - 1 => e = r)

\* The first entries, as many as history.json holds.
Cut(s) == SubSeq(s, 1, IF Len(s) < HistoryCap THEN Len(s) ELSE HistoryCap)

LEMMA CutBegins ==
  ASSUME NEW S, NEW s \in Seq(S)
  PROVE  /\ Cut(s) \in Seq(S)
         /\ Len(Cut(s)) = IF Len(s) < HistoryCap THEN Len(s) ELSE HistoryCap
         /\ Begins(Cut(s), s)
  <1> DEFINE n == IF Len(s) < HistoryCap THEN Len(s) ELSE HistoryCap
  <1>1. /\ Len(s) \in Nat /\ n \in Nat /\ n <= Len(s) /\ HistoryCap \in Nat
        /\ \A i \in 1..Len(s) : s[i] \in S
    BY LenProperties, RuntimeAssumption
  <1> HIDE DEF n
  <1>2. /\ SubSeq(s, 1, n) \in Seq(S) /\ Len(SubSeq(s, 1, n)) = n
        /\ \A i \in 1..n : SubSeq(s, 1, n)[i] = s[i]
    <2>1. \A i \in 1..n : s[i] \in S
      BY <1>1
    <2>2. /\ SubSeq(s, 1, n) \in Seq(S)
          /\ Len(SubSeq(s, 1, n)) = IF 1 <= n THEN n - 1 + 1 ELSE 0
          /\ \A i \in 1..(n - 1 + 1) : SubSeq(s, 1, n)[i] = s[1 + i - 1]
      BY <1>1, <2>1, SubSeqProperties
    <2> QED
      BY <1>1, <2>2
  <1> QED
    BY <1>1, <1>2 DEF Cut, n, Begins

\* t is the list s with c put in front.
Led(t, c, s) ==
  Len(t) = Len(s) + 1 /\ t[1] = c /\ \A i \in 1..Len(s) : t[i + 1] = s[i]

LEMMA InFront ==
  ASSUME NEW S, NEW c \in S, NEW s \in Seq(S)
  PROVE  Cons(c, s) \in Seq(S) /\ Led(Cons(c, s), c, s)
  <1> DEFINE one == <<c>>
             t == one \o s
  <1>1. one \in Seq(S) /\ Len(one) = 1 /\ one[1] = c /\ Len(s) \in Nat
    BY LenProperties
  <1> HIDE DEF one
  <1>2. /\ t \in Seq(S) /\ Len(t) = Len(one) + Len(s)
        /\ \A i \in 1..(Len(one) + Len(s)) :
             t[i] = IF i <= Len(one) THEN one[i] ELSE s[i - Len(one)]
    BY <1>1, ConcatProperties
  <1> HIDE DEF t
  <1>3. t[1] = c /\ \A i \in 1..Len(s) : t[i + 1] = s[i]
    BY <1>1, <1>2
  <1> QED
    BY <1>1, <1>2, <1>3 DEF t, one, Cons, Led

\* The history that an activation writes has no build twice and begins with
\* the pointer it read.
LEMMA CutInFront ==
  ASSUME NEW S, NEW h \in Seq(S), NEW c \in S, Distinct(h)
  PROVE  /\ Cut(Cons(c, Others(h, c))) \in Seq(S)
         /\ Len(Cut(Cons(c, Others(h, c)))) \in 1..HistoryCap
         /\ Cut(Cons(c, Others(h, c)))[1] = c
         /\ Distinct(Cut(Cons(c, Others(h, c))))
  <1> DEFINE o == Others(h, c)
             all == Cons(c, o)
             cut == Cut(all)
  <1>1. /\ o \in Seq(S) /\ Len(o) \in Nat /\ Distinct(o)
        /\ \A i \in 1..Len(o) : o[i] # c
    BY OthersSelects, OthersDistinct, LenProperties DEF Selects
  <1>2. /\ all \in Seq(S) /\ Len(all) = Len(o) + 1 /\ all[1] = c
        /\ \A i \in 1..Len(o) : all[i + 1] = o[i]
    <2>1. all \in Seq(S) /\ Led(all, c, o)
      BY <1>1, InFront
    <2> QED
      BY <2>1 DEF Led
  <1> HIDE DEF o, all
  <1>3. Distinct(all)
    <2>1. ASSUME NEW i \in 1..Len(all), NEW j \in 1..Len(all), all[i] = all[j]
          PROVE  i = j
      <3>1. \A k \in 1..Len(all) : k = 1 \/ (k - 1 \in 1..Len(o) /\ all[k] = o[k - 1])
        <4> TAKE k \in 1..Len(all)
        <4>1. k = 1 \/ (k - 1 \in 1..Len(o) /\ (k - 1) + 1 = k)
          BY <1>1, <1>2
        <4> QED
          BY <1>2, <4>1
      <3>2. (i = 1 /\ j = 1) \/ (i # 1 /\ j # 1)
        BY <1>1, <1>2, <2>1, <3>1
      <3>3. CASE i # 1 /\ j # 1
        <4>1. i - 1 \in 1..Len(o) /\ j - 1 \in 1..Len(o) /\ o[i - 1] = o[j - 1]
          BY <2>1, <3>1, <3>3
        <4>2. i - 1 = j - 1
          BY <1>1, <4>1 DEF Distinct
        <4> QED
          BY <1>1, <1>2, <4>2
      <3> QED
        BY <3>2, <3>3
    <2> QED
      BY <2>1 DEF Distinct
  <1>4. /\ cut \in Seq(S) /\ Begins(cut, all)
        /\ Len(cut) = IF Len(all) < HistoryCap THEN Len(all) ELSE HistoryCap
    BY <1>2, CutBegins
  <1>5. Len(cut) \in 1..HistoryCap
    BY <1>1, <1>2, <1>4, RuntimeAssumption
  <1> HIDE DEF cut
  <1>6. cut[1] = c /\ Distinct(cut)
    BY <1>1, <1>2, <1>3, <1>4, <1>5 DEF Begins, Distinct
  <1> QED
    BY <1>4, <1>5, <1>6 DEF cut, all, o

\* Putting the pointer in front and cutting the list keeps what it tells.
LEMMA CutTells ==
  ASSUME NEW S, NEW h \in Seq(S), NEW r \in Seq(S), NEW c \in S,
         Distinct(h), Tells(Others(h, c), r)
  PROVE  Tells(Others(Cut(Cons(c, Others(h, c))), c), r)
  <1> DEFINE o == Others(h, c)
             all == Cons(c, o)
             cut == Cut(all)
             e == Others(cut, c)
  <1>1. o \in Seq(S) /\ Selects(o, h, c)
    BY OthersSelects
  <1>2. all \in Seq(S) /\ Len(all) \in Nat
    BY <1>1, InFront, LenProperties
  <1>3. /\ cut \in Seq(S) /\ Begins(cut, all) /\ Distinct(cut)
        /\ Len(cut) = IF Len(all) < HistoryCap THEN Len(all) ELSE HistoryCap
    BY <1>2, CutBegins, CutInFront
  <1>4. Others(all, c) = o
    <2>1. Others(all, c) = Others(o, c)
      BY <1>1, OthersInFront
    <2>2. \A i \in 1..Len(o) : o[i] # c
      BY <1>1 DEF Selects
    <2>3. Selects(Others(o, c), o, c)
      BY <1>1, OthersSelects
    <2> QED
      BY <2>1, <2>2, <2>3 DEF Selects
  <1>5. /\ e \in Seq(S) /\ Len(e) \in Nat /\ Begins(e, o)
        /\ Len(cut) <= Len(e) + 1
    BY <1>2, <1>3, <1>4, OthersSelects, OthersBegins, OthersDistinct,
       LenProperties
  <1>6. Begins(o, r) /\ (Len(o) < HistoryCap - 1 => o = r)
    BY DEF Tells
  <1>7. Begins(e, r)
    BY <1>1, <1>5, <1>6, BeginsTransitive
  <1>8. ASSUME Len(e) < HistoryCap - 1
        PROVE  e = r
    <2>1. Len(all) < HistoryCap /\ Len(cut) = Len(all)
      <3> HIDE DEF e, cut, all, o
      <3> QED
        BY <1>2, <1>3, <1>5, <1>8, RuntimeAssumption
    <2>2. cut = all
      <3> HIDE DEF cut, all
      <3>1. Len(all) <= Len(cut)
        BY <1>2, <2>1
      <3> QED
        BY <1>2, <1>3, <3>1, BeginsWhole
    <2>3. e = o
      BY <1>4, <2>2
    <2> QED
      BY <1>6, <1>8, <2>3
  <1> QED
    BY <1>7, <1>8 DEF Tells

\* What was current before, after a switch from c to w.
Switched(r, c, w) == Cons(c, Others(Others(r, w), c))

\* c is the most recent of the earlier builds then, and w is not one of them.
LEMMA SwitchTells ==
  ASSUME NEW S, NEW h \in Seq(S), NEW r \in Seq(S), NEW c \in S, NEW w \in S,
         c # w, Distinct(h), Len(h) > 0, h[1] = c, Tells(Others(h, c), r),
         \A i \in 1..Len(r) : r[i] # c
  PROVE  /\ Switched(r, c, w) \in Seq(S)
         /\ \A i \in 1..Len(Switched(r, c, w)) : Switched(r, c, w)[i] # w
         /\ Tells(Others(h, w), Switched(r, c, w))
  <1> DEFINE new == Switched(r, c, w)
             o == Others(h, c)
             q == Others(r, w)
             e == Others(o, w)
  <1>1. o \in Seq(S) /\ Selects(o, h, c) /\ Distinct(o) /\ Len(o) \in Nat
    BY OthersSelects, OthersDistinct, LenProperties
  <1>2. q \in Seq(S) /\ Selects(q, r, w) /\ Len(q) \in Nat
    BY OthersSelects, LenProperties
  <1>3. e \in Seq(S) /\ Len(e) \in Nat /\ Len(o) <= Len(e) + 1
    BY <1>1, OthersSelects, OthersDistinct, LenProperties
  <1>4. Others(q, c) = q
    <2>1. ASSUME NEW i \in 1..Len(q)
          PROVE  q[i] # c
      <3> HIDE DEF q
      <3>1. PICK j \in 1..Len(r) : q[i] = r[j]
        BY <1>2 DEF Selects
      <3> QED
        BY <3>1
    <2>2. Selects(Others(q, c), q, c)
      BY <1>2, OthersSelects
    <2> QED
      BY <2>1, <2>2 DEF Selects
  <1>5. new = Cons(c, q)
    BY <1>4 DEF Switched
  <1> HIDE DEF new
  <1>6. /\ new \in Seq(S) /\ Len(new) = Len(q) + 1 /\ new[1] = c
        /\ \A i \in 1..Len(q) : new[i + 1] = q[i]
    <2> HIDE DEF q
    <2>1. new \in Seq(S) /\ Led(new, c, q)
      BY <1>2, <1>5, InFront
    <2> QED
      BY <2>1 DEF Led
  <1>7. ASSUME NEW i \in 1..Len(new)
        PROVE  new[i] # w
    <2> HIDE DEF q
    <2>1. CASE i = 1
      BY <1>6, <2>1
    <2>2. CASE i # 1
      <3>1. i - 1 \in 1..Len(q) /\ (i - 1) + 1 = i
        BY <1>2, <1>6, <2>2
      <3>2. new[i] = q[i - 1]
        BY <1>6, <3>1
      <3>3. q[i - 1] # w
        BY <1>2, <3>1 DEF Selects
      <3> QED
        BY <3>2, <3>3
    <2> QED
      BY <2>1, <2>2
  <1>8. h = Cons(c, o)
    <2> DEFINE t == Tail(h)
    <2>1. t \in Seq(S) /\ h = Cons(c, t)
      <3>1. h # <<>>
        BY EmptySeq
      <3>2. /\ Head(h) = c /\ t \in Seq(S) /\ Len(t) = Len(h) - 1
            /\ \A i \in 1..Len(t) : t[i] = h[i + 1]
        BY <3>1, HeadTailProperties
      <3> HIDE DEF t
      <3>3. /\ Cons(c, t) \in Seq(S) /\ Len(Cons(c, t)) = Len(h)
            /\ Cons(c, t)[1] = c
            /\ \A i \in 1..Len(t) : Cons(c, t)[i + 1] = h[i + 1]
        <4>1. Len(h) \in Nat /\ Len(t) + 1 = Len(h)
          BY <3>2, LenProperties
        <4>2. Cons(c, t) \in Seq(S) /\ Led(Cons(c, t), c, t)
          BY <3>2, InFront
        <4> QED
          BY <3>2, <4>1, <4>2 DEF Led
      <3>4. ASSUME NEW i \in 1..Len(h)
            PROVE  h[i] = Cons(c, t)[i]
        <4>1. i = 1 \/ (i - 1 \in 1..Len(t) /\ (i - 1) + 1 = i)
          BY <3>2, LenProperties
        <4> QED
          BY <3>3, <4>1
      <3> QED
        BY <3>2, <3>3, <3>4, SeqEqual
    <2> HIDE DEF t
    <2>2. \A i \in 1..Len(t) : t[i] # c
      <3>1. /\ Len(h) = Len(t) + 1 /\ Len(t) \in Nat
            /\ \A i \in 1..Len(t) : h[i + 1] = t[i]
        <4>1. Led(h, c, t) /\ Len(t) \in Nat
          BY <2>1, InFront, LenProperties
        <4> QED
          BY <4>1 DEF Led
      <3> TAKE i \in 1..Len(t)
      <3>2. i + 1 \in 1..Len(h) /\ 1 \in 1..Len(h) /\ i + 1 # 1
        BY <3>1
      <3>3. h[i + 1] # h[1]
        BY <3>2 DEF Distinct
      <3> QED
        BY <3>1, <3>3
    <2>3. o = Others(t, c)
      BY <2>1, OthersInFront
    <2>4. Others(t, c) = t
      <3>1. Selects(Others(t, c), t, c)
        BY <2>1, OthersSelects
      <3> QED
        BY <2>2, <3>1 DEF Selects
    <2> QED
      BY <2>1, <2>3, <2>4
  <1>9. Others(h, w) = Cons(c, e)
    <2>1. Others(Cons(c, o), w) = Cons(c, Others(o, w))
      BY <1>1, OthersInFront
    <2> QED
      BY <1>8, <2>1
  <1>10. Begins(o, r) /\ (Len(o) < HistoryCap - 1 => o = r)
    BY DEF Tells
  <1>11. Begins(e, q)
    BY <1>1, <1>10, OthersBegins
  <1> DEFINE f == Cons(c, e)
  <1>12. /\ f \in Seq(S) /\ Len(f) = Len(e) + 1 /\ f[1] = c
         /\ \A i \in 1..Len(e) : f[i + 1] = e[i]
    <2>1. f \in Seq(S) /\ Led(f, c, e)
      BY <1>3, InFront
    <2> QED
      BY <2>1 DEF Led
  <1>13. Begins(f, new)
    <2> HIDE DEF f, e, q, o
    <2>1. ASSUME NEW i \in 1..Len(f)
          PROVE  f[i] = new[i]
      <3>1. i = 1 \/ (i - 1 \in 1..Len(e) /\ (i - 1) + 1 = i)
        BY <1>3, <1>12
      <3>2. ASSUME i # 1
            PROVE  f[i] = e[i - 1] /\ new[i] = q[i - 1] /\ e[i - 1] = q[i - 1]
        <4>1. Len(e) <= Len(q) /\ \A j \in 1..Len(e) : e[j] = q[j]
          BY <1>11 DEF Begins
        <4>2. i - 1 \in 1..Len(e) /\ i - 1 \in 1..Len(q) /\ (i - 1) + 1 = i
          BY <1>2, <1>3, <3>1, <3>2, <4>1
        <4>3. e[i - 1] = q[i - 1]
          BY <4>1, <4>2
        <4>4. f[(i - 1) + 1] = e[i - 1]
          BY <1>12, <4>2
        <4>5. new[(i - 1) + 1] = q[i - 1]
          BY <1>6, <4>2
        <4> QED
          BY <4>2, <4>3, <4>4, <4>5
      <3> QED
        BY <1>6, <1>12, <3>2
    <2> QED
      BY <1>2, <1>3, <1>6, <1>11, <1>12, <2>1 DEF Begins
  <1>14. ASSUME Len(f) < HistoryCap - 1
         PROVE  f = new
    <2>1. Len(o) < HistoryCap - 1
      BY <1>1, <1>3, <1>12, <1>14, RuntimeAssumption
    <2>2. o = r
      BY <1>10, <2>1
    <2> QED
      BY <1>5, <2>2
  <1> QED
    BY <1>6, <1>7, <1>9, <1>13, <1>14 DEF Tells, new

--------------------------------------------------------------------------------
(* The history.                                                            *)

\* The list has the current build in front.
Leads(h) == Len(h) > 0 /\ h[1] = current

HistTyped ==
  /\ history \in Seq(Builds)
  /\ recent \in Seq(Builds)
  /\ entries \in [Procs -> Seq(Builds)]
  /\ old \in [Procs -> Builds \cup {None}]
  /\ default \in [Procs -> BOOLEAN]
  /\ raced \in BOOLEAN

\* The lists: history.json with its cap, and what was current before.
ListsInv ==
  /\ Distinct(history) /\ Len(history) <= HistoryCap
  /\ current = None => history = <<>> /\ recent = <<>>
  /\ ~raced => /\ \A i \in 1..Len(recent) : recent[i] # current
               /\ Tells(Others(history, current), recent)

\* What a process in the middle of an activation has read is still so.
InStep(p) ==
  /\ pc[p] = "choose" => old[p] = current
  /\ pc[p] \in {"readHistory", "writeHistory"} =>
       old[p] = current /\ current # want[p]
  /\ pc[p] = "writeHistory" =>
       Leads(entries[p]) /\ Tells(Others(entries[p], current), recent)
  /\ pc[p] = "writeCurrent" /\ current \notin {None, want[p]} => Leads(history)
  /\ pc[p] \in Writing /\ default[p] =>
       want[p] # current /\ \E i \in 1..Len(recent) : recent[i] = want[p]

\* The history it is about to write is one, though others change the pointers.
HistProc(p) ==
  /\ Distinct(entries[p]) /\ Len(entries[p]) <= HistoryCap
  /\ default[p] => pc[p] \in Writing \cup {"idle"}
  /\ pc[p] \in {"readHistory", "writeHistory"} => current # None
  /\ pc[p] = "readHistory" => old[p] # None
  /\ ~raced => InStep(p)

\* Without a race one process at a time changes the pointers.
Solo ==
  ~raced => \A p, q \in Procs :
              pc[p] \in Activating /\ pc[q] \in Activating => p = q

HistInv == HistTyped /\ ListsInv /\ Solo /\ \A p \in Procs : HistProc(p)

LEMMA HistInit == Init => HistInv
  <1> SUFFICES ASSUME Init PROVE HistInv
    OBVIOUS
  <1>1. HistTyped
    BY EmptySeq DEF Init, HistTyped
  <1>2. /\ history = <<>> /\ recent = <<>> /\ Len(<<>>) = 0
        /\ Others(<<>>, current) = <<>>
    BY EmptySeq, OthersEmpty DEF Init
  <1>3. ListsInv
    <2>1. ASSUME NEW z, Len(z) = 0
          PROVE  Distinct(z) /\ Tells(z, z) /\ Len(z) <= HistoryCap
      BY <2>1, RuntimeAssumption DEF Distinct, Tells, Begins
    <2>2. Distinct(<<>>) /\ Tells(<<>>, <<>>) /\ Len(<<>>) <= HistoryCap
      BY <1>2, <2>1
    <2>3. \A i \in 1..Len(recent) : recent[i] # current
      BY <1>2
    <2> QED
      BY <1>2, <2>2, <2>3 DEF ListsInv
  <1>4. Solo
    BY DEF Init, Solo, Activating
  <1>5. ASSUME NEW p \in Procs
        PROVE  HistProc(p)
    <2>1. /\ entries[p] = <<>> /\ pc[p] = "idle" /\ ~default[p]
          /\ Len(<<>>) = 0
      BY <1>2 DEF Init
    <2>2. ASSUME NEW z, Len(z) = 0
          PROVE  Distinct(z) /\ Len(z) <= HistoryCap
      BY <2>2, RuntimeAssumption DEF Distinct
    <2>3. Distinct(entries[p]) /\ Len(entries[p]) <= HistoryCap
      BY <2>1, <2>2
    <2> QED
      BY <2>1, <2>3 DEF HistProc, InStep, Writing
  <1> QED
    BY <1>1, <1>3, <1>4, <1>5 DEF HistInv

\* A step of p leaves what the other processes have in hand.
Own(p) ==
  /\ \A q \in Procs \ {p} :
       /\ pc'[q] = pc[q] /\ want'[q] = want[q] /\ old'[q] = old[q]
       /\ entries'[q] = entries[q] /\ default'[q] = default[q]
  /\ raced => raced'

\* It changes the lists and the pointer only when it is in an activation.
Pointers(p) ==
  \/ UNCHANGED <<history, current, recent>>
  \/ pc[p] \in Activating /\ (current # None => current' # None)

\* What another process has read is still so, or the two have raced.
LEMMA OthersInOrder ==
  ASSUME HistInv, NEW p \in Procs, Own(p), Pointers(p), NEW q \in Procs, q # p
  PROVE  HistProc(q)'
  <1>1. /\ pc'[q] = pc[q] /\ want'[q] = want[q] /\ old'[q] = old[q]
        /\ entries'[q] = entries[q] /\ default'[q] = default[q]
        /\ raced => raced'
    BY DEF Own
  <1>2. HistProc(q)
    BY DEF HistInv
  <1>3. current # None => current' # None
    BY DEF Pointers
  <1>4. /\ Distinct(entries'[q]) /\ Len(entries'[q]) <= HistoryCap
        /\ default'[q] => pc'[q] \in Writing \cup {"idle"}
        /\ pc'[q] \in {"readHistory", "writeHistory"} => current' # None
        /\ pc'[q] = "readHistory" => old'[q] # None
    BY <1>1, <1>2, <1>3 DEF HistProc
  <1>5. ASSUME ~raced'
        PROVE  InStep(q)'
    <2>1. ~raced /\ InStep(q)
      BY <1>1, <1>2, <1>5 DEF HistProc
    <2>2. CASE UNCHANGED <<history, current, recent>>
      BY <1>1, <2>1, <2>2 DEF InStep, Leads
    <2>3. CASE pc[p] \in Activating
      <3>1. pc'[q] \notin Activating
        BY <1>1, <2>1, <2>3 DEF HistInv, Solo
      <3> QED
        BY <3>1 DEF InStep, Activating, Writing
    <2> QED
      BY <2>2, <2>3 DEF Pointers
  <1> QED
    BY <1>4, <1>5 DEF HistProc

\* A step of p keeps the invariant if it does so for the lists and for p, and
\* a process that enters an activation has looked for another in one.
LEMMA HistStep ==
  ASSUME HistInv, NEW p \in Procs, Own(p), Pointers(p),
         HistTyped', ListsInv', HistProc(p)',
         ~raced' /\ pc'[p] \in Activating =>
           pc[p] \in Activating \/ \A q \in Procs \ {p} : pc[q] \notin Activating
  PROVE  HistInv'
  <1>1. \A q \in Procs : HistProc(q)'
    BY OthersInOrder
  <1>2. Solo'
    <2>1. SUFFICES ASSUME ~raced', NEW q \in Procs, NEW r \in Procs,
                          pc'[q] \in Activating, pc'[r] \in Activating
                   PROVE  q = r
      BY DEF Solo
    <2>2. ~raced /\ \A s \in Procs \ {p} : pc'[s] = pc[s]
      BY <2>1 DEF Own
    <2>3. \A s, t \in Procs : pc[s] \in Activating /\ pc[t] \in Activating => s = t
      BY <2>2 DEF HistInv, Solo
    <2> QED
      BY <2>1, <2>2, <2>3
  <1> QED
    BY <1>1, <1>2 DEF HistInv

\* Steps that leave the lists and the pointer alone.
LEMMA ListsKept ==
  ASSUME ListsInv, UNCHANGED <<history, current, recent>>, raced => raced'
  PROVE  ListsInv'
  BY DEF ListsInv

\* A process goes to a label with the history it had.  It may begin an
\* activation that no rollback has chosen, having looked for another one.
LEMMA HistGoes ==
  ASSUME IInv, HistInv, NEW p \in Procs, NEW l \in Labels,
         pc' = [pc EXCEPT ![p] = l],
         \A q \in Procs \ {p} : want'[q] = want[q],
         UNCHANGED <<history, current, recent, old, entries>>,
         \A q \in Procs \ {p} : default'[q] = default[q],
         default' \in [Procs -> BOOLEAN],
         l = "idle" \/ ~default'[p],
         \/ l \notin Activating /\ raced' = raced
         \/ l = "readCurrent" /\ Enter(p)
  PROVE  HistInv'
  <1>1. pc'[p] = l /\ \A q \in Procs \ {p} : pc'[q] = pc[q]
    BY DEF IInv, Typed
  <1>2. /\ raced' \in BOOLEAN /\ (raced => raced')
        /\ l \in Activating /\ ~raced' => \A q \in Procs \ {p} : pc[q] \notin Activating
    BY DEF HistInv, HistTyped, Enter
  <1>3. Own(p) /\ Pointers(p)
    BY <1>1, <1>2 DEF Own, Pointers
  <1>4. HistTyped'
    BY <1>2 DEF HistInv, HistTyped
  <1>5. ListsInv'
    BY <1>2, ListsKept DEF HistInv
  <1>6. HistProc(p)'
    <2>1. Distinct(entries[p]) /\ Len(entries[p]) <= HistoryCap
      BY DEF HistInv, HistProc
    <2>2. l \notin Activating \/ l = "readCurrent"
      OBVIOUS
    <2>3. l \notin {"choose", "readHistory", "writeHistory", "writeCurrent"}
      BY <2>2 DEF Activating
    <2>4. l \in Writing => l # "idle"
      BY DEF Writing
    <2>5. InStep(p)'
      BY <1>1, <2>3, <2>4 DEF InStep
    <2> QED
      BY <1>1, <2>1, <2>3, <2>5 DEF HistProc
  <1> QED
    BY <1>1, <1>2, <1>3, <1>4, <1>5, <1>6, HistStep

\* The start of an operation.
LEMMA HistBegin ==
  ASSUME IInv, HistInv, NEW p \in Procs,
         NEW l \in {"cached", "check", "rollback", "named"},
         NEW b, Begin(p, l, b)
  PROVE  HistInv'
  <1>1. l \in Labels /\ l \notin Activating
    BY DEF Labels, Activating
  <1>2. /\ pc' = [pc EXCEPT ![p] = l]
        /\ UNCHANGED <<history, current, recent, old, entries, raced>>
    BY DEF Begin, Goto, diskVars, ghostVars
  <1>3. \A q \in Procs \ {p} : want'[q] = want[q]
    BY DEF Begin, IInv, Typed
  <1>4. /\ default' \in [Procs -> BOOLEAN] /\ ~default'[p]
        /\ \A q \in Procs \ {p} : default'[q] = default[q]
    BY DEF Begin, HistInv, HistTyped
  <1> QED
    BY <1>1, <1>2, <1>3, <1>4, HistGoes

\* The steps that prepare an activation, and a stop.
LEMMA HistPrepare ==
  ASSUME IInv, HistInv, NEW p \in Procs,
         \/ LookInCache(p) \/ Download(p) \/ Extract(p) \/ Check(p) \/ Stage(p)
         \/ Rename(p) \/ ReadInstalled(p) \/ LookNamed(p) \/ Stop(p)
  PROVE  HistInv'
  <1> DEFINE After == {"download", "extract", "check", "stage", "rename",
                       "readInstalled", "readCurrent", "idle"}
  <1>1. UNCHANGED <<history, current, recent, old, entries, default>>
    BY DEF LookInCache, Download, Extract, Check, Stage, Rename, ReadInstalled,
           LookNamed, Stop, ProcOnly, diskVars, ghostVars
  <1>2. PICK l \in After :
          /\ pc' = [pc EXCEPT ![p] = l]
          /\ \/ l # "readCurrent" /\ raced' = raced
             \/ l = "readCurrent" /\ Enter(p)
    BY DEF LookInCache, Download, Extract, Check, Stage, Rename, ReadInstalled,
           LookNamed, Stop, Goto, ghostVars
  <1>3. l \in Labels /\ (l # "readCurrent" => l \notin Activating)
    BY DEF Labels, Activating
  <1>4. \A q \in Procs \ {p} : want'[q] = want[q]
    BY DEF LookInCache, Download, Extract, Check, Stage, Rename, ReadInstalled,
           LookNamed, Stop, IInv, Typed
  <1>5. l = "idle" \/ ~default[p]
    <2>1. CASE Stop(p)
      <3>1. pc'[p] = "idle" /\ pc'[p] = l
        BY <1>2, <2>1 DEF Stop, IInv, Typed
      <3> QED
        BY <3>1
    <2>2. CASE ~Stop(p)
      <3>1. pc[p] \in {"cached", "download", "extract", "check", "stage",
                       "rename", "readInstalled", "named"}
        BY <2>2 DEF LookInCache, Download, Extract, Check, Stage, Rename,
                    ReadInstalled, LookNamed, Goto
      <3>2. default[p] => pc[p] \in Writing \cup {"idle"}
        BY DEF HistInv, HistProc
      <3> QED
        BY <3>1, <3>2 DEF Writing
    <2> QED
      BY <2>1, <2>2
  <1>6. default' \in [Procs -> BOOLEAN] /\ default'[p] = default[p]
        /\ \A q \in Procs \ {p} : default'[q] = default[q]
    BY <1>1 DEF HistInv, HistTyped
  <1> HIDE DEF After
  <1> QED
    BY <1>1, <1>2, <1>3, <1>4, <1>5, <1>6, HistGoes

\* rollback reads the pointer.
LEMMA HistLookCurrent ==
  ASSUME IInv, HistInv, NEW p \in Procs, LookCurrent(p)
  PROVE  HistInv'
  <1> DEFINE l == IF Ready(current) THEN "choose" ELSE "idle"
  <1>1. /\ pc' = [pc EXCEPT ![p] = l] /\ old' = [old EXCEPT ![p] = current]
        /\ UNCHANGED <<history, current, recent, want, entries, default>>
    BY DEF LookCurrent, Goto, diskVars
  <1>2. /\ \/ l = "choose" /\ Enter(p)
           \/ l = "idle" /\ raced' = raced
        /\ pc[p] = "rollback"
    BY DEF LookCurrent, Goto
  <1> HIDE DEF l
  <1>3. /\ pc'[p] = l /\ old'[p] = current
        /\ \A q \in Procs \ {p} : pc'[q] = pc[q] /\ old'[q] = old[q]
    BY <1>1 DEF IInv, Typed, HistInv, HistTyped
  <1>4. /\ raced' \in BOOLEAN /\ (raced => raced')
        /\ l \in Activating /\ ~raced' => \A q \in Procs \ {p} : pc[q] \notin Activating
    BY <1>2 DEF HistInv, HistTyped, Enter, Activating
  <1>5. Own(p) /\ Pointers(p)
    BY <1>1, <1>3, <1>4 DEF Own, Pointers
  <1>6. HistTyped'
    BY <1>1, <1>4 DEF IInv, Typed, HistInv, HistTyped
  <1>7. ListsInv'
    BY <1>1, <1>4, ListsKept DEF HistInv
  <1>8. HistProc(p)'
    <2>1. Distinct(entries[p]) /\ Len(entries[p]) <= HistoryCap /\ ~default[p]
      BY <1>2 DEF HistInv, HistProc, Writing
    <2>2. InStep(p)'
      BY <1>1, <1>2, <1>3 DEF InStep, Writing
    <2> QED
      BY <1>1, <1>2, <1>3, <2>1, <2>2 DEF HistProc
  <1> QED
    BY <1>3, <1>4, <1>5, <1>6, <1>7, <1>8, HistStep

\* What a rollback chooses was current before.
LEMMA HistChoose ==
  ASSUME IInv, HistInv, NEW p \in Procs, Choose(p)
  PROVE  HistInv'
  <1>1. UNCHANGED <<history, current, recent, old, entries, raced>>
    BY DEF Choose, diskVars, ghostVars
  <1>2. pc[p] = "choose" /\ "idle" \in Labels /\ "idle" \notin Activating
    BY DEF Choose, Goto, Labels, Activating
  <1>3. CASE pc' = [pc EXCEPT ![p] = "idle"] /\ UNCHANGED <<want, default>>
    <2>1. default' \in [Procs -> BOOLEAN]
      BY <1>3 DEF HistInv, HistTyped
    <2> QED
      BY <1>1, <1>2, <1>3, <2>1, HistGoes
  <1>4. ASSUME NEW b \in Builds, Previous(b, old[p]),
               pc' = [pc EXCEPT ![p] = "readCurrent"],
               want' = [want EXCEPT ![p] = b],
               default' = [default EXCEPT ![p] = TRUE]
        PROVE  HistInv'
    <2>1. /\ pc'[p] = "readCurrent" /\ want'[p] = b
          /\ \A q \in Procs \ {p} : /\ pc'[q] = pc[q] /\ want'[q] = want[q]
                                    /\ default'[q] = default[q]
      BY <1>4 DEF IInv, Typed, HistInv, HistTyped
    <2>2. Own(p) /\ Pointers(p)
      BY <1>1, <2>1 DEF Own, Pointers
    <2>3. HistTyped' /\ ListsInv'
      BY <1>1, <1>4, ListsKept DEF HistInv, HistTyped
    <2>4. ASSUME ~raced
          PROVE  b # current /\ \E i \in 1..Len(recent) : recent[i] = b
      <3>1. old[p] = current
        BY <1>2, <2>4 DEF HistInv, HistProc, InStep
      <3>2. history \in Seq(Builds) /\ recent \in Seq(Builds)
        BY DEF HistInv, HistTyped
      <3>3. PICK i \in 1..Len(history) : history[i] = b /\ b # current
        BY <1>4, <3>1, <3>2, LenProperties DEF Previous, Eligible
      <3> DEFINE o == Others(history, current)
      <3>4. Selects(o, history, current) /\ o \in Seq(Builds)
        BY <3>2, OthersSelects
      <3>5. Begins(o, recent)
        BY <2>4 DEF HistInv, ListsInv, Tells
      <3> HIDE DEF o
      <3>6. PICK k \in 1..Len(o) : o[k] = b
        BY <3>3, <3>4 DEF Selects
      <3>7. Len(o) \in Nat /\ Len(recent) \in Nat
        BY <3>2, <3>4, LenProperties
      <3>8. k \in 1..Len(recent) /\ recent[k] = b
        BY <3>5, <3>6, <3>7 DEF Begins
      <3> QED
        BY <3>3, <3>8
    <2>5. HistProc(p)'
      <3>1. Distinct(entries[p]) /\ Len(entries[p]) <= HistoryCap
        BY DEF HistInv, HistProc
      <3>2. ASSUME ~raced
            PROVE  InStep(p)'
        BY <1>1, <2>1, <2>4, <3>2 DEF InStep
      <3> QED
        BY <1>1, <2>1, <3>1, <3>2 DEF HistProc, Writing
    <2> QED
      BY <1>2, <2>2, <2>3, <2>5, HistStep DEF Activating
  <1> QED
    BY <1>3, <1>4 DEF Choose, Goto

\* _activate_package reads the pointer.
LEMMA HistReadCurrent ==
  ASSUME IInv, HistInv, NEW p \in Procs, ReadCurrent(p)
  PROVE  HistInv'
  <1> DEFINE l == IF current \in {None, want[p]} THEN "writeCurrent"
                  ELSE "readHistory"
  <1>1. /\ pc' = [pc EXCEPT ![p] = l] /\ old' = [old EXCEPT ![p] = current]
        /\ UNCHANGED <<history, current, recent, want, entries, default, raced>>
    BY DEF ReadCurrent, Goto, diskVars, ghostVars
  <1>2. /\ \/ l = "writeCurrent" /\ current \in {None, want[p]}
           \/ l = "readHistory" /\ current \notin {None, want[p]}
        /\ pc[p] = "readCurrent"
    BY DEF ReadCurrent, Goto
  <1> HIDE DEF l
  <1>3. /\ pc'[p] = l /\ old'[p] = current
        /\ \A q \in Procs \ {p} : pc'[q] = pc[q] /\ old'[q] = old[q]
    BY <1>1 DEF IInv, Typed, HistInv, HistTyped
  <1>4. Own(p) /\ Pointers(p)
    BY <1>1, <1>3 DEF Own, Pointers
  <1>5. HistTyped' /\ ListsInv'
    BY <1>1, ListsKept DEF IInv, Typed, HistInv, HistTyped
  <1>6. HistProc(p)'
    <2>1. /\ Distinct(entries[p]) /\ Len(entries[p]) <= HistoryCap
          /\ ~raced => InStep(p)
      BY DEF HistInv, HistProc
    <2>2. ASSUME ~raced
          PROVE  InStep(p)'
      BY <1>1, <1>2, <1>3, <2>1, <2>2 DEF InStep, Writing
    <2> QED
      BY <1>1, <1>2, <1>3, <2>1, <2>2 DEF HistProc, Writing
  <1> QED
    BY <1>2, <1>4, <1>5, <1>6, HistStep DEF Activating

\* It reads the history and puts that pointer in front.
LEMMA HistReadHistory ==
  ASSUME IInv, HistInv, NEW p \in Procs, ReadHistory(p)
  PROVE  HistInv'
  <1> DEFINE new == Cut(Cons(old[p], Others(history, old[p])))
  <1>1. /\ pc' = [pc EXCEPT ![p] = "writeHistory"] /\ pc[p] = "readHistory"
        /\ entries' = [entries EXCEPT ![p] = new]
        /\ UNCHANGED <<history, current, recent, want, old, default, raced>>
    BY DEF ReadHistory, Goto, diskVars, ghostVars, Cut, Cons
  <1>2. /\ old[p] \in Builds /\ current # None
        /\ history \in Seq(Builds) /\ recent \in Seq(Builds) /\ Distinct(history)
    BY <1>1 DEF HistInv, HistProc, HistTyped, ListsInv
  <1>3. /\ new \in Seq(Builds) /\ Len(new) \in 1..HistoryCap
        /\ new[1] = old[p] /\ Distinct(new)
    BY <1>2, CutInFront
  <1>4. ASSUME ~raced
        PROVE  old[p] = current /\ Tells(Others(new, current), recent)
    <2>1. old[p] = current
      BY <1>1, <1>4 DEF HistInv, HistProc, InStep
    <2>2. Tells(Others(history, old[p]), recent)
      BY <1>4, <2>1 DEF HistInv, ListsInv
    <2>3. Tells(Others(new, old[p]), recent)
      BY <1>2, <2>2, CutTells
    <2> QED
      BY <2>1, <2>3
  <1> HIDE DEF new
  <1>5. /\ pc'[p] = "writeHistory" /\ entries'[p] = new
        /\ \A q \in Procs \ {p} : pc'[q] = pc[q] /\ entries'[q] = entries[q]
    BY <1>1 DEF IInv, Typed, HistInv, HistTyped
  <1>6. Own(p) /\ Pointers(p)
    BY <1>1, <1>5 DEF Own, Pointers
  <1>7. HistTyped' /\ ListsInv'
    BY <1>1, <1>3, ListsKept DEF HistInv, HistTyped
  <1>8. HistProc(p)'
    <2>1. ~raced => InStep(p)
      BY DEF HistInv, HistProc
    <2>2. ASSUME ~raced
          PROVE  InStep(p)'
      <3>1. Len(new) > 0 /\ new[1] = current
        BY <1>3, <1>4, <2>2
      <3>2. Leads(entries[p])' /\ Tells(Others(entries[p], current), recent)'
        BY <1>1, <1>4, <1>5, <2>2, <3>1 DEF Leads
      <3> QED
        BY <1>1, <1>5, <2>1, <2>2, <3>2 DEF InStep, Writing
    <2>3. Len(new) <= HistoryCap
      BY <1>3, RuntimeAssumption
    <2> QED
      BY <1>1, <1>2, <1>3, <1>5, <2>2, <2>3 DEF HistProc, Writing
  <1> QED
    BY <1>1, <1>6, <1>7, <1>8, HistStep DEF Activating

\* It writes the history.
LEMMA HistWriteHistory ==
  ASSUME IInv, HistInv, NEW p \in Procs, WriteHistory(p)
  PROVE  HistInv'
  <1>1. /\ pc' = [pc EXCEPT ![p] = "writeCurrent"] /\ pc[p] = "writeHistory"
        /\ history' = entries[p]
        /\ UNCHANGED <<current, recent, want, old, entries, default, raced>>
    BY DEF WriteHistory, Goto, ghostVars
  <1>2. /\ entries[p] \in Seq(Builds) /\ Distinct(entries[p])
        /\ Len(entries[p]) <= HistoryCap /\ current # None
        /\ ~raced => InStep(p)
        /\ default[p] => pc[p] \in Writing \cup {"idle"}
    BY <1>1 DEF HistInv, HistTyped, HistProc
  <1>3. pc'[p] = "writeCurrent" /\ \A q \in Procs \ {p} : pc'[q] = pc[q]
    BY <1>1 DEF IInv, Typed
  <1>4. Own(p) /\ Pointers(p)
    BY <1>1, <1>3 DEF Own, Pointers, Activating
  <1>5. HistTyped'
    BY <1>1, <1>2 DEF HistInv, HistTyped
  <1>6. ListsInv'
    <2>1. ~raced => Tells(Others(entries[p], current), recent)
      BY <1>1, <1>2 DEF InStep
    <2>2. ~raced => \A i \in 1..Len(recent) : recent[i] # current
      BY DEF HistInv, ListsInv
    <2> QED
      BY <1>1, <1>2, <2>1, <2>2 DEF ListsInv
  <1>7. HistProc(p)'
    <2>1. ASSUME ~raced
          PROVE  InStep(p)'
      <3>1. Leads(history)'
        BY <1>1, <1>2, <2>1 DEF InStep, Leads
      <3> QED
        BY <1>1, <1>2, <1>3, <2>1, <3>1 DEF InStep, Writing
    <2> QED
      BY <1>1, <1>2, <1>3, <2>1 DEF HistProc, Writing
  <1> QED
    BY <1>1, <1>4, <1>5, <1>6, <1>7, HistStep DEF Activating

\* It writes the pointer: what was current is the most recent of the earlier
\* builds now, and what is current none of them.
LEMMA HistWriteCurrent ==
  ASSUME IInv, HistInv, NEW p \in Procs, WriteCurrent(p)
  PROVE  HistInv'
  <1> DEFINE w == want[p]
  <1>1. /\ pc' = [pc EXCEPT ![p] = "idle"] /\ pc[p] = "writeCurrent"
        /\ current' = w
        /\ recent' = IF current \in {None, w} THEN recent
                     ELSE Switched(recent, current, w)
        /\ UNCHANGED <<history, want, old, entries, default, raced>>
    BY DEF WriteCurrent, Goto, Switched, Cons
  <1>2. w \in Builds /\ w # None /\ current \in Builds \cup {None}
    BY <1>1 DEF IInv, Typed, WantedIsInstalled
  <1>3. /\ history \in Seq(Builds) /\ recent \in Seq(Builds) /\ Distinct(history)
        /\ Len(history) <= HistoryCap /\ raced \in BOOLEAN
    BY DEF HistInv, HistTyped, ListsInv
  <1> HIDE DEF w
  <1>4. pc'[p] = "idle" /\ \A q \in Procs \ {p} : pc'[q] = pc[q]
    BY <1>1 DEF IInv, Typed
  <1>5. Own(p) /\ Pointers(p)
    BY <1>1, <1>2, <1>4 DEF Own, Pointers, Activating
  <1>6. recent' \in Seq(Builds)
    <2>1. CASE current \in {None, w}
      BY <1>1, <1>3, <2>1
    <2>2. CASE current \notin {None, w}
      <3>1. Others(Others(recent, w), current) \in Seq(Builds) /\ current \in Builds
        BY <1>2, <1>3, <2>2, OthersSelects
      <3>2. Switched(recent, current, w) \in Seq(Builds)
        BY <3>1, InFront DEF Switched
      <3> QED
        BY <1>1, <2>2, <3>2
    <2> QED
      BY <2>1, <2>2
  <1>7. HistTyped'
    BY <1>1, <1>6 DEF HistInv, HistTyped
  <1>8. ASSUME ~raced
        PROVE  /\ \A i \in 1..Len(recent') : recent'[i] # w
               /\ Tells(Others(history, w), recent')
    <2>1. /\ \A i \in 1..Len(recent) : recent[i] # current
          /\ Tells(Others(history, current), recent)
          /\ current = None => history = <<>> /\ recent = <<>>
      BY <1>8 DEF HistInv, ListsInv
    <2>2. CASE current = w
      BY <1>1, <2>1, <2>2
    <2>3. CASE current = None
      <3>1. recent' = <<>> /\ history = <<>> /\ recent = <<>> /\ Len(<<>>) = 0
        BY <1>1, <2>1, <2>3, EmptySeq
      <3>2. Others(history, w) = Others(history, current)
        BY <3>1, OthersEmpty
      <3> QED
        BY <2>1, <3>1, <3>2
    <2>4. CASE current \notin {None, w}
      <3>1. InStep(p)
        BY <1>8 DEF HistInv, HistProc
      <3>2. Len(history) > 0 /\ history[1] = current
        BY <1>1, <2>4, <3>1 DEF InStep, Leads, w
      <3>3. current \in Builds /\ current # w
        BY <1>2, <2>4
      <3>4. /\ \A i \in 1..Len(Switched(recent, current, w)) :
                 Switched(recent, current, w)[i] # w
            /\ Tells(Others(history, w), Switched(recent, current, w))
        BY <1>2, <1>3, <2>1, <3>2, <3>3, SwitchTells
      <3> QED
        BY <1>1, <2>4, <3>4
    <2> QED
      BY <2>2, <2>3, <2>4
  <1>9. ListsInv'
    BY <1>1, <1>2, <1>3, <1>8 DEF ListsInv
  <1>10. HistProc(p)'
    <2>1. Distinct(entries[p]) /\ Len(entries[p]) <= HistoryCap
      BY DEF HistInv, HistProc
    <2>2. InStep(p)'
      BY <1>4 DEF InStep, Writing
    <2> QED
      BY <1>1, <1>4, <2>1, <2>2 DEF HistProc
  <1> QED
    BY <1>4, <1>5, <1>7, <1>9, <1>10, HistStep DEF Activating

\* Every step keeps the invariant.
LEMMA HistNext ==
  ASSUME IInv, HistInv, [Next]_vars
  PROVE  HistInv'
  <1>1. CASE \E p \in Procs, b \in Builds :
               Fetch(p, b) \/ Install(p, b) \/ RollbackTo(p, b)
    BY <1>1, HistBegin DEF Fetch, Install, RollbackTo
  <1>2. CASE \E p \in Procs : Rollback(p)
    BY <1>2, HistBegin DEF Rollback
  <1>3. CASE \E p \in Procs : Step(p)
    <2>1. PICK p \in Procs : Step(p)
      BY <1>3
    <2> QED
      BY <2>1, HistPrepare, HistLookCurrent, HistChoose, HistReadCurrent,
         HistReadHistory, HistWriteHistory, HistWriteCurrent DEF Step
  <1>4. CASE UNCHANGED <<current, history, procVars, ghostVars>>
    <2>1. ListsInv'
      BY <1>4, ListsKept DEF HistInv, ghostVars
    <2>2. HistTyped' /\ Solo'
      BY <1>4 DEF HistInv, HistTyped, Solo, procVars, ghostVars
    <2>3. ASSUME NEW q \in Procs
          PROVE  HistProc(q)'
      BY <1>4 DEF HistInv, HistProc, InStep, Leads, procVars, ghostVars
    <2> QED
      BY <2>1, <2>2, <2>3 DEF HistInv
  <1>5. CASE \/ \E v \in Versions : Damage(v) \/ Delete(v)
             \/ \E b \in Released : SpoilCache(b)
    BY <1>4, <1>5 DEF Damage, Delete, SpoilCache, Fault
  <1>6. CASE UNCHANGED vars
    BY <1>4, <1>6 DEF vars, diskVars
  <1> QED
    BY <1>1, <1>2, <1>3, <1>5, <1>6 DEF Next

LEMMA HistHolds == Spec => [](IInv /\ HistInv)
  BY InitInv, NextInv, HistInit, HistNext, PTL DEF Spec

\* history.json, for any cap and any number of processes and builds, is the list
\* of what was current before, as far as it goes and wherever an activation was
\* stopped; what it leaves out was dropped by the cap.
THEOREM HistoryTellsThePast == Spec => []HistoryIsRecent
  <1>1. HistInv => HistoryIsRecent
    <2> SUFFICES ASSUME HistInv, ~raced
                 PROVE  /\ IsPrefix(Earlier, recent)
                        /\ Len(Earlier) < HistoryCap - 1 => Earlier = recent
      BY DEF HistoryIsRecent
    <2> DEFINE e == Others(history, current)
    <2>1. e \in Seq(Builds) /\ recent \in Seq(Builds) /\ Tells(e, recent)
      BY OthersSelects DEF HistInv, HistTyped, ListsInv
    <2> HIDE DEF e
    <2>2. /\ Len(e) \in Nat /\ Len(recent) \in Nat /\ Len(e) <= Len(recent)
          /\ \A i \in 1..Len(e) : e[i] \in Builds /\ recent[i] \in Builds
          /\ \A i \in 1..Len(e) : e[i] = recent[i]
      BY <2>1, LenProperties DEF Tells, Begins
    <2> DEFINE n == Len(e)
               s == SubSeq(e, 1, n)
               t == SubSeq(recent, 1, n)
    <2>3. /\ s \in Seq(Builds) /\ Len(s) = n
          /\ \A i \in 1..n : s[i] = e[i]
      <3>1. /\ s \in Seq(Builds) /\ Len(s) = IF 1 <= n THEN n - 1 + 1 ELSE 0
            /\ \A i \in 1..(n - 1 + 1) : s[i] = e[1 + i - 1]
        BY <2>2, SubSeqProperties
      <3> QED
        BY <2>2, <3>1
    <2>4. /\ t \in Seq(Builds) /\ Len(t) = n
          /\ \A i \in 1..n : t[i] = recent[i]
      <3>1. /\ t \in Seq(Builds) /\ Len(t) = IF 1 <= n THEN n - 1 + 1 ELSE 0
            /\ \A i \in 1..(n - 1 + 1) : t[i] = recent[1 + i - 1]
        BY <2>2, SubSeqProperties
      <3> QED
        BY <2>2, <3>1
    <2>5. s = t
      <3> HIDE DEF s, t, n
      <3> QED
        BY <2>2, <2>3, <2>4, SeqEqual DEF n
    <2> QED
      BY <2>1, <2>2, <2>5 DEF e, Earlier, IsPrefix, Tells
  <1> QED
    BY <1>1, HistHolds, PTL

\* A rollback that names no version leaves another build current, one that was
\* current before: the entry it chose cannot be the pointer, though an
\* activation may have been stopped after it put the pointer in the history.
THEOREM RollbackFindsThePast == Spec => RollbackSwitches
  <1>1. IInv /\ HistInv =>
          \A p \in Procs :
            WriteCurrent(p) /\ default[p] /\ ~raced =>
              \E i \in 1..Len(recent) : recent[i] = current' /\ current' # current
    <2> SUFFICES ASSUME HistInv, NEW p \in Procs, WriteCurrent(p), default[p], ~raced
                 PROVE  \E i \in 1..Len(recent) : recent[i] = current' /\ current' # current
      OBVIOUS
    <2>1. pc[p] = "writeCurrent" /\ current' = want[p]
      BY DEF WriteCurrent, Goto
    <2> QED
      BY <2>1 DEF HistInv, HistProc, InStep, Writing
  <1> QED
    BY <1>1, HistHolds, PTL DEF RollbackSwitches
--------------------------------------------------------------------------------
(* The rest of the types.                                                  *)

DiskTyped ==
  /\ damaged \subseteq {v \in Versions : pkg[v] # None}
  /\ cache \in [Released -> {"absent", "good", "bad"}]
  /\ ops \in 0..MaxOps
  /\ faults \in 0..MaxFaults
  /\ deleted \subseteq Versions

LEMMA DiskTypedNext ==
  ASSUME IInv, DiskTyped, [Next]_vars
  PROVE  DiskTyped'
  <1>1. CASE \E p \in Procs, b \in Builds \cup {None}, l \in Labels : Begin(p, l, b)
    BY <1>1, RuntimeAssumption DEF Begin, DiskTyped, diskVars
  <1>2. CASE \E p \in Procs : Download(p)
    <2>1. PICK p \in Procs : Download(p)
      BY <1>2
    <2>2. cache' \in [Released -> {"absent", "good", "bad"}]
      BY <2>1 DEF Download, DiskTyped
    <2> QED
      BY <2>1, <2>2 DEF Download, DiskTyped, boundVars
  <1>3. CASE \E p \in Procs : Rename(p)
    <2>1. PICK p \in Procs : Rename(p)
      BY <1>3
    <2>2. want[p] \in Builds /\ VersionOf[want[p]] \in Versions /\ want[p] # None
      BY <2>1, RuntimeAssumption DEF Rename, Goto, IInv, Typed, Versions
    <2>3. \A v \in Versions : pkg[v] # None => pkg'[v] # None
      BY <2>1, <2>2 DEF Rename, IInv, Typed, PackagesTyped
    <2> QED
      BY <2>1, <2>3 DEF Rename, DiskTyped, boundVars
  <1>4. CASE \E p \in Procs : Step(p) /\ ~Download(p) /\ ~Rename(p)
    <2>1. UNCHANGED <<pkg, damaged, cache, boundVars>>
      BY <1>4 DEF Step, LookInCache, Extract, Check, Stage, ReadInstalled,
           LookNamed, LookCurrent, Choose, ReadCurrent, ReadHistory,
           WriteHistory, WriteCurrent, Stop, ProcOnly, diskVars
    <2> QED
      BY <2>1 DEF DiskTyped, boundVars
  <1>5. CASE \E v \in Versions : Damage(v)
    BY <1>5, RuntimeAssumption DEF Damage, Fault, DiskTyped
  <1>6. CASE \E v \in Versions : Delete(v)
    BY <1>6, RuntimeAssumption DEF Delete, Fault, DiskTyped, IInv, Typed,
       PackagesTyped
  <1>7. CASE \E b \in Released : SpoilCache(b)
    <2>1. PICK b \in Released : SpoilCache(b)
      BY <1>7
    <2>2. cache' \in [Released -> {"absent", "good", "bad"}]
      BY <2>1 DEF SpoilCache, DiskTyped
    <2> QED
      BY <2>1, <2>2, RuntimeAssumption DEF SpoilCache, Fault, DiskTyped
  <1>8. CASE UNCHANGED vars
    BY <1>8 DEF vars, diskVars, boundVars, DiskTyped
  <1>9. ASSUME NEW p \in Procs, NEW b \in Builds,
               Fetch(p, b) \/ Install(p, b) \/ RollbackTo(p, b) \/ Rollback(p)
        PROVE  \E l \in Labels, c \in Builds \cup {None} : Begin(p, l, c)
    BY <1>9 DEF Fetch, Install, RollbackTo, Rollback, Labels
  <1>10. ASSUME NEW p \in Procs, Rollback(p)
         PROVE  \E l \in Labels, c \in Builds \cup {None} : Begin(p, l, c)
    BY <1>10 DEF Rollback, Labels
  <1> QED
    BY <1>1, <1>2, <1>3, <1>4, <1>5, <1>6, <1>7, <1>8, <1>9, <1>10 DEF Next

\* The two pointer files, the packages, the cache and what each process has in
\* hand keep their types; the history keeps its cap whatever runs at once.
THEOREM RuntimeTyped == Spec => []TypeOK
  <1>1. Init => DiskTyped
    BY RuntimeAssumption DEF Init, DiskTyped
  <1>2. IInv /\ HistInv /\ DiskTyped => TypeOK
    <2> SUFFICES ASSUME IInv, HistInv, DiskTyped PROVE TypeOK
      OBVIOUS
    <2>1. ASSUME NEW p \in Procs, pc[p] \notin {"idle", "rollback", "named", "choose"}
          PROVE  want[p] # None
      <3>1. pc[p] \in Writing \/
              pc[p] \in {"cached", "download", "extract", "check", "stage",
                         "rename", "readInstalled", "named"}
        BY <2>1 DEF IInv, Typed, Labels, Activating, Writing
      <3> QED
        BY <3>1 DEF IInv, Typed, WantedIsInstalled, Writing
    <2> QED
      BY <2>1 DEF TypeOK, IInv, Typed, PackagesTyped, HistInv, HistTyped,
                  ListsInv, DiskTyped
  <1>3. IInv /\ DiskTyped /\ [Next]_vars => DiskTyped'
    BY DiskTypedNext
  <1> QED
    BY <1>1, <1>2, <1>3, HistHolds, PTL DEF Spec
==============================================================================
