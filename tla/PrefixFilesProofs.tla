--------------------------- MODULE PrefixFilesProofs ---------------------------
(***************************************************************************)
(* What staging, restoring and importing promise about the files of a      *)
(* prefix, for any number of runs, files, forwarders and users' files.     *)
(* What a run has seen of the files holds until somebody else changes one, *)
(* which makes the run late (Seen); a file that was there is there, or in  *)
(* the hands of a run that will put it back (Recoverable).                 *)
(***************************************************************************)
EXTENDS PrefixFiles, TLAPS

Importing == {"import", "backUp", "replace"}

\* The files that the import of j has behind it.
Done(j) ==
  {f \in Files : f \notin j.todo /\ (j.pc = "import" \/ f # j.file)}

\* What the looks of a run mean while nobody else has changed a file.
Seen(j) ==
  ~j.late =>
    /\ j.pc = "aside" => saved = None
    /\ j.pc = "write" /\ j.moved => file[Shared] = None
    /\ j.pc \in {"move", "restore", "undo"} => saved # None
    /\ j.pc = "restore" => file[Shared] = None
    /\ j.pc = "backUp" => copies[j.file][j.name] = None
    /\ j.pc = "replace" =>
         \/ file[j.file] = None
         \/ \E n \in Names : copies[j.file][n] = file[j.file]
    /\ j.pc \in Importing =>
         j.rec = source /\ \A f \in Done(j) : file[f] = j.rec[f]

\* The run has a file in its hands that its failure would put back.
Holds(j) ==
  \/ j.moved /\ Exists(saved)
  \/ Exists(j.temp)

\* The file that was there is there, or a run has it.
Recoverable == had => file[Shared] # None \/ \E p \in Procs : Holds(job[p])

\* A forwarder that could become the saved file came where nothing was saved.
Explained ==
  /\ saved \in Builds => bare \/ raced
  /\ file[Shared] \in Builds /\ saved = None => bare \/ raced

\* The type invariant, as far as the argument needs it.
Shape(j) ==
  /\ j \in Jobs
  /\ j.moved => j.pc \in {"write", "putBack"}
  /\ j.temp # None => j.pc \in {"restore", "undo"}
  /\ j.pc \in {"look", "aside", "write"} => j.build \in Builds
  /\ j.pc = "backUp" => j.name \in Names

Typed ==
  /\ file \in [Files -> Maybe] /\ saved \in Maybe
  /\ copies \in [Files -> [Names -> Maybe]]
  /\ source \in [Files -> Versions]
  /\ job \in [Procs -> Jobs]
  /\ \A p \in Procs : Shape(job[p])

IInv ==
  /\ Typed
  /\ \A p \in Procs : Seen(job[p])
  /\ Recoverable
  /\ Explained

--------------------------------------------------------------------------------
(* Jobs.                                                                   *)

LEMMA NoJobShape == Shape(NoJob) /\ Seen(NoJob) /\ NoJob.pc = "idle" /\ ~Holds(NoJob)
  BY PrefixAssumption DEF Shape, Seen, NoJob, Jobs, Maybe, Holds, Exists, Importing

\* A job with every field named.
Fields(j) ==
  j = [pc |-> j.pc, build |-> j.build, moved |-> j.moved, temp |-> j.temp,
       todo |-> j.todo, file |-> j.file, name |-> j.name, rec |-> j.rec,
       late |-> j.late]

LEMMA JobFields ==
  ASSUME NEW j \in Jobs
  PROVE  Fields(j)
  BY DEF Jobs, Fields

\* A job at another place with one of its fields changed.
LEMMA PlaceAnd ==
  ASSUME NEW j \in Jobs, NEW l, NEW x
  PROVE  /\ [j EXCEPT !.pc = l, !.moved = x] =
              [pc |-> l, build |-> j.build, moved |-> x, temp |-> j.temp,
               todo |-> j.todo, file |-> j.file, name |-> j.name,
               rec |-> j.rec, late |-> j.late]
         /\ [j EXCEPT !.pc = l, !.temp = x] =
              [pc |-> l, build |-> j.build, moved |-> j.moved, temp |-> x,
               todo |-> j.todo, file |-> j.file, name |-> j.name,
               rec |-> j.rec, late |-> j.late]
         /\ [j EXCEPT !.pc = l, !.todo = x] =
              [pc |-> l, build |-> j.build, moved |-> j.moved, temp |-> j.temp,
               todo |-> x, file |-> j.file, name |-> j.name,
               rec |-> j.rec, late |-> j.late]
         /\ [j EXCEPT !.pc = l, !.name = x] =
              [pc |-> l, build |-> j.build, moved |-> j.moved, temp |-> j.temp,
               todo |-> j.todo, file |-> j.file, name |-> x,
               rec |-> j.rec, late |-> j.late]
  <1> DEFINE k == [j EXCEPT !.pc = l]
  <1>1. Fields(j)
    BY JobFields
  <1>2. k = [pc |-> l, build |-> j.build, moved |-> j.moved, temp |-> j.temp,
             todo |-> j.todo, file |-> j.file, name |-> j.name,
             rec |-> j.rec, late |-> j.late]
    BY <1>1 DEF Fields
  <1> HIDE DEF k
  <1>3. [k EXCEPT !.moved = x] =
          [pc |-> l, build |-> j.build, moved |-> x, temp |-> j.temp,
           todo |-> j.todo, file |-> j.file, name |-> j.name,
           rec |-> j.rec, late |-> j.late]
    BY <1>2
  <1>4. [k EXCEPT !.temp = x] =
          [pc |-> l, build |-> j.build, moved |-> j.moved, temp |-> x,
           todo |-> j.todo, file |-> j.file, name |-> j.name,
           rec |-> j.rec, late |-> j.late]
    BY <1>2
  <1>5. [k EXCEPT !.todo = x] =
          [pc |-> l, build |-> j.build, moved |-> j.moved, temp |-> j.temp,
           todo |-> x, file |-> j.file, name |-> j.name,
           rec |-> j.rec, late |-> j.late]
    BY <1>2
  <1>6. [k EXCEPT !.name = x] =
          [pc |-> l, build |-> j.build, moved |-> j.moved, temp |-> j.temp,
           todo |-> j.todo, file |-> j.file, name |-> x,
           rec |-> j.rec, late |-> j.late]
    BY <1>2
  <1> QED
    BY <1>3, <1>4, <1>5, <1>6 DEF k

\* A job made late differs in nothing else.
LEMMA MadeLate ==
  ASSUME NEW j, Shape(j), NEW b \in BOOLEAN
  PROVE  LET k == [j EXCEPT !.late = b]
         IN /\ Shape(k) /\ k.late = b
            /\ k.pc = j.pc /\ k.moved = j.moved /\ k.temp = j.temp
  BY DEF Shape, Jobs

\* Whoever is idle has seen nothing, and whoever is late counts on nothing.
LEMMA LateSeesNothing ==
  ASSUME NEW q \in Procs, job'[q].late \/ job'[q].pc = "idle"
  PROVE  Seen(job[q])'
  BY DEF Seen, Importing

\* What the others are after a run has changed a file.
LEMMA TheOthers ==
  ASSUME Typed, NEW p \in Procs, NEW k, Changes(p, k), NEW q \in Procs, q # p
  PROVE  /\ Shape(job[q])' /\ Seen(job[q])'
         /\ job'[q].moved = job[q].moved /\ job'[q].temp = job[q].temp
  <1> DEFINE b == job[q].late \/ ~At(q, "idle")
  <1>1. b \in BOOLEAN
    BY DEF Typed, Shape, Jobs
  <1>2. job'[q] = [job[q] EXCEPT !.late = b]
    BY DEF Changes
  <1>3. Shape(job[q])
    BY DEF Typed
  <1> HIDE DEF b
  <1>4. /\ Shape(job'[q]) /\ job'[q].late = b /\ job'[q].pc = job[q].pc
        /\ job'[q].moved = job[q].moved /\ job'[q].temp = job[q].temp
    BY <1>1, <1>2, <1>3, MadeLate
  <1>5. job'[q].late \/ job'[q].pc = "idle"
    BY <1>4 DEF b, At
  <1>6. Seen(job[q])'
    BY <1>5, LateSeesNothing
  <1>7. Shape(job[q])'
    BY <1>4 DEF Shape
  <1> QED
    BY <1>4, <1>6, <1>7

\* A step that changes no file, only what one run is at.
LEMMA OneRun ==
  ASSUME IInv, UNCHANGED <<fileVars, source>>, NEW p \in Procs, NEW k,
         job' = [job EXCEPT ![p] = k], Shape(k), Seen(k),
         Holds(job[p]) => Holds(k) \/ file[Shared] # None
  PROVE  IInv'
  <1>1. /\ job' \in [Procs -> Jobs]
        /\ job'[p] = k
        /\ \A q \in Procs : q # p => job'[q] = job[q]
    BY DEF IInv, Typed, Shape
  <1>2. UNCHANGED <<file, saved, copies, source, had, bare, raced>>
    BY DEF fileVars
  <1>3. ASSUME NEW q \in Procs
        PROVE  Shape(job[q])' /\ Seen(job[q])'
    <2>1. Shape(job'[q]) /\ Seen(job'[q])
      BY <1>1 DEF IInv, Typed
    <2> QED
      BY <1>2, <2>1 DEF Shape, Seen, Done
  <1>4. Typed'
    BY <1>1, <1>2, <1>3 DEF IInv, Typed
  <1>5. Recoverable'
    <2>1. SUFFICES ASSUME had, file[Shared] = None
                   PROVE  \E q \in Procs : Holds(job'[q])
      BY <1>2 DEF Recoverable, Holds
    <2>2. PICK q \in Procs : Holds(job[q])
      BY <2>1 DEF IInv, Recoverable
    <2>3. Holds(job'[q])
      BY <1>1, <2>1, <2>2
    <2> QED
      BY <2>3
  <1>6. Explained'
    BY <1>2 DEF IInv, Explained
  <1> QED
    BY <1>3, <1>4, <1>5, <1>6 DEF IInv

\* A step in which a run changes a file: everybody else at work is late.
LEMMA OneChange ==
  ASSUME IInv, NEW p \in Procs, NEW k, Changes(p, k),
         Shape(job[p])', Seen(job[p])',
         file' \in [Files -> Maybe], saved' \in Maybe,
         copies' \in [Files -> [Names -> Maybe]],
         had' => \/ file'[Shared] # None
                 \/ Holds(job[p])'
                 \/ had /\ saved' = saved /\ file'[Shared] = file[Shared]
                    /\ ~Holds(job[p]),
         Explained'
  PROVE  IInv'
  <1>1. job' = [q \in Procs |-> job'[q]]
    BY DEF Changes
  <1>2. \A q \in Procs : q # p =>
          /\ Shape(job[q])' /\ Seen(job[q])'
          /\ job'[q].moved = job[q].moved /\ job'[q].temp = job[q].temp
    BY TheOthers DEF IInv
  <1>3. Typed'
    <2>1. source' \in [Files -> Versions]
      BY DEF IInv, Typed, Changes
    <2>2. \A q \in Procs : Shape(job[q])'
      BY <1>2
    <2> QED
      BY <1>1, <2>1, <2>2 DEF Typed, Shape
  <1>4. (\A q \in Procs : Seen(job[q]))'
    BY <1>2
  <1>5. Recoverable'
    <2>1. SUFFICES ASSUME had', file'[Shared] = None
                   PROVE  (\E q \in Procs : Holds(job[q]))'
      BY DEF Recoverable
    <2>2. CASE Holds(job[p])'
      BY <2>2
    <2>3. CASE had /\ saved' = saved /\ file'[Shared] = file[Shared] /\ ~Holds(job[p])
      <3>1. PICK q \in Procs : Holds(job[q])
        BY <2>1, <2>3 DEF IInv, Recoverable
      <3>2. Holds(job[q])'
        BY <1>2, <2>3, <3>1 DEF Holds
      <3> QED
        BY <3>2
    <2> QED
      BY <2>1, <2>2, <2>3
  <1> QED
    BY <1>3, <1>4, <1>5 DEF IInv

--------------------------------------------------------------------------------
(* The steps.                                                              *)

LEMMA InitInv == Init => IInv
  <1> SUFFICES ASSUME Init PROVE IInv
    OBVIOUS
  <1>1. \A p \in Procs : job[p] = NoJob
    BY DEF Init
  <1>2. Shared \in Files /\ None \in Maybe /\ Originals \subseteq Maybe
    BY PrefixAssumption DEF Maybe, Contents, Originals
  <1>3. Typed
    BY <1>1, <1>2, NoJobShape DEF Init, Typed, Shape
  <1>4. Recoverable
    BY DEF Init, Recoverable, Exists
  <1>5. Explained
    BY <1>2, PrefixAssumption DEF Init, Explained, Originals
  <1> QED
    BY <1>1, <1>3, <1>4, <1>5, NoJobShape DEF IInv

\* A run that ends without a change.
LEMMA EndInv ==
  ASSUME IInv, UNCHANGED <<fileVars, source>>, NEW p \in Procs, Ended(p),
         ~Holds(job[p]) \/ file[Shared] # None
  PROVE  IInv'
  BY NoJobShape, OneRun DEF Ended

\* A run that begins with a look at the files, or with none.
LEMMA BeginInv ==
  ASSUME IInv, NEW p \in Procs, NEW k, Begin(p, k), Shape(k), Seen(k)
  PROVE  IInv'
  <1>1. ~Holds(job[p])
    BY DEF Begin, At, IInv, Typed, Shape, Holds, Exists
  <1> QED
    BY <1>1, OneRun DEF Begin

LEMMA StageInv ==
  ASSUME IInv, NEW p \in Procs, NEW b \in Builds, StageForwarder(p, b)
  PROVE  IInv'
  <1> DEFINE k == [NoJob EXCEPT !.pc = "look", !.build = b]
  <1>1. Shape(k) /\ Seen(k)
    BY PrefixAssumption DEF NoJob, Shape, Seen, Jobs, Maybe, Importing
  <1> HIDE DEF k
  <1>2. Begin(p, k)
    BY DEF StageForwarder, k
  <1> QED
    BY <1>1, <1>2, BeginInv

LEMMA RestoreBeginInv ==
  ASSUME IInv, NEW p \in Procs, RestoreForwarder(p)
  PROVE  IInv'
  <1> DEFINE l == IF file[Shared] # None THEN "move" ELSE "restore"
             k == [NoJob EXCEPT !.pc = l]
  <1>1. l \in {"move", "restore"} /\ (l = "restore" => file[Shared] = None)
    OBVIOUS
  <1> HIDE DEF l
  <1>2. Shape(k) /\ Seen(k)
    BY <1>1, PrefixAssumption DEF NoJob, Shape, Seen, Jobs, Maybe, Importing, RestoreForwarder
  <1>3. Begin(p, k)
    BY DEF RestoreForwarder, l
  <1> HIDE DEF k
  <1> QED
    BY <1>2, <1>3, BeginInv

LEMMA ImportBeginInv ==
  ASSUME IInv, NEW p \in Procs, Import(p)
  PROVE  IInv'
  <1> DEFINE k == [NoJob EXCEPT !.pc = "import", !.todo = Files, !.rec = source]
  <1>1. k = [pc |-> "import", build |-> None, moved |-> FALSE, temp |-> None,
             todo |-> Files, file |-> Shared, name |-> None, rec |-> source,
             late |-> FALSE]
    <2> DEFINE k2 == [NoJob EXCEPT !.pc = "import", !.todo = Files]
    <2>1. NoJob \in Jobs
      BY NoJobShape DEF Shape
    <2>2. k2 = [pc |-> "import", build |-> NoJob.build, moved |-> NoJob.moved,
                temp |-> NoJob.temp, todo |-> Files, file |-> NoJob.file,
                name |-> NoJob.name, rec |-> NoJob.rec, late |-> NoJob.late]
      BY <2>1, PlaceAnd
    <2> HIDE DEF k2
    <2>3. [k2 EXCEPT !.rec = source] =
            [pc |-> "import", build |-> NoJob.build, moved |-> NoJob.moved,
             temp |-> NoJob.temp, todo |-> Files, file |-> NoJob.file,
             name |-> NoJob.name, rec |-> source, late |-> NoJob.late]
      BY <2>2
    <2> QED
      BY <2>3 DEF k2, NoJob
  <1>2. source \in [Files -> Versions \cup {None}]
    BY DEF IInv, Typed
  <1>3. Shape(k)
    BY <1>1, <1>2, PrefixAssumption DEF Shape, Jobs, Maybe
  <1>4. Seen(k)
    BY <1>1 DEF Seen, Done
  <1>5. Begin(p, k)
    BY DEF Import
  <1> HIDE DEF k
  <1> QED
    BY <1>3, <1>4, <1>5, BeginInv

\* A step of a run to another place, with the same things in its hands.
LEMMA GotoInv ==
  ASSUME IInv, UNCHANGED <<fileVars, source>>, NEW p \in Procs, NEW next,
         Goto(p, next), Shape([job[p] EXCEPT !.pc = next]),
         Seen([job[p] EXCEPT !.pc = next])
  PROVE  IInv'
  <1> DEFINE k == [job[p] EXCEPT !.pc = next]
  <1>1. k.moved = job[p].moved /\ k.temp = job[p].temp
    BY DEF IInv, Typed, Shape, Jobs
  <1> HIDE DEF k
  <1>2. job' = [job EXCEPT ![p] = k]
    BY DEF Goto, k
  <1>3. Shape(k) /\ Seen(k)
    BY DEF k
  <1> QED
    BY <1>1, <1>2, <1>3, OneRun DEF Holds

LEMMA StageLookInv ==
  ASSUME IInv, NEW p \in Procs, StageLook(p)
  PROVE  IInv'
  <1>1. Shape(job[p]) /\ Seen(job[p]) /\ job[p].pc = "look"
    BY DEF IInv, Typed, StageLook, At
  <1>2. UNCHANGED <<fileVars, source>>
    BY DEF StageLook, Unchanged
  <1>3. ~Holds(job[p])
    BY <1>1 DEF Shape, Holds, Exists
  <1>4. ASSUME NEW l \in {"aside", "write"}, l = "aside" => saved = None
        PROVE  Shape([job[p] EXCEPT !.pc = l]) /\ Seen([job[p] EXCEPT !.pc = l])
    BY <1>1, <1>4 DEF Shape, Seen, Jobs, Importing
  <1>5. CASE Ended(p)
    BY <1>2, <1>3, <1>5, EndInv
  <1>6. CASE \E l \in {"aside", "write"} : Goto(p, l) /\ (l = "aside" => saved = None)
    BY <1>2, <1>4, <1>6, GotoInv
  <1> QED
    BY <1>5, <1>6 DEF StageLook

\* What a name holds after it was given to something.
LEMMA FilePut ==
  ASSUME Typed, NEW f \in Files, NEW c \in Maybe, file' = [file EXCEPT ![f] = c]
  PROVE  /\ file' \in [Files -> Maybe]
         /\ \A g \in Files : file'[g] = IF g = f THEN c ELSE file[g]
  BY DEF Typed

LEMMA SharedIsFile == Shared \in Files /\ None \in Maybe
  BY PrefixAssumption DEF Maybe

LEMMA MoveAsideInv ==
  ASSUME IInv, NEW p \in Procs, MoveAside(p)
  PROVE  IInv'
  <1> DEFINE k == [job[p] EXCEPT !.pc = "write", !.moved = TRUE]
  <1>1. Shape(job[p]) /\ Seen(job[p]) /\ job[p].pc = "aside" /\ Typed
    BY DEF IInv, Typed, MoveAside, At
  <1>2. Changes(p, k) /\ job'[p] = k
    BY DEF MoveAside, Changes
  <1>3. k = [pc |-> "write", build |-> job[p].build, moved |-> TRUE,
             temp |-> job[p].temp, todo |-> job[p].todo, file |-> job[p].file,
             name |-> job[p].name, rec |-> job[p].rec, late |-> job[p].late]
    BY <1>1, PlaceAnd DEF Shape
  <1> HIDE DEF k
  <1>4. /\ file' \in [Files -> Maybe] /\ file'[Shared] = None
        /\ saved' = file[Shared] /\ saved' \in Maybe
        /\ copies' \in [Files -> [Names -> Maybe]]
    BY <1>1, SharedIsFile, FilePut DEF MoveAside, Typed
  <1>5. Shape(job[p])'
    BY <1>1, <1>2, <1>3 DEF Shape, Jobs
  <1>6. Seen(job[p])'
    BY <1>2, <1>3, <1>4 DEF Seen, Importing
  <1>7. had' => Holds(job[p])'
    <2>1. had' = (had /\ Exists(file[Shared]))
      BY DEF MoveAside
    <2>2. job'[p].moved = TRUE
      BY <1>2, <1>3
    <2>3. saved' = file[Shared]
      BY <1>4
    <2> QED
      BY <2>1, <2>2, <2>3 DEF Holds, Exists
  <1>8. Explained'
    BY <1>1, <1>4, PrefixAssumption DEF MoveAside, Changes, Explained, IInv, Seen
  <1> QED
    BY <1>2, <1>4, <1>5, <1>6, <1>7, <1>8, OneChange

LEMMA StageWriteInv ==
  ASSUME IInv, NEW p \in Procs, StageWrite(p)
  PROVE  IInv'
  <1>1. Shape(job[p]) /\ job[p].pc = "write" /\ Typed /\ job[p].build \in Builds
    BY DEF IInv, Typed, StageWrite, At, Shape
  <1>2. Changes(p, NoJob) /\ job'[p] = NoJob
    BY DEF StageWrite, Changes
  <1>3. /\ file' \in [Files -> Maybe] /\ file'[Shared] = job[p].build
        /\ job[p].build # None
    BY <1>1, SharedIsFile, FilePut, PrefixAssumption DEF StageWrite, Maybe, Contents
  <1>4. Shape(job[p])' /\ Seen(job[p])'
    BY <1>2, NoJobShape, LateSeesNothing DEF Shape
  <1>5. Explained'
    BY <1>1 DEF StageWrite, Changes, Explained, IInv
  <1> QED
    BY <1>1, <1>2, <1>3, <1>4, <1>5, OneChange DEF StageWrite, Typed

LEMMA StageFailsInv ==
  ASSUME IInv, NEW p \in Procs, StageFails(p)
  PROVE  IInv'
  <1>1. Shape(job[p]) /\ job[p].pc \in {"aside", "write"}
    BY DEF IInv, Typed, StageFails
  <1>2. Shape([job[p] EXCEPT !.pc = "putBack"]) /\ Seen([job[p] EXCEPT !.pc = "putBack"])
    BY <1>1 DEF Shape, Seen, Jobs, Importing
  <1> QED
    BY <1>2, GotoInv DEF StageFails, Unchanged

LEMMA PutBackInv ==
  ASSUME IInv, NEW p \in Procs, PutBack(p)
  PROVE  IInv'
  <1>1. Shape(job[p]) /\ job[p].pc = "putBack" /\ Typed /\ ~Exists(job[p].temp)
    BY DEF IInv, Typed, PutBack, At, Shape, Exists
  <1>2. CASE job[p].moved /\ file[Shared] = None /\ Exists(saved)
    <2>1. Changes(p, NoJob) /\ job'[p] = NoJob
      BY <1>2 DEF PutBack, Changes
    <2>2. /\ file' \in [Files -> Maybe] /\ file'[Shared] = saved /\ saved # None
          /\ saved' = None
          /\ UNCHANGED <<copies, had, bare>>
      BY <1>1, <1>2, SharedIsFile, FilePut DEF PutBack, Typed, Exists
    <2>3. Shape(job[p])' /\ Seen(job[p])'
      BY <2>1, NoJobShape, LateSeesNothing DEF Shape
    <2>4. Explained'
      BY <2>1, <2>2, PrefixAssumption DEF Changes, Explained, IInv
    <2> QED
      BY <1>1, <2>1, <2>2, <2>3, <2>4, SharedIsFile, OneChange DEF Typed
  <1>3. CASE ~(job[p].moved /\ file[Shared] = None /\ Exists(saved))
    BY <1>1, <1>3, EndInv DEF PutBack, Unchanged, Holds
  <1> QED
    BY <1>2, <1>3

LEMMA MoveAwayInv ==
  ASSUME IInv, NEW p \in Procs, MoveAway(p)
  PROVE  IInv'
  <1> DEFINE k == [job[p] EXCEPT !.pc = "restore", !.temp = file[Shared]]
  <1>1. Shape(job[p]) /\ Seen(job[p]) /\ job[p].pc = "move" /\ Typed
    BY DEF IInv, Typed, MoveAway, At
  <1>2. Changes(p, k) /\ job'[p] = k
    BY DEF MoveAway, Changes
  <1>3. k = [pc |-> "restore", build |-> job[p].build, moved |-> job[p].moved,
             temp |-> file[Shared], todo |-> job[p].todo, file |-> job[p].file,
             name |-> job[p].name, rec |-> job[p].rec, late |-> job[p].late]
    BY <1>1, PlaceAnd DEF Shape
  <1> HIDE DEF k
  <1>4. /\ file' \in [Files -> Maybe] /\ file'[Shared] = None
        /\ file[Shared] \in Maybe
        /\ UNCHANGED <<saved, copies, bare>>
    BY <1>1, SharedIsFile, FilePut DEF MoveAway, Typed
  <1>5. Shape(job[p])'
    BY <1>1, <1>2, <1>3, <1>4 DEF Shape, Jobs
  <1>6. Seen(job[p])'
    BY <1>1, <1>2, <1>3, <1>4 DEF Seen, Importing
  <1>7. had' => Holds(job[p])'
    <2>1. had' = (had /\ Exists(file[Shared]))
      BY DEF MoveAway
    <2>2. job'[p].temp = file[Shared]
      BY <1>2, <1>3
    <2> QED
      BY <2>1, <2>2 DEF Holds, Exists
  <1>8. Explained'
    <2>1. raced' = (raced \/ job[p].late)
      BY <1>2 DEF Changes
    <2> QED
      BY <1>4, <2>1, PrefixAssumption DEF Explained, IInv
  <1> QED
    BY <1>1, <1>2, <1>4, <1>5, <1>6, <1>7, <1>8, OneChange DEF Typed

LEMMA RestoreInv ==
  ASSUME IInv, NEW p \in Procs, Restore(p)
  PROVE  IInv'
  <1>1. Typed /\ saved # None
    BY DEF IInv, Restore
  <1>2. Changes(p, NoJob) /\ job'[p] = NoJob
    BY DEF Restore, Changes
  <1>3. /\ file' \in [Files -> Maybe] /\ file'[Shared] = saved /\ saved' = None
        /\ UNCHANGED <<copies, bare>>
    BY <1>1, SharedIsFile, FilePut DEF Restore, Typed
  <1>4. Shape(job[p])' /\ Seen(job[p])'
    BY <1>2, NoJobShape, LateSeesNothing DEF Shape
  <1>5. Explained'
    BY <1>2, <1>3, PrefixAssumption DEF Changes, Explained, IInv
  <1> QED
    BY <1>1, <1>2, <1>3, <1>4, <1>5, SharedIsFile, OneChange DEF Typed

LEMMA RestoreFailsInv ==
  ASSUME IInv, NEW p \in Procs, RestoreFails(p)
  PROVE  IInv'
  <1>1. Shape(job[p]) /\ Seen(job[p]) /\ job[p].pc \in {"move", "restore"}
    BY DEF IInv, Typed, RestoreFails
  <1>2. Shape([job[p] EXCEPT !.pc = "undo"]) /\ Seen([job[p] EXCEPT !.pc = "undo"])
    BY <1>1 DEF Shape, Seen, Jobs, Importing
  <1> QED
    BY <1>2, GotoInv DEF RestoreFails, Unchanged

LEMMA UndoInv ==
  ASSUME IInv, NEW p \in Procs, Undo(p)
  PROVE  IInv'
  <1>1. /\ Shape(job[p]) /\ Seen(job[p]) /\ job[p].pc = "undo" /\ Typed
        /\ ~job[p].moved /\ job[p].temp \in Maybe
    BY DEF IInv, Typed, Undo, At, Shape, Jobs
  <1>2. CASE Exists(job[p].temp) /\ file[Shared] = None
    <2>1. Changes(p, NoJob) /\ job'[p] = NoJob
      BY <1>2 DEF Undo, Changes
    <2>2. /\ file' \in [Files -> Maybe] /\ file'[Shared] = job[p].temp
          /\ job[p].temp # None
          /\ UNCHANGED <<saved, copies, had, bare>>
      BY <1>1, <1>2, SharedIsFile, FilePut DEF Undo, Exists
    <2>3. Shape(job[p])' /\ Seen(job[p])'
      BY <2>1, NoJobShape, LateSeesNothing DEF Shape
    <2>4. Explained'
      BY <1>1, <2>1, <2>2 DEF Changes, Explained, IInv, Seen
    <2> QED
      BY <1>1, <2>1, <2>2, <2>3, <2>4, OneChange DEF Typed
  <1>3. CASE ~(Exists(job[p].temp) /\ file[Shared] = None)
    BY <1>1, <1>3, EndInv DEF Undo, Unchanged, Holds
  <1> QED
    BY <1>2, <1>3

--------------------------------------------------------------------------------
(* The steps of an import.                                                 *)

\* The run has neither moved the forwarder's file nor taken it away.
LEMMA ImportHoldsNothing ==
  ASSUME IInv, NEW p \in Procs, job[p].pc \in Importing
  PROVE  ~Holds(job[p])
  BY DEF IInv, Typed, Shape, Holds, Exists, Importing

LEMMA LookAtFileInv ==
  ASSUME IInv, NEW p \in Procs, NEW f \in Files, LookAtFile(p, f)
  PROVE  IInv'
  <1> DEFINE next == [job[p] EXCEPT !.todo = @ \ {f}, !.file = f]
  <1>1. /\ Shape(job[p]) /\ Seen(job[p]) /\ job[p].pc = "import" /\ job[p] \in Jobs
        /\ UNCHANGED <<fileVars, source>>
    BY DEF IInv, Typed, Shape, LookAtFile, At, Unchanged
  <1>2. ~Holds(job[p])
    BY <1>1, ImportHoldsNothing DEF Importing
  <1>3. next = [pc |-> "import", build |-> job[p].build, moved |-> job[p].moved,
                temp |-> job[p].temp, todo |-> job[p].todo \ {f}, file |-> f,
                name |-> job[p].name, rec |-> job[p].rec, late |-> job[p].late]
    <2> DEFINE k == [job[p] EXCEPT !.todo = @ \ {f}]
    <2>1. Fields(job[p])
      BY <1>1, JobFields
    <2>2. k = [pc |-> "import", build |-> job[p].build, moved |-> job[p].moved,
               temp |-> job[p].temp, todo |-> job[p].todo \ {f},
               file |-> job[p].file, name |-> job[p].name, rec |-> job[p].rec,
               late |-> job[p].late]
      BY <1>1, <2>1 DEF Fields
    <2> HIDE DEF k
    <2>3. [k EXCEPT !.file = f] =
            [pc |-> "import", build |-> job[p].build, moved |-> job[p].moved,
             temp |-> job[p].temp, todo |-> job[p].todo \ {f}, file |-> f,
             name |-> job[p].name, rec |-> job[p].rec, late |-> job[p].late]
      BY <2>2
    <2> QED
      BY <2>3 DEF k
  <1> HIDE DEF next
  <1>4. next \in Jobs
    BY <1>1, <1>3 DEF Jobs
  <1>5. CASE file[f] \in Links /\ Ended(p)
    BY <1>1, <1>2, <1>5, EndInv
  <1>6. CASE file[f] = job[p].rec[f] /\ job' = [job EXCEPT ![p] = next]
    <2>1. Shape(next)
      BY <1>1, <1>3, <1>4 DEF Shape
    <2>2. Seen(next)
      BY <1>1, <1>3, <1>6 DEF Seen, Done, Importing
    <2> QED
      BY <1>1, <1>2, <1>6, <2>1, <2>2, OneRun
  <1>7. CASE /\ file[f] = None
             /\ job' = [job EXCEPT ![p] = [next EXCEPT !.pc = "replace"]]
    <2> DEFINE k == [next EXCEPT !.pc = "replace"]
    <2>1. k = [pc |-> "replace", build |-> job[p].build, moved |-> job[p].moved,
               temp |-> job[p].temp, todo |-> job[p].todo \ {f}, file |-> f,
               name |-> job[p].name, rec |-> job[p].rec, late |-> job[p].late]
      BY <1>3
    <2> HIDE DEF k
    <2>2. Shape(k)
      BY <1>1, <2>1 DEF Shape, Jobs
    <2>3. Seen(k)
      BY <1>1, <1>7, <2>1 DEF Seen, Done, Importing
    <2>4. job' = [job EXCEPT ![p] = k]
      BY <1>7 DEF k
    <2> QED
      BY <1>1, <1>2, <2>2, <2>3, <2>4, OneRun
  <1>8. CASE \E n \in Names :
               /\ copies[f][n] = None
               /\ job' = [job EXCEPT ![p] = [next EXCEPT !.pc = "backUp", !.name = n]]
    <2>1. PICK n \in Names :
               /\ copies[f][n] = None
               /\ job' = [job EXCEPT ![p] = [next EXCEPT !.pc = "backUp", !.name = n]]
      BY <1>8
    <2> DEFINE k == [next EXCEPT !.pc = "backUp", !.name = n]
    <2>2. k = [pc |-> "backUp", build |-> next.build, moved |-> next.moved,
               temp |-> next.temp, todo |-> next.todo, file |-> next.file,
               name |-> n, rec |-> next.rec, late |-> next.late]
      BY <1>4, PlaceAnd
    <2> HIDE DEF k
    <2>3. Shape(k)
      BY <1>1, <1>3, <2>2 DEF Shape, Jobs
    <2>4. Seen(k)
      BY <1>1, <1>3, <2>1, <2>2 DEF Seen, Done, Importing
    <2>5. job' = [job EXCEPT ![p] = k]
      BY <2>1 DEF k
    <2> QED
      BY <1>1, <1>2, <2>3, <2>4, <2>5, OneRun
  <1> QED
    BY <1>5, <1>6, <1>7, <1>8 DEF LookAtFile, next

LEMMA BackUpInv ==
  ASSUME IInv, NEW p \in Procs, BackUp(p)
  PROVE  IInv'
  <1> DEFINE k == [job[p] EXCEPT !.pc = "replace"]
             f == job[p].file
             n == job[p].name
  <1>1. /\ Shape(job[p]) /\ Seen(job[p]) /\ job[p].pc = "backUp" /\ Typed
        /\ f \in Files /\ n \in Names
    BY DEF IInv, Typed, BackUp, At, Shape, Jobs
  <1>2. Changes(p, k) /\ job'[p] = k
    BY DEF BackUp, Changes
  <1>3. k = [pc |-> "replace", build |-> job[p].build, moved |-> job[p].moved,
             temp |-> job[p].temp, todo |-> job[p].todo, file |-> f,
             name |-> n, rec |-> job[p].rec, late |-> job[p].late]
    BY <1>1, JobFields DEF Shape, Fields
  <1> HIDE DEF k
  <1>4. /\ copies' \in [Files -> [Names -> Maybe]]
        /\ copies'[f][n] = file[f]
        /\ UNCHANGED <<file, saved, had, bare, source>>
    BY <1>1, <1>2 DEF BackUp, Typed, Changes
  <1>5. Shape(job[p])'
    BY <1>1, <1>2, <1>3 DEF Shape, Jobs
  <1>6. Seen(job[p])'
    BY <1>1, <1>2, <1>3, <1>4 DEF Seen, Done, Importing
  <1>7. ~Holds(job[p])
    BY <1>1, ImportHoldsNothing DEF Importing
  <1>8. Explained'
    <2>1. raced' = (raced \/ job[p].late)
      BY <1>2 DEF Changes
    <2> QED
      BY <1>4, <2>1 DEF Explained, IInv
  <1> QED
    BY <1>1, <1>2, <1>4, <1>5, <1>6, <1>7, <1>8, OneChange DEF Typed

LEMMA ReplaceInv ==
  ASSUME IInv, NEW p \in Procs, Replace(p)
  PROVE  IInv'
  <1> DEFINE k == [job[p] EXCEPT !.pc = "import"]
             f == job[p].file
  <1>1. /\ Shape(job[p]) /\ Seen(job[p]) /\ job[p].pc = "replace" /\ Typed
        /\ f \in Files
    BY DEF IInv, Typed, Replace, At, Shape, Jobs
  <1>2. Changes(p, k) /\ job'[p] = k /\ UNCHANGED <<saved, copies, bare, source>>
    BY DEF Replace, Changes
  <1>3. k = [pc |-> "import", build |-> job[p].build, moved |-> job[p].moved,
             temp |-> job[p].temp, todo |-> job[p].todo, file |-> f,
             name |-> job[p].name, rec |-> job[p].rec, late |-> job[p].late]
    BY <1>1, JobFields DEF Shape, Fields
  <1> HIDE DEF k
  <1>4. source[f] \in Versions /\ source[f] \in Maybe /\ source[f] # None
    BY <1>1, PrefixAssumption DEF Typed, Maybe, Contents
  <1>5. /\ file' \in [Files -> Maybe]
        /\ \A g \in Files : file'[g] = IF g = f THEN source[f] ELSE file[g]
    BY <1>1, <1>4, FilePut DEF Replace
  <1>6. Shape(job[p])'
    BY <1>1, <1>2, <1>3 DEF Shape, Jobs
  <1>7. Seen(job[p])'
    BY <1>1, <1>2, <1>3, <1>5 DEF Seen, Done, Importing
  <1>8. ~Holds(job[p])
    BY <1>1, ImportHoldsNothing DEF Importing
  <1>9. had' => \/ file'[Shared] # None
                \/ had /\ saved' = saved /\ file'[Shared] = file[Shared]
    BY <1>2, <1>4, <1>5, SharedIsFile DEF Replace
  <1>10. Explained'
    <2>1. raced' = (raced \/ job[p].late)
      BY <1>2 DEF Changes
    <2> QED
      BY <1>2, <1>4, <1>5, <2>1, SharedIsFile, PrefixAssumption DEF Explained, IInv
  <1> QED
    BY <1>1, <1>2, <1>5, <1>6, <1>7, <1>8, <1>9, <1>10, OneChange DEF Typed

LEMMA ImportEndInv ==
  ASSUME IInv, NEW p \in Procs, WriteManifest(p) \/ ImportFails(p)
  PROVE  IInv'
  <1>1. Ended(p) /\ UNCHANGED <<fileVars, source>> /\ job[p].pc \in Importing
    BY DEF WriteManifest, ImportFails, Unchanged, At, Importing
  <1> QED
    BY <1>1, ImportHoldsNothing, EndInv

--------------------------------------------------------------------------------

\* A run that is killed: what it had in its hands is not counted on any more.
LEMMA KillInv ==
  ASSUME IInv, NEW p \in Procs, Kill(p)
  PROVE  IInv'
  <1>1. UNCHANGED <<file, saved, copies, source, bare, raced>> /\ Typed
    BY DEF Kill, IInv
  <1>2. /\ job' \in [Procs -> Jobs]
        /\ job'[p] = NoJob
        /\ \A q \in Procs : q # p => job'[q] = job[q]
    BY <1>1, NoJobShape DEF Kill, Ended, Typed, Shape
  <1>3. ASSUME NEW q \in Procs
        PROVE  Shape(job[q])' /\ Seen(job[q])'
    <2>1. Shape(job'[q]) /\ Seen(job'[q])
      BY <1>2, NoJobShape DEF IInv, Typed
    <2> QED
      BY <1>1, <2>1 DEF Shape, Seen, Done
  <1>4. Recoverable'
    BY <1>1 DEF Kill, Recoverable, Exists
  <1>5. Explained'
    BY <1>1 DEF IInv, Explained
  <1> QED
    BY <1>1, <1>2, <1>3, <1>4, <1>5 DEF IInv, Typed

\* Somebody else changes a file, of the prefix or of the client.
LEMMA EditInv ==
  ASSUME IInv,
         \/ \E f \in Files, c \in Originals \cup {None} : UserPuts(f, c)
         \/ \E f \in Files, v \in Versions : SourceChanges(f, v)
  PROVE  IInv'
  <1>1. Edit /\ Typed
    BY DEF UserPuts, SourceChanges, IInv
  <1>2. ASSUME NEW q \in Procs
        PROVE  /\ Shape(job[q])' /\ Seen(job[q])'
               /\ job'[q].moved = job[q].moved /\ job'[q].temp = job[q].temp
    <2> DEFINE b == job[q].late \/ ~At(q, "idle")
    <2>1. b \in BOOLEAN /\ Shape(job[q])
      BY <1>1 DEF Typed, Shape, Jobs
    <2>2. job'[q] = [job[q] EXCEPT !.late = b]
      BY <1>1 DEF Edit
    <2> HIDE DEF b
    <2>3. /\ Shape(job'[q]) /\ job'[q].late = b /\ job'[q].pc = job[q].pc
          /\ job'[q].moved = job[q].moved /\ job'[q].temp = job[q].temp
      BY <2>1, <2>2, MadeLate
    <2>4. job'[q].late \/ job'[q].pc = "idle"
      BY <2>3 DEF b, At
    <2>5. Seen(job[q])'
      BY <2>4, LateSeesNothing
    <2> QED
      BY <2>3, <2>5 DEF Shape
  <1>3. /\ job' = [q \in Procs |-> job'[q]]
        /\ UNCHANGED <<saved, copies, bare, raced>>
    BY <1>1 DEF Edit
  <1>4. CASE \E f \in Files, c \in Originals \cup {None} : UserPuts(f, c)
    <2>1. PICK f \in Files, c \in Originals \cup {None} : UserPuts(f, c)
      BY <1>4
    <2>2. c \in Maybe /\ c \notin Builds
      BY PrefixAssumption DEF Originals, Maybe, Contents
    <2>3. /\ file' \in [Files -> Maybe] /\ source' = source
          /\ \A g \in Files : file'[g] = IF g = f THEN c ELSE file[g]
          /\ had' = IF f = Shared THEN Exists(c) ELSE had
      BY <1>1, <2>1, <2>2, FilePut DEF UserPuts
    <2>4. Typed'
      BY <1>1, <1>2, <1>3, <2>3 DEF Typed, Shape
    <2>5. Recoverable'
      <3>1. CASE f = Shared
        BY <2>3, <3>1, SharedIsFile DEF Recoverable, Exists
      <3>2. CASE f # Shared
        <4>1. had' = had /\ file'[Shared] = file[Shared] /\ saved' = saved
          BY <1>3, <2>3, <3>2, SharedIsFile
        <4>2. \A q \in Procs : Holds(job[q]) => Holds(job[q])'
          BY <1>2, <4>1 DEF Holds
        <4> QED
          BY <4>1, <4>2 DEF IInv, Recoverable
      <3> QED
        BY <3>1, <3>2
    <2>6. Explained'
      BY <1>3, <2>2, <2>3, SharedIsFile DEF IInv, Explained
    <2> QED
      BY <1>2, <2>4, <2>5, <2>6 DEF IInv
  <1>5. CASE \E f \in Files, v \in Versions : SourceChanges(f, v)
    <2>1. PICK f \in Files, v \in Versions : SourceChanges(f, v)
      BY <1>5
    <2>2. source' \in [Files -> Versions] /\ UNCHANGED <<file, had>>
      BY <1>1, <2>1 DEF SourceChanges, Typed
    <2>3. Typed'
      BY <1>1, <1>2, <1>3, <2>2 DEF Typed, Shape
    <2>4. \A q \in Procs : Holds(job[q]) => Holds(job[q])'
      BY <1>2, <1>3 DEF Holds
    <2>5. Recoverable' /\ Explained'
      BY <1>3, <2>2, <2>4 DEF IInv, Recoverable, Explained
    <2> QED
      BY <1>2, <2>3, <2>5 DEF IInv
  <1> QED
    BY <1>4, <1>5

LEMMA NextInv ==
  ASSUME IInv, [Next]_vars
  PROVE  IInv'
  <1>1. ASSUME NEW p \in Procs, Step(p)
        PROVE  IInv'
    BY <1>1, StageInv, StageLookInv, MoveAsideInv, StageWriteInv, StageFailsInv,
       PutBackInv, RestoreBeginInv, MoveAwayInv, RestoreInv, RestoreFailsInv,
       UndoInv, ImportBeginInv, LookAtFileInv, BackUpInv, ReplaceInv,
       ImportEndInv, KillInv DEF Step
  <1>2. CASE UNCHANGED vars
    BY <1>2 DEF vars, fileVars, IInv, Typed, Shape, Seen, Done, Recoverable,
       Holds, Explained
  <1> QED
    BY <1>1, <1>2, EditInv DEF Next

LEMMA Inductive == Spec => []IInv
  BY InitInv, NextInv, PTL DEF Spec

--------------------------------------------------------------------------------
(* Theorems.                                                               *)

\* What a restore would give back is not a forwarder, for any number of
\* packages and runs: the first one to be staged saves what it replaces.
THEOREM OriginalIsSaved == Spec => []SavedIsOriginal
  <1>1. IInv => SavedIsOriginal
    BY DEF IInv, Explained, SavedIsOriginal
  <1> QED
    BY <1>1, Inductive, PTL

\* However many runs stage and restore at once, their failures do not leave the
\* prefix without the file it had.
THEOREM PrefixKeepsItsFile == Spec => []NeverLeftWithout
  <1>1. IInv => NeverLeftWithout
    <2> SUFFICES ASSUME IInv, had, \A p \in Procs : At(p, "idle")
                 PROVE  file[Shared] # None
      BY DEF NeverLeftWithout
    <2>1. \A p \in Procs : ~Holds(job[p])
      BY DEF IInv, Typed, Shape, Holds, Exists, At
    <2> QED
      BY <2>1 DEF IInv, Recoverable
  <1> QED
    BY <1>1, Inductive, PTL

\* The manifest of an import that nobody disturbed describes the prefix, for any
\* number of files.
THEOREM ManifestDescribes == Spec => ManifestIsTrue
  <1> DEFINE True == \A p \in Procs : WriteManifest(p) =>
                       job[p].late \/ \A f \in Files : file[f] = manifest'[f]
  <1>1. IInv => True
    <2> SUFFICES ASSUME IInv, NEW p \in Procs, WriteManifest(p), ~job[p].late,
                        NEW f \in Files
                 PROVE  file[f] = manifest'[f]
      OBVIOUS
    <2>1. /\ Seen(job[p]) /\ job[p].pc = "import" /\ job[p].todo = {}
          /\ manifest' = job[p].rec
      BY DEF IInv, WriteManifest, At
    <2>2. f \in Done(job[p])
      BY <2>1 DEF Done
    <2> QED
      BY <2>1, <2>2 DEF Seen, Importing
  <1>2. IInv => [True]_vars
    BY <1>1
  <1> QED
    BY <1>2, Inductive, PTL DEF ManifestIsTrue

\* c is under a name of its own, not only in the hands of a restore.
Kept(f, c) ==
  \/ file[f] = c
  \/ f = Shared /\ saved = c
  \/ \E n \in Names : copies[f][n] = c

\* The steps that move files about keep one that is the user's.
LEMMA ChangeKeeps ==
  ASSUME IInv, NEW p \in Procs, NEW f \in Files, NEW c \in Originals,
         Kept(f, c), ~Loses(p, f, c),
         \/ MoveAside(p) \/ StageWrite(p) \/ PutBack(p) \/ MoveAway(p)
         \/ Restore(p) \/ Undo(p) \/ BackUp(p) \/ Replace(p)
  PROVE  Held(f, c)'
  <1>1. /\ Typed /\ Shape(job[p]) /\ Seen(job[p]) /\ ~job[p].late /\ c # None
        /\ job[p].file \in Files
    BY PrefixAssumption DEF IInv, Typed, Shape, Jobs, Loses, Originals
  <1>2. CASE MoveAside(p)
    <2>1. /\ saved = None /\ saved' = file[Shared] /\ copies' = copies
          /\ file' = [file EXCEPT ![Shared] = None]
      BY <1>1, <1>2 DEF MoveAside, At, Seen
    <2> QED
      BY <1>1, <2>1, SharedIsFile, FilePut DEF Kept, Held
  <1>3. CASE StageWrite(p)
    <2>1. /\ f = Shared => file[Shared] = None
          /\ saved' = saved /\ copies' = copies
          /\ file' = [file EXCEPT ![Shared] = job[p].build]
      BY <1>1, <1>3 DEF StageWrite, At, Seen, Loses
    <2> QED
      BY <1>1, <2>1 DEF Kept, Held, Typed
  <1>4. CASE PutBack(p)
    <2>1. \/ UNCHANGED <<file, saved, copies>>
          \/ /\ file[Shared] = None /\ copies' = copies
             /\ file' = [file EXCEPT ![Shared] = saved]
      BY <1>4 DEF PutBack, Unchanged, fileVars
    <2> QED
      BY <1>1, <2>1, SharedIsFile DEF Kept, Held, Typed
  <1>5. CASE MoveAway(p)
    <2> DEFINE k == [job[p] EXCEPT !.pc = "restore", !.temp = file[Shared]]
    <2>1. /\ saved' = saved /\ copies' = copies
          /\ file' = [file EXCEPT ![Shared] = None]
          /\ job'[p] = k
      BY <1>5 DEF MoveAway, Changes
    <2>2. k = [pc |-> "restore", build |-> job[p].build, moved |-> job[p].moved,
               temp |-> file[Shared], todo |-> job[p].todo, file |-> job[p].file,
               name |-> job[p].name, rec |-> job[p].rec, late |-> job[p].late]
      BY <1>1, PlaceAnd DEF Shape
    <2> HIDE DEF k
    <2>3. job'[p].temp = file[Shared]
      BY <2>1, <2>2
    <2> QED
      BY <1>1, <2>1, <2>3 DEF Kept, Held, Typed
  <1>6. CASE Restore(p)
    <2>1. /\ file[Shared] = None /\ copies' = copies
          /\ file' = [file EXCEPT ![Shared] = saved]
      BY <1>1, <1>6 DEF Restore, At, Seen
    <2> QED
      BY <1>1, <2>1, SharedIsFile DEF Kept, Held, Typed
  <1>7. CASE Undo(p)
    <2>1. /\ UNCHANGED <<saved, copies>>
          /\ \/ file' = file
             \/ /\ file[Shared] = None
                /\ file' = [file EXCEPT ![Shared] = job[p].temp]
      BY <1>7 DEF Undo, Unchanged, fileVars
    <2> QED
      BY <1>1, <2>1 DEF Kept, Held, Typed
  <1>8. CASE BackUp(p)
    <2>1. /\ copies[job[p].file][job[p].name] = None /\ UNCHANGED <<file, saved>>
          /\ copies' = [copies EXCEPT ![job[p].file][job[p].name] = file[job[p].file]]
      BY <1>1, <1>8 DEF BackUp, At, Seen
    <2> QED
      BY <1>1, <2>1 DEF Kept, Held, Typed
  <1>9. CASE Replace(p)
    <2>1. /\ \/ file[job[p].file] = None
             \/ \E n \in Names : copies[job[p].file][n] = file[job[p].file]
          /\ UNCHANGED <<saved, copies>>
          /\ file' = [file EXCEPT ![job[p].file] = source[job[p].file]]
      BY <1>1, <1>9 DEF Replace, At, Seen
    <2> QED
      BY <1>1, <2>1 DEF Kept, Held, Typed
  <1> QED
    BY <1>2, <1>3, <1>4, <1>5, <1>6, <1>7, <1>8, <1>9

LEMMA EditsCounted == Spec => [](edits \in Nat)
  <1>1. Init => edits \in Nat
    BY DEF Init
  <1>2. edits \in Nat /\ [Next]_vars => (edits \in Nat)'
    <2> SUFFICES ASSUME edits \in Nat, [Next]_vars PROVE edits' \in Nat
      OBVIOUS
    <2>1. ASSUME NEW p \in Procs, Step(p)
          PROVE  edits' = edits
      BY <2>1 DEF Step, StageForwarder, RestoreForwarder, Import, Begin, StageLook,
         MoveAside, StageWrite, StageFails, PutBack, MoveAway, Restore,
         RestoreFails, Undo, LookAtFile, BackUp, Replace, WriteManifest,
         ImportFails, Kill, Changes, Unchanged, boundVars
    <2> QED
      BY <2>1 DEF Next, UserPuts, SourceChanges, Edit, vars, boundVars
  <1> QED
    BY <1>1, <1>2, PTL DEF Spec

\* What was in the prefix before stays there, whatever runs at once and however
\* it fails, but for the ways named.
THEOREM FilesAreKept == Spec => OriginalsKept
  <1> DEFINE Keeps ==
        \A f \in Files, c \in Originals :
          Held(f, c) =>
            Held(f, c)' \/ edits' # edits \/ \E p \in Procs : Loses(p, f, c)
  <1>1. ASSUME IInv, edits \in Nat, Next
        PROVE  Keeps
    <2> SUFFICES ASSUME NEW f \in Files, NEW c \in Originals, Held(f, c),
                        edits' = edits, \A p \in Procs : ~Loses(p, f, c)
                 PROVE  Held(f, c)'
      OBVIOUS
    <2>1. Kept(f, c)
      BY DEF Held, Kept, Loses
    <2>2. PICK p \in Procs : Step(p)
      BY <1>1 DEF Next, UserPuts, SourceChanges, Edit
    <2>3. CASE \/ MoveAside(p) \/ StageWrite(p) \/ PutBack(p) \/ MoveAway(p)
               \/ Restore(p) \/ Undo(p) \/ BackUp(p) \/ Replace(p)
      BY <1>1, <2>1, <2>3, ChangeKeeps
    <2>4. CASE UNCHANGED <<file, saved, copies>>
      BY <2>1, <2>4 DEF Kept, Held
    <2> QED
      BY <2>2, <2>3, <2>4 DEF Step, StageForwarder, RestoreForwarder, Import, Begin,
         StageLook, StageFails, RestoreFails, LookAtFile, WriteManifest,
         ImportFails, Kill, Unchanged, fileVars
  <1>2. IInv /\ edits \in Nat /\ [Next]_vars => [Keeps]_vars
    BY <1>1
  <1> QED
    BY <1>2, Inductive, EditsCounted, PTL DEF Spec, OriginalsKept

--------------------------------------------------------------------------------
(* The rest of the types.                                                  *)

ManifestTyped == manifest \in [Files -> Versions \cup {None}]

LEMMA ManifestTypedNext == IInv /\ ManifestTyped /\ [Next]_vars => ManifestTyped'
  <1> SUFFICES ASSUME IInv, ManifestTyped, [Next]_vars PROVE ManifestTyped'
    OBVIOUS
  <1>1. ASSUME NEW p \in Procs, WriteManifest(p)
        PROVE  ManifestTyped'
    BY <1>1 DEF WriteManifest, IInv, Typed, Jobs, ManifestTyped
  <1>2. ASSUME NEW p \in Procs, Step(p), ~WriteManifest(p)
        PROVE  manifest' = manifest
    BY <1>2 DEF Step, StageForwarder, RestoreForwarder, Import, Begin, StageLook,
       MoveAside, StageWrite, StageFails, PutBack, MoveAway, Restore,
       RestoreFails, Undo, LookAtFile, BackUp, Replace, ImportFails, Kill,
       Changes, Unchanged
  <1> QED
    BY <1>1, <1>2 DEF Next, UserPuts, SourceChanges, Edit, vars, ManifestTyped

\* The files, the backups, the manifest and what each run has in hand keep their
\* types: a run has moved a file only where its failure looks for one.
THEOREM PrefixTyped == Spec => []TypeOK
  <1>1. Init => ManifestTyped
    BY DEF Init, ManifestTyped
  <1>2. IInv /\ ManifestTyped => TypeOK
    BY DEF IInv, Typed, Shape, TypeOK, ManifestTyped
  <1> QED
    BY <1>1, <1>2, ManifestTypedNext, Inductive, PTL DEF Spec
================================================================================
