--------------------------- MODULE HostRuntimeProofs ---------------------------
(***************************************************************************)
(* What the host runtimes promise, for any number of processes, releases   *)
(* and directories.  The inductive part is in the jobs: a host about to be *)
(* made current is held by its directory, and what a job extracts was      *)
(* verified, unless it was changed since.                                  *)
(***************************************************************************)
EXTENDS HostRuntime, TLAPS, NaturalsInduction, WellFoundedInduction,
        SequenceTheorems

HostsTyped ==
  /\ host \in [Roots -> Hosts \cup {None}]
  /\ \A d \in Roots : host[d] # None => HostRoot[host[d]] = d

\* The host is in its directory, or somebody deleted what was there by hand.
Held(h) == host[HostRoot[h]] = h \/ HostRoot[h] \in deleted

Writing == {"readCurrent", "readHistory", "writeHistory", "writeCurrent"}

\* The fields of a job.  Its list of pointers has no part in the argument.
Fields(j) ==
  j = [pc |-> j.pc, host |-> j.host, part |-> j.part, odd |-> j.odd,
       old |-> j.old, entries |-> j.entries, late |-> j.late]

Sound(j) ==
  /\ Fields(j)
  /\ j.pc # "idle" => j.host \in Hosts
  /\ j.pc \in Writing => Held(j.host)
  /\ j.part \in Parts /\ j.odd \in BOOLEAN /\ j.late \in BOOLEAN
  /\ j.odd => j.late
  /\ \A part \in Parts :
       Pending(j, part) => j.late \/ archive[j.host.rel][part] = "good"

IInv ==
  /\ HostsTyped
  /\ archive \in [Releases -> [Parts -> {"good", "bad"}]]
  /\ job = [p \in Procs |-> job[p]]
  /\ \A p \in Procs : Sound(job[p])

\* A new host is named by the number of its fetch.
Counted == IInv /\ ops \in Nat

\* Nothing that is in its directory goes, unless by hand, and no archive goes bad.
Keeps ==
  /\ \A d \in Roots : host[d] = None \/ host'[d] = host[d]
  /\ deleted \subseteq deleted'
  /\ archive' \in [Releases -> [Parts -> {"good", "bad"}]]
  /\ \A r \in Releases, part \in Parts :
       archive[r][part] = "good" => archive'[r][part] = "good"

LEMMA RootIsRoot ==
  ASSUME NEW h \in Hosts
  PROVE  HostRoot[h] \in Roots /\ h.rel \in Releases /\ h # None
  BY HostAssumption DEF Hosts, Roots, HostRoot

\* Whatever a job holds it keeps holding through the steps of others.
LEMMA SoundIsKept ==
  ASSUME NEW j, Sound(j), Keeps
  PROVE  Sound(j)'
  <1>1. ASSUME j.pc \in Writing
        PROVE  Held(j.host)'
    <2>1. j.host \in Hosts /\ Held(j.host)
      BY <1>1 DEF Sound, Writing
    <2> QED
      BY <2>1, RootIsRoot DEF Held, Keeps
  <1>2. ASSUME NEW part \in Parts, Pending(j, part)
        PROVE  j.late \/ archive'[j.host.rel][part] = "good"
    <2>1. j.host \in Hosts
      BY <1>2 DEF Sound, Pending
    <2> QED
      BY <1>2, <2>1, RootIsRoot DEF Sound, Keeps
  <1> QED
    BY <1>1, <1>2 DEF Sound, Fields

\* A step of one process that keeps what is there and leaves its own job sound.
LEMMA OneProcess ==
  ASSUME IInv, Keeps, HostsTyped', NEW p \in Procs, NEW j,
         job' = [job EXCEPT ![p] = j], Sound(j)'
  PROVE  IInv'
  <1>1. job' = [q \in Procs |-> IF q = p THEN j ELSE job[q]]
    BY DEF IInv
  <1>2. ASSUME NEW q \in Procs
        PROVE  Sound(job[q])'
    <2>1. CASE q = p
      <3>1. job'[q] = j
        BY <1>1, <2>1
      <3> QED
        BY <3>1 DEF Sound, Fields, Held
    <2>2. CASE q # p
      <3>1. job'[q] = job[q]
        BY <1>1, <2>2
      <3>2. ASSUME NEW k, k = job[q]
            PROVE  Sound(k)'
        BY <3>2, SoundIsKept DEF IInv
      <3> QED
        BY <3>1, <3>2 DEF Sound, Fields, Held
    <2> QED
      BY <2>1, <2>2
  <1> QED
    BY <1>1, <1>2 DEF IInv, Keeps

\* The same for a step that changes nothing but the job.
LEMMA OnlyOneProcess ==
  ASSUME IInv, UNCHANGED <<host, archive, deleted>>, NEW p \in Procs, NEW j,
         job' = [job EXCEPT ![p] = j], Sound(j)
  PROVE  IInv'
  <1>1. Keeps /\ HostsTyped'
    BY DEF IInv, HostsTyped, Keeps
  <1>2. Sound(j)'
    BY <1>1, SoundIsKept
  <1> QED
    BY <1>1, <1>2, OneProcess

LEMMA InitInv == Init => IInv
  <1> SUFFICES ASSUME Init PROVE IInv
    OBVIOUS
  <1>1. \A p \in Procs : Sound(job[p])
    <2>1. Sound(NoJob)
      BY DEF NoJob, Sound, Fields, Writing, Parts, Pending
    <2> QED
      BY <2>1 DEF Init
  <1> QED
    BY <1>1 DEF Init, IInv, HostsTyped

\* A job that ends.
LEMMA EndInv ==
  ASSUME IInv, UNCHANGED <<host, archive, deleted>>, NEW p \in Procs, Ended(p)
  PROVE  IInv'
  <1>1. Sound(NoJob)
    BY DEF NoJob, Sound, Fields, Writing, Parts, Pending
  <1> QED
    BY <1>1, OnlyOneProcess DEF Ended

\* A step to a place where nothing is written and no archive is counted on that
\* was not before.
LEMMA GotoInv ==
  ASSUME IInv, UNCHANGED <<host, archive, deleted>>, NEW p \in Procs,
         NEW next \in {"look", "download", "verify", "extract"},
         job[p].pc # "idle", Goto(p, next),
         next = "extract" => job[p].pc = "check",
         next # "extract" => job[p].pc \in {"look", "download", "verify"}
  PROVE  IInv'
  <1> DEFINE j == [job[p] EXCEPT !.pc = next]
  <1>1. Sound(job[p])
    BY DEF IInv
  <1>2. j = [pc |-> next, host |-> job[p].host, part |-> job[p].part,
             odd |-> job[p].odd, old |-> job[p].old,
             entries |-> job[p].entries, late |-> job[p].late]
    BY <1>1 DEF Sound, Fields
  <1>3. Sound(j)
    BY <1>1, <1>2 DEF Sound, Fields, Writing, Pending
  <1>4. job' = [job EXCEPT ![p] = j]
    BY DEF Goto
  <1> QED
    BY <1>3, <1>4, OnlyOneProcess

\* A job with another host in hand, at another place.
LEMMA HostSet ==
  ASSUME NEW j, Fields(j), NEW l, NEW h
  PROVE  [j EXCEPT !.pc = l, !.host = h] =
           [pc |-> l, host |-> h, part |-> j.part, odd |-> j.odd,
            old |-> j.old, entries |-> j.entries, late |-> j.late]
  <1> DEFINE k == [j EXCEPT !.pc = l]
  <1>1. k = [pc |-> l, host |-> j.host, part |-> j.part, odd |-> j.odd,
             old |-> j.old, entries |-> j.entries, late |-> j.late]
    BY DEF Fields
  <1> HIDE DEF k
  <1>2. [k EXCEPT !.host = h] =
          [pc |-> l, host |-> h, part |-> j.part, odd |-> j.odd,
           old |-> j.old, entries |-> j.entries, late |-> j.late]
    BY <1>1
  <1> QED
    BY <1>2 DEF k

LEMMA FetchInv ==
  ASSUME IInv, ops \in Nat, NEW p \in Procs, NEW r \in Releases, Fetch(p, r)
  PROVE  IInv'
  <1> DEFINE h == [rel |-> r, id |-> ops']
             j == [NoJob EXCEPT !.pc = "look", !.host = h]
  <1>1. h \in Hosts
    <2>1. ops' \in 1..MaxOps
      BY HostAssumption DEF Fetch
    <2> QED
      BY <2>1 DEF Hosts
  <1>2. j = [pc |-> "look", host |-> h, part |-> "wine", odd |-> FALSE,
             old |-> None, entries |-> <<>>, late |-> FALSE]
    <2>1. Fields(NoJob)
      BY DEF Fields, NoJob
    <2>2. ASSUME NEW g
          PROVE  [NoJob EXCEPT !.pc = "look", !.host = g] =
                   [pc |-> "look", host |-> g, part |-> NoJob.part,
                    odd |-> NoJob.odd, old |-> NoJob.old,
                    entries |-> NoJob.entries, late |-> NoJob.late]
      BY <2>1, HostSet
    <2> QED
      BY <2>2 DEF NoJob
  <1>3. Sound(j)
    BY <1>1, <1>2 DEF Sound, Fields, Writing, Pending, Parts
  <1>4. job' = [job EXCEPT ![p] = j] /\ UNCHANGED <<host, archive, deleted>>
    BY DEF Fetch, diskVars
  <1> QED
    BY <1>3, <1>4, OnlyOneProcess

LEMMA LookInv ==
  ASSUME IInv, NEW p \in Procs, Look(p)
  PROVE  IInv'
  <1>1. UNCHANGED <<host, archive, deleted>>
    BY DEF Look, OnlyJob, diskVars, boundVars
  <1> QED
    BY <1>1, GotoInv DEF Look, At

LEMMA VerifyInv ==
  ASSUME IInv, NEW p \in Procs, Verify(p)
  PROVE  IInv'
  <1>1. UNCHANGED <<host, archive, deleted>>
    BY DEF Verify, OnlyJob, diskVars, boundVars
  <1>2. CASE Verifies(p)
    <2>1. Sound(job[p]) /\ job[p].pc = "verify" /\ job[p].host \in Hosts
      BY DEF Verify, At, IInv, Sound
    <2>2. CASE job[p].part = "wine"
      <3>1. NextPart(p) = [pc |-> "look", host |-> job[p].host, part |-> "gptk",
                           odd |-> job[p].odd, old |-> job[p].old,
                           entries |-> job[p].entries, late |-> job[p].late]
        BY <2>1, <2>2 DEF NextPart, Sound, Fields
      <3>2. Sound(NextPart(p))
        BY <1>2, <2>1, <2>2, <3>1 DEF Sound, Fields, Writing, Pending, Parts, Verifies
      <3> QED
        BY <1>1, <1>2, <3>2, OnlyOneProcess DEF Verify
    <2>3. CASE job[p].part = "gptk"
      <3>1. NextPart(p) = [pc |-> "check", host |-> job[p].host, part |-> "wine",
                           odd |-> job[p].odd, old |-> job[p].old,
                           entries |-> job[p].entries, late |-> job[p].late]
        BY <2>1, <2>3 DEF NextPart, Sound, Fields
      <3>2. Sound(NextPart(p))
        BY <1>2, <2>1, <2>3, <3>1 DEF Sound, Fields, Writing, Pending, Parts, Verifies
      <3> QED
        BY <1>1, <1>2, <3>2, OnlyOneProcess DEF Verify
    <2> QED
      BY <2>1, <2>2, <2>3 DEF Sound, Parts
  <1>3. CASE ~Verifies(p)
    BY <1>1, <1>3, EndInv DEF Verify
  <1> QED
    BY <1>2, <1>3

\* A host that is in its directory becomes the one to make current.
LEMMA TakeInv ==
  ASSUME IInv, UNCHANGED <<host, archive, deleted>>, NEW p \in Procs,
         job[p].host \in Hosts, host[Root(p)] # None,
         job' = [job EXCEPT ![p].pc = "readCurrent", ![p].host = host[Root(p)]]
  PROVE  IInv'
  <1> DEFINE h == host[Root(p)]
             j == [job[p] EXCEPT !.pc = "readCurrent", !.host = h]
  <1>1. h \in Hosts /\ Held(h)
    BY RootIsRoot DEF IInv, HostsTyped, Root, Held
  <1>2. Sound(job[p])
    BY DEF IInv
  <1>3. j = [pc |-> "readCurrent", host |-> h, part |-> job[p].part,
             odd |-> job[p].odd, old |-> job[p].old,
             entries |-> job[p].entries, late |-> job[p].late]
    BY <1>2, HostSet DEF Sound
  <1>4. Sound(j)
    BY <1>1, <1>2, <1>3 DEF Sound, Fields, Pending, Writing
  <1>5. job' = [job EXCEPT ![p] = j]
    OBVIOUS
  <1> QED
    BY <1>4, <1>5, OnlyOneProcess

LEMMA CheckInv ==
  ASSUME IInv, NEW p \in Procs, Check(p) \/ ReadInstalled(p)
  PROVE  IInv'
  <1>1. UNCHANGED <<host, archive, deleted>>
    BY DEF Check, ReadInstalled, OnlyJob, diskVars, boundVars
  <1>2. job[p].host \in Hosts
    BY DEF Check, ReadInstalled, At, IInv, Sound
  <1>3. CASE Goto(p, "extract") /\ At(p, "check")
    BY <1>1, <1>3, GotoInv DEF At
  <1>4. CASE Ended(p)
    BY <1>1, <1>4, EndInv
  <1>5. CASE /\ host[Root(p)] # None
             /\ job' = [job EXCEPT ![p].pc = "readCurrent",
                                   ![p].host = host[Root(p)]]
    BY <1>1, <1>2, <1>5, TakeInv
  <1> QED
    BY <1>3, <1>4, <1>5 DEF Check, ReadInstalled

LEMMA DownloadInv ==
  ASSUME IInv, NEW p \in Procs, Download(p)
  PROVE  IInv'
  <1>0. PICK j : j = [job[p] EXCEPT !.pc = "verify"]
    OBVIOUS
  <1>1. Sound(job[p]) /\ job[p].pc = "download" /\ job[p].host \in Hosts
    BY DEF IInv, Sound, Download, At
  <1>2. job[p].host.rel \in Releases
    BY <1>1, RootIsRoot
  <1>3. Keeps /\ HostsTyped'
    BY <1>1, <1>2 DEF IInv, HostsTyped, Keeps, Download, boundVars, Sound
  <1>4. j = [pc |-> "verify", host |-> job[p].host, part |-> job[p].part,
             odd |-> job[p].odd, old |-> job[p].old,
             entries |-> job[p].entries, late |-> job[p].late]
    BY <1>0, <1>1 DEF Sound, Fields
  <1>5. Sound(j)
    BY <1>1, <1>4 DEF Sound, Fields, Writing, Pending
  <1>6. Sound(j)'
    BY <1>3, <1>5, SoundIsKept
  <1>7. job' = [job EXCEPT ![p] = j]
    BY <1>0 DEF Download, Goto
  <1> QED
    BY <1>3, <1>6, <1>7, OneProcess

\* A job that has extracted an archive.
LEMMA PartSet ==
  ASSUME NEW j, Fields(j), NEW l, NEW x, NEW b
  PROVE  [j EXCEPT !.pc = l, !.part = x, !.odd = b] =
           [pc |-> l, host |-> j.host, part |-> x, odd |-> b,
            old |-> j.old, entries |-> j.entries, late |-> j.late]
  <1> DEFINE k == [j EXCEPT !.pc = l]
             m == [k EXCEPT !.part = x]
  <1>1. k = [pc |-> l, host |-> j.host, part |-> j.part, odd |-> j.odd,
             old |-> j.old, entries |-> j.entries, late |-> j.late]
    BY DEF Fields
  <1> HIDE DEF k
  <1>2. m = [pc |-> l, host |-> j.host, part |-> x, odd |-> j.odd,
             old |-> j.old, entries |-> j.entries, late |-> j.late]
    BY <1>1
  <1> HIDE DEF m
  <1>3. [m EXCEPT !.odd = b] =
          [pc |-> l, host |-> j.host, part |-> x, odd |-> b,
           old |-> j.old, entries |-> j.entries, late |-> j.late]
    BY <1>2
  <1> QED
    BY <1>3 DEF k, m

LEMMA ExtractInv ==
  ASSUME IInv, NEW p \in Procs, Extract(p)
  PROVE  IInv'
  <1> DEFINE bad == job[p].odd \/ ~Verifies(p)
             l == IF job[p].part = "wine" THEN "extract" ELSE "rename"
             x == IF job[p].part = "wine" THEN "gptk" ELSE "wine"
             j == [job[p] EXCEPT !.pc = l, !.part = x, !.odd = bad]
  <1>1. UNCHANGED <<host, archive, deleted>>
    BY DEF Extract, OnlyJob, diskVars, boundVars
  <1>2. Sound(job[p]) /\ job[p].pc = "extract" /\ job[p].host \in Hosts
    BY DEF IInv, Sound, Extract, At
  <1>3. bad \in BOOLEAN /\ (bad => job[p].late)
    BY <1>2 DEF Sound, Pending, Verifies, Parts
  <1>4. ASSUME NEW m, NEW y, NEW b
        PROVE  [job[p] EXCEPT !.pc = m, !.part = y, !.odd = b] =
                 [pc |-> m, host |-> job[p].host, part |-> y, odd |-> b,
                  old |-> job[p].old, entries |-> job[p].entries,
                  late |-> job[p].late]
    <2>1. PICK g : g = job[p]
      OBVIOUS
    <2>2. Fields(g)
      BY <1>2, <2>1 DEF Sound
    <2>3. [g EXCEPT !.pc = m, !.part = y, !.odd = b] =
            [pc |-> m, host |-> g.host, part |-> y, odd |-> b, old |-> g.old,
             entries |-> g.entries, late |-> g.late]
      BY <2>2, PartSet
    <2> QED
      BY <2>1, <2>3
  <1>5. j = [pc |-> l, host |-> job[p].host, part |-> x, odd |-> bad,
             old |-> job[p].old, entries |-> job[p].entries,
             late |-> job[p].late]
    BY <1>4
  <1>6. /\ l \in {"extract", "rename"}
        /\ l = "extract" => x = "gptk"
        /\ x \in Parts
    BY DEF Parts
  <1>7. \A part \in Parts :
          l = "extract" /\ part = "gptk" =>
            job[p].late \/ archive[job[p].host.rel][part] = "good"
    BY <1>2 DEF Sound, Pending
  <1> HIDE DEF bad, l, x
  <1>8. Sound(j)
    BY <1>2, <1>3, <1>5, <1>6, <1>7 DEF Sound, Fields, Pending, Writing
  <1>9. CASE job' = [job EXCEPT ![p] = j]
    BY <1>1, <1>8, <1>9, OnlyOneProcess
  <1>10. CASE Ended(p)
    BY <1>1, <1>10, EndInv
  <1> QED
    BY <1>9, <1>10 DEF Extract, bad, l, x

LEMMA RenameInv ==
  ASSUME IInv, NEW p \in Procs, Rename(p)
  PROVE  IInv'
  <1>0. PICK j : j = [job[p] EXCEPT !.pc = "installed"]
    OBVIOUS
  <1>1. Sound(job[p]) /\ job[p].host \in Hosts
    BY DEF IInv, Sound, Rename, At
  <1>2. Root(p) \in Roots
    BY <1>1, RootIsRoot DEF Root
  <1>3. CASE host[Root(p)] = None
    <2>1. Keeps /\ HostsTyped'
      BY <1>1, <1>2, <1>3 DEF IInv, HostsTyped, Keeps, Rename, boundVars, Root
    <2>2. j = [pc |-> "installed", host |-> job[p].host, part |-> job[p].part,
               odd |-> job[p].odd, old |-> job[p].old,
               entries |-> job[p].entries, late |-> job[p].late]
      BY <1>0, <1>1 DEF Sound, Fields
    <2>3. Sound(j)
      BY <1>1, <2>2 DEF Sound, Fields, Writing, Pending
    <2>4. Sound(j)'
      BY <2>1, <2>3, SoundIsKept
    <2>5. job' = [job EXCEPT ![p] = j]
      BY <1>0, <1>3 DEF Rename, Goto
    <2> QED
      BY <2>1, <2>4, <2>5, OneProcess
  <1>4. CASE host[Root(p)] # None
    BY <1>4, EndInv DEF Rename, boundVars
  <1> QED
    BY <1>3, <1>4

\* The steps of an activation keep the host in hand.
LEMMA ActivateInv ==
  ASSUME IInv, UNCHANGED <<host, archive, deleted>>, NEW p \in Procs, NEW k,
         Fields(k), job[p].pc \in Writing, k.pc \in Writing,
         k.host = job[p].host, k.part = job[p].part, k.odd = job[p].odd,
         k.late = job[p].late, job' = [job EXCEPT ![p] = k]
  PROVE  IInv'
  <1>1. Sound(job[p])
    BY DEF IInv
  <1>2. Sound(k)
    BY <1>1 DEF Sound, Writing, Pending
  <1> QED
    BY <1>2, OnlyOneProcess

LEMMA PointerInv ==
  ASSUME IInv, NEW p \in Procs,
         ReadCurrent(p) \/ ReadHistory(p) \/ WriteHistory(p)
  PROVE  IInv'
  <1> DEFINE j == job[p]
  <1>1. /\ UNCHANGED <<host, archive, deleted>>
        /\ j.pc \in Writing
    BY DEF ReadCurrent, ReadHistory, WriteHistory, At, Writing, OnlyJob,
           diskVars, boundVars
  <1>2. Fields(j)
    BY DEF IInv, Sound
  <1>3. CASE ReadCurrent(p)
    <2> DEFINE l == IF current \in {None, job[p].host} THEN "writeCurrent"
                    ELSE "readHistory"
               i == [j EXCEPT !.old = current]
               k == [i EXCEPT !.pc = l]
    <2>1. i = [pc |-> j.pc, host |-> j.host, part |-> j.part, odd |-> j.odd,
               old |-> current, entries |-> j.entries, late |-> j.late]
      BY <1>2 DEF Fields
    <2>2. l \in Writing
      BY DEF Writing
    <2>3. job' = [job EXCEPT ![p] = k]
      BY <1>3 DEF ReadCurrent
    <2> HIDE DEF i, l
    <2>4. k = [pc |-> l, host |-> j.host, part |-> j.part, odd |-> j.odd,
               old |-> current, entries |-> j.entries, late |-> j.late]
      BY <2>1
    <2> HIDE DEF k, j
    <2>5. Fields(k)
      BY <2>4 DEF Fields
    <2> QED
      BY <1>1, <2>2, <2>3, <2>4, <2>5, ActivateInv DEF j
  <1>4. CASE ReadHistory(p)
    <2> DEFINE i == [j EXCEPT !.pc = "writeHistory"]
               k == [i EXCEPT !.entries = Entries(p)]
    <2>1. i = [pc |-> "writeHistory", host |-> j.host, part |-> j.part,
               odd |-> j.odd, old |-> j.old, entries |-> j.entries,
               late |-> j.late]
      BY <1>2 DEF Fields
    <2>2. job' = [job EXCEPT ![p] = k]
      BY <1>4 DEF ReadHistory
    <2> HIDE DEF i
    <2>3. k = [pc |-> "writeHistory", host |-> j.host, part |-> j.part,
               odd |-> j.odd, old |-> j.old, entries |-> Entries(p),
               late |-> j.late]
      BY <2>1
    <2> HIDE DEF k, j
    <2>4. Fields(k) /\ k.pc \in Writing
      BY <2>3 DEF Fields, Writing
    <2> QED
      BY <1>1, <2>2, <2>3, <2>4, ActivateInv DEF j
  <1>5. CASE WriteHistory(p)
    <2> DEFINE k == [j EXCEPT !.pc = "writeCurrent"]
    <2>1. k = [pc |-> "writeCurrent", host |-> j.host, part |-> j.part,
               odd |-> j.odd, old |-> j.old, entries |-> j.entries,
               late |-> j.late]
      BY <1>2 DEF Fields
    <2>2. job' = [job EXCEPT ![p] = k]
      BY <1>5 DEF WriteHistory, Goto
    <2> HIDE DEF k, j
    <2>3. Fields(k) /\ k.pc \in Writing
      BY <2>1 DEF Fields, Writing
    <2> QED
      BY <1>1, <2>1, <2>2, <2>3, ActivateInv DEF j
  <1> QED
    BY <1>3, <1>4, <1>5

\* The end of an activation.
LEMMA WriteCurrentInv ==
  ASSUME IInv, NEW p \in Procs, WriteCurrent(p)
  PROVE  IInv'
  BY EndInv DEF WriteCurrent, diskVars, boundVars

LEMMA StopInv ==
  ASSUME IInv, NEW p \in Procs, Stop(p)
  PROVE  IInv'
  BY EndInv DEF Stop, OnlyJob, diskVars, boundVars

\* A changed archive: the jobs that count on it are marked.
LEMMA SpoilInv ==
  ASSUME IInv, NEW r \in Releases, NEW part \in Parts, Spoil(r, part)
  PROVE  IInv'
  <1>1. /\ UNCHANGED <<host, deleted>>
        /\ archive' = [archive EXCEPT ![r][part] = "bad"]
    BY DEF Spoil
  <1>2. archive' \in [Releases -> [Parts -> {"good", "bad"}]]
    BY <1>1 DEF IInv
  <1>3. job' = [p \in Procs |-> job'[p]]
    BY DEF Spoil
  <1>4. ASSUME NEW q \in Releases, NEW x \in Parts,
               ~(q = r /\ x = part), archive[q][x] = "good"
        PROVE  archive'[q][x] = "good"
    BY <1>1, <1>4 DEF IInv
  <1>5. ASSUME NEW p \in Procs
        PROVE  Sound(job[p])'
    <2>1. PICK j : j = job[p]
      OBVIOUS
    <2>2. Sound(j)
      BY <2>1 DEF IInv
    <2>3. CASE Pending(j, part) /\ j.host.rel = r
      <3>1. PICK k : k = [j EXCEPT !.late = TRUE]
        OBVIOUS
      <3>2. job'[p] = k
        BY <2>1, <2>3, <3>1 DEF Spoil
      <3>3. k = [pc |-> j.pc, host |-> j.host, part |-> j.part, odd |-> j.odd,
                 old |-> j.old, entries |-> j.entries, late |-> TRUE]
        BY <2>2, <3>1 DEF Sound, Fields
      <3>4. Sound(k)
        BY <2>2, <3>3 DEF Sound, Fields, Pending, Writing
      <3> QED
        BY <1>1, <3>2, <3>3, <3>4 DEF Sound, Fields, Held
    <2>4. CASE ~(Pending(j, part) /\ j.host.rel = r)
      <3>1. job'[p] = j
        BY <2>1, <2>4 DEF Spoil
      <3>2. ASSUME NEW x \in Parts, Pending(j, x)
            PROVE  j.late \/ archive'[j.host.rel][x] = "good"
        <4>1. j.host.rel \in Releases
          BY <2>2, <3>2, RootIsRoot DEF Sound, Pending
        <4>2. j.late \/ archive[j.host.rel][x] = "good"
          BY <2>2, <3>2 DEF Sound
        <4> QED
          BY <1>4, <2>4, <3>2, <4>1, <4>2
      <3> QED
        BY <1>1, <2>2, <3>1, <3>2 DEF Sound, Fields, Held
    <2> QED
      BY <2>3, <2>4
  <1> QED
    BY <1>1, <1>2, <1>3, <1>5 DEF IInv, HostsTyped

LEMMA DirectoryInv ==
  ASSUME IInv, NEW d \in Roots, Damage(d) \/ Delete(d)
  PROVE  IInv'
  <1>1. UNCHANGED <<archive, job>> /\ deleted \subseteq deleted'
    BY DEF Damage, Delete
  <1>2. HostsTyped'
    BY DEF IInv, HostsTyped, Damage, Delete
  <1>3. ASSUME NEW h \in Hosts, Held(h)
        PROVE  Held(h)'
    BY <1>3, RootIsRoot DEF Held, Damage, Delete, IInv, HostsTyped
  <1>4. ASSUME NEW p \in Procs
        PROVE  Sound(job[p])'
    <2>1. PICK j : j = job[p]
      OBVIOUS
    <2>2. Sound(j)
      BY <2>1 DEF IInv
    <2>3. j.pc \in Writing => Held(j.host)'
      BY <1>3, <2>2 DEF Sound, Writing
    <2> QED
      BY <1>1, <2>1, <2>2, <2>3 DEF Sound, Fields, Held
  <1> QED
    BY <1>1, <1>2, <1>4 DEF IInv

\* Every step keeps the invariant.
LEMMA NextInv ==
  ASSUME Counted, [Next]_vars
  PROVE  Counted'
  <1>0. IInv /\ ops \in Nat
    BY DEF Counted
  <1> SUFFICES IInv' /\ ops' \in Nat
    BY DEF Counted
  <1>1. CASE \E p \in Procs, r \in Releases : Fetch(p, r)
    <2>1. PICK p \in Procs, r \in Releases : Fetch(p, r)
      BY <1>1
    <2>2. ops' \in Nat
      BY <1>0, <2>1 DEF Fetch
    <2> QED
      BY <1>0, <2>1, <2>2, FetchInv
  <1>2. ASSUME NEW p \in Procs, Step(p), ~\E r \in Releases : Fetch(p, r)
        PROVE  IInv' /\ ops' \in Nat
    <2>1. ops' = ops
      BY <1>0, <1>2 DEF Step, Look, Download, Verify, Check, Extract, Rename,
         ReadInstalled, ReadCurrent, ReadHistory, WriteHistory, WriteCurrent,
         Stop, OnlyJob, boundVars
    <2>2. IInv'
      BY <1>0, <1>2, LookInv, DownloadInv, VerifyInv, CheckInv, ExtractInv, RenameInv,
         PointerInv, WriteCurrentInv, StopInv DEF Step
    <2> QED
      BY <1>0, <2>1, <2>2
  <1>3. CASE \/ \E r \in Releases, part \in Parts : Spoil(r, part)
             \/ \E d \in Roots : Damage(d) \/ Delete(d)
    BY <1>0, <1>3, SpoilInv, DirectoryInv DEF Spoil, Damage, Delete, Fault
  <1>4. CASE UNCHANGED vars
    BY <1>0, <1>4 DEF vars, diskVars, boundVars, IInv, HostsTyped, Sound, Fields, Held
  <1> QED
    BY <1>1, <1>2, <1>3, <1>4 DEF Next

\* Every step of the processes, and everything that happens to the disk, is a
\* step of the registry or leaves it as it is.
LEMMA RegistryStep ==
  ASSUME IInv, [Next]_vars
  PROVE  [Registry!Next]_<<host, deleted, current>>
  <1>1. CASE \E p \in Procs : Rename(p)
    <2>1. PICK p \in Procs : Rename(p)
      BY <1>1
    <2> DEFINE h == job[p].host
    <2>2. h \in Hosts
      BY <2>1 DEF IInv, Sound, Rename, At
    <2>3. CASE host[HostRoot[h]] = None
      <3>1. Registry!Put(h)
        BY <2>1, <2>3 DEF Rename, Root, Registry!Put, boundVars, pointerVars
      <3> QED
        BY <2>2, <3>1 DEF Registry!Next
    <2>4. CASE host[HostRoot[h]] # None
      BY <2>1, <2>4 DEF Rename, Root, boundVars, pointerVars
    <2> QED
      BY <2>3, <2>4
  <1>2. CASE \E p \in Procs : WriteCurrent(p)
    <2>1. PICK p \in Procs : WriteCurrent(p)
      BY <1>2
    <2> DEFINE h == job[p].host
    <2>2. h \in Hosts /\ Held(h)
      BY <2>1 DEF WriteCurrent, At, IInv, Sound, Writing
    <2>3. Registry!Point(h)
      BY <2>1, <2>2 DEF WriteCurrent, Registry!Point, Held, diskVars, boundVars
    <2> QED
      BY <2>2, <2>3 DEF Registry!Next
  <1>3. CASE \E d \in Roots : Delete(d)
    <2>1. PICK d \in Roots : Delete(d)
      BY <1>3
    <2>2. Registry!DeleteByHand(d)
      BY <2>1 DEF Delete, Fault, Registry!DeleteByHand, pointerVars
    <2>3. d \in Registry!Dirs
      <3>1. PICK r \in Releases : d = RootOf[r]
        BY DEF Roots
      <3> DEFINE h == host[d]
      <3>2. h \in Hosts /\ HostRoot[h] = d
        BY <2>1 DEF Delete, IInv, HostsTyped
      <3> QED
        BY <3>2 DEF Registry!Dirs
    <2> QED
      BY <2>2, <2>3 DEF Registry!Next
  <1>4. CASE \E p \in Procs :
               \/ \E r \in Releases : Fetch(p, r)
               \/ Look(p) \/ Download(p) \/ Verify(p) \/ Check(p) \/ Extract(p)
               \/ ReadInstalled(p) \/ ReadCurrent(p) \/ ReadHistory(p)
               \/ WriteHistory(p) \/ Stop(p)
    BY <1>4 DEF Fetch, Look, Download, Verify, Check, Extract, ReadInstalled,
         ReadCurrent, ReadHistory, WriteHistory, Stop, OnlyJob, diskVars,
         pointerVars, boundVars
  <1>5. CASE \/ \E r \in Releases, part \in Parts : Spoil(r, part)
             \/ \E d \in Roots : Damage(d)
    BY <1>5 DEF Spoil, Damage, Fault, pointerVars
  <1>6. CASE UNCHANGED vars
    BY <1>6 DEF vars, diskVars, pointerVars, boundVars
  <1> QED
    BY <1>1, <1>2, <1>3, <1>4, <1>5, <1>6 DEF Next, Step

\* The processes that fetch hosts together implement the registry of packages
\* that whoever reads the pointer of the host runtimes relies on.
THEOREM HostsImplementRegistry == Spec => HostsAreARegistry
  <1>1. Init => Registry!Init
    <2> SUFFICES ASSUME Init PROVE Registry!Init
      OBVIOUS
    <2>1. ASSUME NEW r \in Releases
          PROVE  RootOf[r] \in Registry!Dirs
      <3> DEFINE h == [rel |-> r, id |-> 1]
      <3>1. h \in Hosts
        BY HostAssumption DEF Hosts
      <3>2. HostRoot[h] = RootOf[r]
        BY <3>1 DEF HostRoot
      <3> QED
        BY <3>1, <3>2 DEF Registry!Dirs
    <2>2. ASSUME NEW h \in Hosts
          PROVE  HostRoot[h] \in Roots
      BY RootIsRoot
    <2>3. Roots = Registry!Dirs
      BY <2>1, <2>2 DEF Roots, Registry!Dirs
    <2> QED
      BY <2>3 DEF Init, Registry!Init
  <1>2. Init => Counted
    BY InitInv DEF Init, Counted
  <1>3. Counted /\ [Next]_vars => Counted'
    BY NextInv
  <1>4. Counted /\ [Next]_vars => [Registry!Next]_<<host, deleted, current>>
    BY RegistryStep DEF Counted
  <1> QED
    BY <1>1, <1>2, <1>3, <1>4, PTL
       DEF Spec, HostsAreARegistry, Registry!Spec, Registry!registryVars

\* A directory gets other contents than the pinned ones only from a fetch whose
\* archive was changed after it had been verified, whatever the other fetches do.
THEOREM HostContentsPinned == Spec => ContentsArePinned
  <1> DEFINE Pinned == \A d \in odd' \ odd : \E p \in Procs :
                         At(p, "rename") /\ Root(p) = d /\ job[p].late
  <1>1. ASSUME IInv, [Next]_vars
        PROVE  Pinned
    <2>1. CASE \E p \in Procs : Rename(p)
      BY <1>1, <2>1 DEF Rename, IInv, Sound
    <2>2. CASE odd' \subseteq odd
      BY <2>2
    <2> QED
      BY <1>1, <2>1, <2>2 DEF Next, Step, Fetch, Look, Download, Verify, Check,
         Extract, ReadInstalled, ReadCurrent, ReadHistory, WriteHistory,
         WriteCurrent, Stop, Spoil, Damage, Delete, OnlyJob, diskVars, vars
  <1>2. Counted /\ [Next]_vars => [Pinned]_vars
    BY <1>1 DEF Counted
  <1>3. Init => Counted
    BY InitInv DEF Init, Counted
  <1>4. Counted /\ [Next]_vars => Counted'
    BY NextInv
  <1> QED
    BY <1>2, <1>3, <1>4, PTL DEF Spec, ContentsArePinned

--------------------------------------------------------------------------------
(* The rest of the types.  The list of pointers is cut to HistoryCap.       *)

\* g is the function Others(s, x) defines, up to position m.
KeptTo(g, s, x, m) ==
  g = [n \in 0..m |-> IF n = 0 THEN <<>>
                      ELSE IF s[n] = x THEN g[n - 1] ELSE Append(g[n - 1], s[n])]

\* Natural induction, for a set of numbers.
LEMMA NatSetInduction ==
  ASSUME NEW T, 0 \in T, \A n \in Nat : n \in T => n + 1 \in T
  PROVE  \A n \in Nat : n \in T
  <1> DEFINE U == Nat \ T
  <1>1. SUFFICES ASSUME U # {} PROVE FALSE
    OBVIOUS
  <1>2. IsWellFoundedOn(OpToRel(<, Nat), Nat)
    BY NatLessThanWellFounded
  <1>3. U \subseteq Nat
    OBVIOUS
  <1> HIDE DEF U
  <1>4. PICK m \in U : \A k \in U : <<k, m>> \notin OpToRel(<, Nat)
    BY <1>1, <1>2, <1>3, WFMin
  <1>5. \A k \in U : ~(k < m)
    BY <1>3, <1>4 DEF OpToRel
  <1>6. m \in Nat /\ m # 0 /\ m \notin T
    BY <1>4 DEF U
  <1>7. m - 1 \in Nat /\ (m - 1) + 1 = m
    BY <1>6
  <1>8. m - 1 \in T
    BY <1>5, <1>7 DEF U
  <1> QED
    BY <1>6, <1>7, <1>8

LEMMA KeptExists ==
  ASSUME NEW s, NEW x, NEW m \in Nat
  PROVE  \E g : KeptTo(g, s, x, m)
  <1> DEFINE T == {n \in Nat : \E g : KeptTo(g, s, x, n)}
  <1>1. 0 \in T
    <2>1. KeptTo([n \in 0..0 |-> <<>>], s, x, 0)
      BY DEF KeptTo
    <2> QED
      BY <2>1
  <1>2. ASSUME NEW n \in Nat, n \in T
        PROVE  n + 1 \in T
    <2>1. PICK g : KeptTo(g, s, x, n)
      BY <1>2
    <2> DEFINE last == IF s[n + 1] = x THEN g[n] ELSE Append(g[n], s[n + 1])
               h == [k \in 0..(n + 1) |-> IF k = n + 1 THEN last ELSE g[k]]
    <2>2. \A k \in 0..n : g[k] = IF k = 0 THEN <<>>
                                 ELSE IF s[k] = x THEN g[k - 1] ELSE Append(g[k - 1], s[k])
      BY <2>1 DEF KeptTo
    <2>3. ASSUME NEW k \in 0..(n + 1)
          PROVE  h[k] = IF k = 0 THEN <<>>
                        ELSE IF s[k] = x THEN h[k - 1] ELSE Append(h[k - 1], s[k])
      <3>1. CASE k = n + 1
        <4>1. k # 0 /\ k - 1 = n /\ h[k - 1] = g[n] /\ h[k] = last
          BY <3>1
        <4> QED
          BY <3>1, <4>1
      <3>2. CASE k # n + 1
        <4>1. k \in 0..n /\ h[k] = g[k] /\ (k # 0 => h[k - 1] = g[k - 1])
          BY <3>2
        <4> HIDE DEF h
        <4> QED
          BY <2>2, <4>1
      <3> QED
        BY <3>1, <3>2
    <2>4. KeptTo(h, s, x, n + 1)
      <3>1. h = [k \in 0..(n + 1) |-> h[k]]
        OBVIOUS
      <3> HIDE DEF h
      <3> QED
        BY <2>3, <3>1 DEF KeptTo
    <2> QED
      BY <2>4
  <1> HIDE DEF T
  <1>3. m \in T
    BY <1>1, <1>2, NatSetInduction
  <1> QED
    BY <1>3 DEF T

LEMMA OthersTyped ==
  ASSUME NEW S, NEW s \in Seq(S), NEW x
  PROVE  Others(s, x) \in Seq(S)
  <1> DEFINE m == Len(s)
             g == CHOOSE g : KeptTo(g, s, x, m)
             T == {n \in Nat : n <= m => g[n] \in Seq(S)}
  <1>1. m \in Nat /\ \A i \in 1..m : s[i] \in S
    BY LenProperties
  <1>2. KeptTo(g, s, x, m)
    BY <1>1, KeptExists
  <1>3. Others(s, x) = g[m]
    BY DEF Others, KeptTo
  <1> HIDE DEF g, m
  <1>4. 0 \in T
    <2>1. g[0] = <<>>
      BY <1>1, <1>2 DEF KeptTo
    <2> QED
      BY <2>1, EmptySeq
  <1>5. ASSUME NEW n \in Nat, n \in T
        PROVE  n + 1 \in T
    <2>1. SUFFICES ASSUME n + 1 <= m PROVE g[n + 1] \in Seq(S)
      OBVIOUS
    <2>2. g[n] \in Seq(S) /\ s[n + 1] \in S
      BY <1>1, <1>5, <2>1
    <2>3. n + 1 \in 0..m /\ n + 1 # 0 /\ (n + 1) - 1 = n
      BY <1>1, <2>1
    <2>4. g[n + 1] = IF s[n + 1] = x THEN g[n] ELSE Append(g[n], s[n + 1])
      BY <1>2, <2>3 DEF KeptTo
    <2>5. Append(g[n], s[n + 1]) \in Seq(S)
      BY <2>2, AppendProperties
    <2> QED
      BY <2>2, <2>4, <2>5
  <1> HIDE DEF T
  <1>6. m \in T
    BY <1>1, <1>4, <1>5, NatSetInduction
  <1> QED
    BY <1>1, <1>3, <1>6 DEF T

LEMMA EntriesTyped ==
  ASSUME history \in Seq(Hosts), NEW p \in Procs, job[p].old \in Hosts
  PROVE  Entries(p) \in Seq(Hosts) /\ Len(Entries(p)) <= HistoryCap
  <1> DEFINE all == <<job[p].old>> \o Others(history, job[p].old)
             n == IF Len(all) < HistoryCap THEN Len(all) ELSE HistoryCap
  <1>1. all \in Seq(Hosts)
    <2>1. <<job[p].old>> \in Seq(Hosts)
      OBVIOUS
    <2> QED
      BY <2>1, OthersTyped, ConcatProperties
  <1>2. Entries(p) = SubSeq(all, 1, n)
    BY DEF Entries
  <1> HIDE DEF all
  <1>3. /\ n \in Nat /\ n <= Len(all) /\ n <= HistoryCap
        /\ \A i \in 1..Len(all) : all[i] \in Hosts
    BY <1>1, LenProperties, HostAssumption
  <1> HIDE DEF n
  <1>4. \A i \in 1..n : all[i] \in Hosts
    BY <1>1, <1>3, LenProperties
  <1>5. /\ SubSeq(all, 1, n) \in Seq(Hosts)
        /\ Len(SubSeq(all, 1, n)) = IF 1 <= n THEN n - 1 + 1 ELSE 0
    BY <1>3, <1>4, SubSeqProperties
  <1> QED
    BY <1>2, <1>3, <1>5

\* What Sound leaves out of the type of a job.
Listed(j) ==
  /\ j.pc \in {"idle", "look", "download", "verify", "check", "extract",
               "rename", "installed", "readCurrent", "readHistory",
               "writeHistory", "writeCurrent"}
  /\ j.host \in Hosts \cup {None}
  /\ j.old \in Hosts \cup {None}
  /\ j.pc \in {"readHistory", "writeHistory"} => j.old # None
  /\ j.entries \in Seq(Hosts) /\ Len(j.entries) <= HistoryCap

ListsTyped ==
  /\ current \in Hosts \cup {None}
  /\ history \in Seq(Hosts) /\ Len(history) <= HistoryCap
  /\ \A p \in Procs : Listed(job[p])

BoundsTyped ==
  /\ odd \subseteq Roots /\ broken \subseteq Roots /\ deleted \subseteq Roots
  /\ ops \in 0..MaxOps /\ faults \in 0..MaxFaults

LEMMA EmptyListed == Listed(NoJob)
  <1>1. <<>> \in Seq(Hosts) /\ Len(<<>>) = 0
    BY EmptySeq
  <1> QED
    BY <1>1, HostAssumption DEF Listed, NoJob

LEMMA TypesInit == Init => ListsTyped /\ BoundsTyped
  <1> SUFFICES ASSUME Init PROVE ListsTyped /\ BoundsTyped
    OBVIOUS
  <1>1. history \in Seq(Hosts) /\ Len(history) = 0
    BY EmptySeq DEF Init
  <1>2. \A p \in Procs : Listed(job[p])
    BY EmptyListed DEF Init
  <1> QED
    BY <1>1, <1>2, HostAssumption DEF Init, ListsTyped, BoundsTyped

\* A step of one process, which leaves the pointer files alone.
LEMMA OneJobListed ==
  ASSUME IInv, ListsTyped, UNCHANGED pointerVars, NEW p \in Procs, NEW j,
         Listed(j), job' = [job EXCEPT ![p] = j]
  PROVE  ListsTyped'
  <1>1. \A q \in Procs : job'[q] = IF q = p THEN j ELSE job[q]
    BY DEF IInv
  <1>2. ASSUME NEW q \in Procs
        PROVE  Listed(job'[q])
    BY <1>1 DEF ListsTyped
  <1> QED
    BY <1>2 DEF ListsTyped, Listed, pointerVars

LEMMA ListedStep ==
  ASSUME IInv, ListsTyped, ops \in Nat, NEW p \in Procs, Step(p)
  PROVE  ListsTyped'
  <1> DEFINE k == job[p]
  <1>1. Fields(k) /\ Sound(k) /\ Listed(k)
    BY DEF IInv, Sound, ListsTyped
  <1>2. CASE \E r \in Releases : Fetch(p, r)
    <2>1. PICK r \in Releases : Fetch(p, r)
      BY <1>2
    <2> DEFINE h == [rel |-> r, id |-> ops']
    <2>2. h \in Hosts
      <3>1. ops' \in 1..MaxOps
        BY <2>1, HostAssumption DEF Fetch
      <3> QED
        BY <3>1 DEF Hosts
    <2>3. [NoJob EXCEPT !.pc = "look", !.host = h] =
            [pc |-> "look", host |-> h, part |-> NoJob.part, odd |-> NoJob.odd,
             old |-> NoJob.old, entries |-> NoJob.entries, late |-> NoJob.late]
      <3>1. Fields(NoJob)
        BY DEF Fields, NoJob
      <3> HIDE DEF h
      <3> QED
        BY <3>1, HostSet
    <2>4. Listed([NoJob EXCEPT !.pc = "look", !.host = h])
      BY <2>2, <2>3, EmptyListed DEF Listed
    <2> QED
      BY <2>1, <2>4, OneJobListed DEF Fetch
  <1>3. CASE Ended(p) /\ UNCHANGED pointerVars
    BY <1>3, EmptyListed, OneJobListed DEF Ended
  <1>4. ASSUME NEW l \in {"download", "verify", "extract", "installed"},
               Goto(p, l), UNCHANGED pointerVars
        PROVE  ListsTyped'
    <2>1. [k EXCEPT !.pc = l] =
            [pc |-> l, host |-> k.host, part |-> k.part, odd |-> k.odd,
             old |-> k.old, entries |-> k.entries, late |-> k.late]
      BY <1>1 DEF Fields
    <2>2. Listed([k EXCEPT !.pc = l])
      BY <1>1, <2>1 DEF Listed
    <2>3. job' = [job EXCEPT ![p] = [k EXCEPT !.pc = l]]
      BY <1>4 DEF Goto
    <2> QED
      BY <1>4, <2>2, <2>3, OneJobListed
  <1>5. CASE Look(p) \/ Download(p)
    BY <1>4, <1>5 DEF Look, Download, OnlyJob
  <1>6. CASE Verify(p)
    <2>1. Listed(NextPart(p))
      <3>1. CASE k.part = "wine"
        <4>1. NextPart(p) = [pc |-> "look", host |-> k.host, part |-> "gptk",
                             odd |-> k.odd, old |-> k.old,
                             entries |-> k.entries, late |-> k.late]
          BY <1>1, <3>1 DEF NextPart, Fields
        <4> QED
          BY <1>1, <4>1 DEF Listed
      <3>2. CASE k.part # "wine"
        <4>1. NextPart(p) = [pc |-> "check", host |-> k.host, part |-> "wine",
                             odd |-> k.odd, old |-> k.old,
                             entries |-> k.entries, late |-> k.late]
          BY <1>1, <3>2 DEF NextPart, Fields
        <4> QED
          BY <1>1, <4>1 DEF Listed
      <3> QED
        BY <3>1, <3>2
    <2> QED
      BY <1>3, <1>6, <2>1, OneJobListed DEF Verify, OnlyJob
  <1>7. ASSUME NEW h \in Hosts, UNCHANGED pointerVars,
               job' = [job EXCEPT ![p].pc = "readCurrent", ![p].host = h]
        PROVE  ListsTyped'
    <2>1. [k EXCEPT !.pc = "readCurrent", !.host = h] =
            [pc |-> "readCurrent", host |-> h, part |-> k.part, odd |-> k.odd,
             old |-> k.old, entries |-> k.entries, late |-> k.late]
      BY <1>1, HostSet
    <2>2. Listed([k EXCEPT !.pc = "readCurrent", !.host = h])
      BY <1>1, <2>1 DEF Listed
    <2>3. job' = [job EXCEPT ![p] = [k EXCEPT !.pc = "readCurrent", !.host = h]]
      BY <1>7 DEF IInv
    <2> QED
      BY <1>7, <2>2, <2>3, OneJobListed
  <1>8. CASE Check(p) \/ ReadInstalled(p)
    <2>1. k.host \in Hosts
      BY <1>1, <1>8 DEF Check, ReadInstalled, At, Sound
    <2>2. host[Root(p)] # None => host[Root(p)] \in Hosts
      BY <2>1, RootIsRoot DEF Root, IInv, HostsTyped
    <2> QED
      BY <1>3, <1>4, <1>7, <1>8, <2>2 DEF Check, ReadInstalled, OnlyJob
  <1>9. CASE Extract(p)
    <2> DEFINE j == [k EXCEPT
                       !.pc = IF k.part = "wine" THEN "extract" ELSE "rename",
                       !.part = IF @ = "wine" THEN "gptk" ELSE "wine",
                       !.odd = @ \/ ~Verifies(p)]
    <2>1. j.pc \in {"extract", "rename"} /\ j.host = k.host /\ j.old = k.old
          /\ j.entries = k.entries
      BY <1>1 DEF Fields
    <2>2. Listed(j)
      BY <1>1, <2>1 DEF Listed
    <2>3. (job' = [job EXCEPT ![p] = j]) \/ Ended(p)
      BY <1>9 DEF Extract, IInv
    <2> HIDE DEF j
    <2> QED
      BY <1>3, <1>9, <2>2, <2>3, OneJobListed DEF Extract, OnlyJob
  <1>10. CASE Rename(p)
    BY <1>3, <1>4, <1>10 DEF Rename
  <1>11. CASE ReadCurrent(p)
    <2> DEFINE l == IF current \in {None, k.host} THEN "writeCurrent"
                    ELSE "readHistory"
               j == [k EXCEPT !.old = current, !.pc = l]
    <2>1. j.pc = l /\ j.host = k.host /\ j.old = current /\ j.entries = k.entries
      BY <1>1 DEF Fields
    <2>2. Listed(j)
      BY <1>1, <2>1 DEF Listed, ListsTyped
    <2>3. job' = [job EXCEPT ![p] = j]
      BY <1>11 DEF ReadCurrent, IInv
    <2> HIDE DEF j
    <2> QED
      BY <1>11, <2>2, <2>3, OneJobListed DEF ReadCurrent, OnlyJob
  <1>12. CASE ReadHistory(p)
    <2> DEFINE j == [k EXCEPT !.pc = "writeHistory", !.entries = Entries(p)]
    <2>1. k.old \in Hosts
      BY <1>1, <1>12 DEF ReadHistory, At, Listed
    <2>2. Entries(p) \in Seq(Hosts) /\ Len(Entries(p)) <= HistoryCap
      BY <2>1, EntriesTyped DEF ListsTyped
    <2>3. /\ j.pc = "writeHistory" /\ j.host = k.host /\ j.old = k.old
          /\ j.entries = Entries(p)
      BY <1>1 DEF Fields
    <2>4. Listed(j)
      BY <1>1, <2>1, <2>2, <2>3, HostAssumption DEF Listed
    <2>5. job' = [job EXCEPT ![p] = j]
      BY <1>12 DEF ReadHistory, IInv
    <2> HIDE DEF j
    <2> QED
      BY <1>12, <2>4, <2>5, OneJobListed DEF ReadHistory, OnlyJob
  <1>13. CASE WriteHistory(p)
    <2> DEFINE j == [k EXCEPT !.pc = "writeCurrent"]
    <2>1. /\ j.pc = "writeCurrent" /\ j.host = k.host /\ j.old = k.old
          /\ j.entries = k.entries
      BY <1>1 DEF Fields
    <2>2. Listed(j)
      BY <1>1, <2>1 DEF Listed
    <2>3. job' = [job EXCEPT ![p] = j]
      BY <1>13 DEF WriteHistory, Goto
    <2> HIDE DEF j
    <2>4. \A q \in Procs : Listed(job'[q])
      BY <2>2, <2>3 DEF IInv, ListsTyped
    <2>5. history' = k.entries /\ UNCHANGED current
      BY <1>13 DEF WriteHistory
    <2> QED
      BY <1>1, <2>4, <2>5 DEF ListsTyped, Listed
  <1>14. CASE WriteCurrent(p)
    <2>1. job' = [job EXCEPT ![p] = NoJob]
      BY <1>14 DEF WriteCurrent, Ended
    <2>2. \A q \in Procs : Listed(job'[q])
      BY <2>1, EmptyListed DEF IInv, ListsTyped
    <2>3. current' = k.host /\ UNCHANGED history
      BY <1>14 DEF WriteCurrent
    <2> QED
      BY <1>1, <2>2, <2>3 DEF ListsTyped, Listed
  <1>15. CASE Stop(p)
    BY <1>3, <1>15 DEF Stop, OnlyJob
  <1> QED
    BY <1>2, <1>5, <1>6, <1>8, <1>9, <1>10, <1>11, <1>12, <1>13, <1>14, <1>15
       DEF Step

LEMMA ListedNext ==
  ASSUME IInv, ops \in Nat, ListsTyped, [Next]_vars
  PROVE  ListsTyped'
  <1>1. CASE \E r \in Releases, part \in Parts : Spoil(r, part)
    <2>1. PICK r \in Releases, part \in Parts : Spoil(r, part)
      BY <1>1
    <2>2. ASSUME NEW q \in Procs
          PROVE  Listed(job'[q])
      <3>1. Fields(job[q]) /\ Listed(job[q])
        BY DEF IInv, Sound, ListsTyped
      <3>2. job'[q] = job[q] \/ job'[q] = [job[q] EXCEPT !.late = TRUE]
        BY <2>1 DEF Spoil
      <3> QED
        BY <3>1, <3>2 DEF Fields, Listed
    <2> QED
      BY <2>1, <2>2 DEF Spoil, Fault, pointerVars, ListsTyped, Listed
  <1>2. CASE \/ \E d \in Roots : Damage(d) \/ Delete(d)
             \/ UNCHANGED vars
    BY <1>2 DEF Damage, Delete, Fault, pointerVars, vars, ListsTyped, Listed
  <1> QED
    BY <1>1, <1>2, ListedStep DEF Next

LEMMA BoundsNext ==
  ASSUME IInv, BoundsTyped, [Next]_vars
  PROVE  BoundsTyped'
  <1>1. CASE \E p \in Procs, r \in Releases : Fetch(p, r)
    <2>1. ops' \in 0..MaxOps
      BY <1>1, HostAssumption DEF Fetch, BoundsTyped
    <2> QED
      BY <1>1, <2>1 DEF Fetch, BoundsTyped, diskVars
  <1>2. CASE \E p \in Procs : Rename(p)
    <2>1. PICK p \in Procs : Rename(p)
      BY <1>2
    <2>2. Root(p) \in Roots
      BY <2>1, RootIsRoot DEF Rename, At, IInv, Sound, Root
    <2> QED
      BY <2>1, <2>2 DEF Rename, BoundsTyped, boundVars
  <1>3. ASSUME NEW p \in Procs, Step(p), ~Rename(p), ~\E r \in Releases : Fetch(p, r)
        PROVE  UNCHANGED <<odd, broken, boundVars>>
    BY <1>3 DEF Step, Look, Download, Verify, Check, Extract, ReadInstalled,
       ReadCurrent, ReadHistory, WriteHistory, WriteCurrent, Stop, OnlyJob,
       diskVars
  <1>4. CASE UNCHANGED <<odd, broken, boundVars>>
    BY <1>4 DEF BoundsTyped, boundVars
  <1>5. CASE \/ \E r \in Releases, part \in Parts : Spoil(r, part)
             \/ \E d \in Roots : Damage(d) \/ Delete(d)
    <2>1. faults' \in 0..MaxFaults /\ ops' = ops
      BY <1>5, HostAssumption DEF Spoil, Damage, Delete, Fault, BoundsTyped
    <2>2. odd' \subseteq Roots /\ broken' \subseteq Roots /\ deleted' \subseteq Roots
      BY <1>5 DEF Spoil, Damage, Delete, BoundsTyped
    <2> QED
      BY <2>1, <2>2 DEF BoundsTyped
  <1> QED
    BY <1>1, <1>2, <1>3, <1>4, <1>5 DEF Next, vars, diskVars

\* The hosts, the archives, the pointer files and what each fetch has in hand
\* keep their types; the history keeps its cap whatever runs at once.
THEOREM HostTypes == Spec => []TypeOK
  <1>1. Init => Counted /\ ListsTyped /\ BoundsTyped
    BY InitInv, TypesInit DEF Init, Counted
  <1>2. Counted /\ ListsTyped /\ BoundsTyped /\ [Next]_vars
          => Counted' /\ ListsTyped' /\ BoundsTyped'
    BY NextInv, ListedNext, BoundsNext DEF Counted
  <1>3. IInv /\ ListsTyped /\ BoundsTyped => TypeOK
    <2> SUFFICES ASSUME IInv, ListsTyped, BoundsTyped PROVE TypeOK
      OBVIOUS
    <2>1. ASSUME NEW p \in Procs
          PROVE  /\ job[p] \in Jobs
                 /\ job[p].pc # "idle" => job[p].host # None
                 /\ job[p].pc \in {"readHistory", "writeHistory"} =>
                      job[p].old # None
                 /\ Len(job[p].entries) <= HistoryCap
      <3>1. Sound(job[p]) /\ Listed(job[p])
        BY DEF IInv, ListsTyped
      <3>2. job[p] \in Jobs
        BY <3>1 DEF Sound, Fields, Listed, Jobs
      <3> QED
        BY <3>1, <3>2, HostAssumption DEF Sound, Listed
    <2>2. job \in [Procs -> Jobs]
      BY <2>1 DEF IInv
    <2> QED
      BY <2>1, <2>2 DEF TypeOK, IInv, HostsTyped, ListsTyped, BoundsTyped
  <1> QED
    BY <1>1, <1>2, <1>3, PTL DEF Spec, Counted
================================================================================
