------------------------------ MODULE HostRuntime ------------------------------
(***************************************************************************)
(* bin/ullage-host-runtime.py: fetching a pinned Wine and GPTK host.  Two  *)
(* archives are verified, one after the other, then extracted into a       *)
(* staging directory, which is renamed into place and made current.  Any   *)
(* number of processes may fetch at once, and the archives, the user's own *)
(* or the ones in the cache, may change at any time.                       *)
(***************************************************************************)
EXTENDS Naturals, Sequences, PointerHistory

CONSTANTS
  Procs,
  Releases,
  RootOf,      \* the host id and version of each release: its directory
  None,
  HistoryCap,  \* how many pointers history.json keeps: 16 in the code
  MaxOps,      \* bound: fetches
  MaxFaults    \* bound: archives changed, hosts damaged or deleted

\* A manifest holds the time of its installation, so that two installations of
\* one release are two hosts, with two digests.
Hosts == [rel : Releases, id : 1..MaxOps]
Roots == {RootOf[r] : r \in Releases}
HostRoot == [h \in Hosts |-> RootOf[h.rel]]
Parts == {"wine", "gptk"}

ASSUME HostAssumption ==
  /\ RootOf \in [Releases -> Roots]
  /\ None \notin Hosts
  /\ HistoryCap \in Nat \ {0}
  /\ MaxOps \in Nat \ {0}
  /\ MaxFaults \in Nat

VARIABLES
  host,    \* the host in each directory
  odd,     \* directories with other contents than the archives pinned
  broken,  \* directories with a required path missing
  archive, \* the archive file of each release and part: the pinned one, or not
  current, \* current.json
  history, \* history.json, the most recent first
  job,     \* what each process does
  ops, faults,
  deleted  \* history variable: directories deleted by hand

diskVars == <<host, odd, broken, archive>>
pointerVars == <<current, history>>
boundVars == <<ops, faults, deleted>>
vars == <<diskVars, pointerVars, job, boundVars>>

\* host: the host to install or to make current; odd: the extracted trees are
\* not the pinned ones; old and entries: the pointer read, the history to write;
\* late: history variable, a verified archive was changed since.
Jobs ==
  [pc : {"idle", "look", "download", "verify", "check", "extract", "rename",
         "installed", "readCurrent", "readHistory", "writeHistory",
         "writeCurrent"},
   host : Hosts \cup {None}, part : Parts, odd : BOOLEAN,
   old : Hosts \cup {None}, entries : Seq(Hosts), late : BOOLEAN]

NoJob == [pc |-> "idle", host |-> None, part |-> "wine", odd |-> FALSE,
          old |-> None, entries |-> <<>>, late |-> FALSE]

TypeOK ==
  /\ host \in [Roots -> Hosts \cup {None}]
  /\ \A d \in Roots : host[d] # None => HostRoot[host[d]] = d
  /\ odd \subseteq Roots /\ broken \subseteq Roots
  /\ archive \in [Releases -> [Parts -> {"good", "bad"}]]
  /\ current \in Hosts \cup {None}
  /\ history \in Seq(Hosts) /\ Len(history) <= HistoryCap
  /\ job \in [Procs -> Jobs]
  /\ \A p \in Procs : job[p].pc # "idle" => job[p].host # None
  /\ \A p \in Procs :
       job[p].pc \in {"readHistory", "writeHistory"} => job[p].old # None
  /\ \A p \in Procs : Len(job[p].entries) <= HistoryCap
  /\ ops \in 0..MaxOps /\ faults \in 0..MaxFaults
  /\ deleted \subseteq Roots

Init ==
  /\ host = [d \in Roots |-> None]
  /\ odd = {} /\ broken = {}
  /\ archive \in [Releases -> [Parts -> {"good", "bad"}]]
  /\ current = None
  /\ history = <<>>
  /\ job = [p \in Procs |-> NoJob]
  /\ ops = 0 /\ faults = 0
  /\ deleted = {}

--------------------------------------------------------------------------------

At(p, here) == job[p].pc = here
Goto(p, next) == job' = [job EXCEPT ![p].pc = next]
Ended(p) == job' = [job EXCEPT ![p] = NoJob]
Root(p) == HostRoot[job[p].host]

\* verify_archive: the size and the hash are the pinned ones.
Verifies(p) == archive[job[p].host.rel][job[p].part] = "good"

\* verify_installed: everything a host must have is there.
Complete(d) == d \notin broken

OnlyJob == UNCHANGED <<diskVars, pointerVars, boundVars>>

\* fetch_release.
Fetch(p, r) ==
  /\ At(p, "idle")
  /\ ops < MaxOps
  /\ ops' = ops + 1
  /\ job' = [job EXCEPT ![p] = [NoJob EXCEPT
               !.pc = "look", !.host = [rel |-> r, id |-> ops']]]
  /\ UNCHANGED <<diskVars, pointerVars, faults, deleted>>

--------------------------------------------------------------------------------
(* _ensure_cached, for the Wine archive and then for the GPTK one.         *)

\* An archive in the cache that does not verify is downloaded; one of the
\* user's own is only verified.
Look(p) ==
  /\ At(p, "look")
  /\ \/ Goto(p, "verify")
     \/ ~Verifies(p) /\ Goto(p, "download")
  /\ OnlyJob

\* The download is verified before it gets the archive's name.
Download(p) ==
  /\ At(p, "download")
  /\ Goto(p, "verify")
  /\ archive' = [archive EXCEPT ![job[p].host.rel][job[p].part] = "good"]
  /\ UNCHANGED <<host, odd, broken, pointerVars, boundVars>>

\* Where a process goes on when an archive is good.
NextPart(p) ==
  IF job[p].part = "wine" THEN [job[p] EXCEPT !.pc = "look", !.part = "gptk"]
  ELSE [job[p] EXCEPT !.pc = "check", !.part = "wine"]

\* Mutant of Verify: what the cache holds is not verified again.
VerifyNothing(p) ==
  /\ At(p, "verify")
  /\ job' = [job EXCEPT ![p] = NextPart(p)]
  /\ OnlyJob

\* Whatever way it came, the file is verified before it is used.
Verify(p) ==
  /\ At(p, "verify")
  /\ IF Verifies(p) THEN job' = [job EXCEPT ![p] = NextPart(p)] ELSE Ended(p)
  /\ OnlyJob

--------------------------------------------------------------------------------
(* fetch_release: installation.                                            *)

\* A host that is there and complete is made current, whatever release it was
\* installed for; an incomplete one is an error.
Check(p) ==
  /\ At(p, "check")
  /\ \/ host[Root(p)] = None /\ Goto(p, "extract")
     \/ /\ host[Root(p)] # None
        /\ IF Complete(Root(p))
           THEN job' = [job EXCEPT ![p].pc = "readCurrent", ![p].host = host[Root(p)]]
           ELSE Ended(p)
  /\ OnlyJob

\* tar reads the file again.  One that has changed gives other contents, or is
\* refused, as it is when the staged tree lacks what a host must have.
Extract(p) ==
  /\ At(p, "extract")
  /\ \/ /\ job' = [job EXCEPT
                    ![p].pc = IF job[p].part = "wine" THEN "extract" ELSE "rename",
                    ![p].part = IF @ = "wine" THEN "gptk" ELSE "wine",
                    ![p].odd = @ \/ ~Verifies(p)]
     \/ ~Verifies(p) /\ Ended(p)
  /\ OnlyJob

\* Mutant of Rename: what is in place is replaced.
RenameOver(p) ==
  /\ At(p, "rename")
  /\ Goto(p, "installed")
  /\ host' = [host EXCEPT ![Root(p)] = job[p].host]
  /\ odd' = IF job[p].odd THEN odd \cup {Root(p)} ELSE odd \ {Root(p)}
  /\ broken' = broken \ {Root(p)}
  /\ UNCHANGED <<archive, pointerVars, boundVars>>

\* A rename onto a directory that has come to be there meanwhile fails.
Rename(p) ==
  /\ At(p, "rename")
  /\ \/ /\ host[Root(p)] = None
        /\ Goto(p, "installed")
        /\ host' = [host EXCEPT ![Root(p)] = job[p].host]
        /\ odd' = IF job[p].odd THEN odd \cup {Root(p)} ELSE odd
     \/ host[Root(p)] # None /\ Ended(p) /\ UNCHANGED <<host, odd>>
  /\ UNCHANGED <<broken, archive, pointerVars, boundVars>>

\* What is in the directory now is made current, be it complete or not.
ReadInstalled(p) ==
  /\ At(p, "installed")
  /\ IF host[Root(p)] = None THEN Ended(p)
     ELSE job' = [job EXCEPT ![p].pc = "readCurrent", ![p].host = host[Root(p)]]
  /\ OnlyJob

--------------------------------------------------------------------------------
(* _activate_host.                                                         *)

\* The history changes only when there is a pointer and it changes.
ReadCurrent(p) ==
  /\ At(p, "readCurrent")
  /\ job' = [job EXCEPT ![p].old = current,
       ![p].pc = IF current \in {None, job[p].host} THEN "writeCurrent"
                 ELSE "readHistory"]
  /\ OnlyJob

\* The pointer read goes in front, and the list keeps its first HistoryCap.
Entries(p) ==
  LET all == <<job[p].old>> \o Others(history, job[p].old)
  IN SubSeq(all, 1, IF Len(all) < HistoryCap THEN Len(all) ELSE HistoryCap)

ReadHistory(p) ==
  /\ At(p, "readHistory")
  /\ job' = [job EXCEPT ![p].pc = "writeHistory", ![p].entries = Entries(p)]
  /\ OnlyJob

WriteHistory(p) ==
  /\ At(p, "writeHistory")
  /\ Goto(p, "writeCurrent")
  /\ history' = job[p].entries
  /\ UNCHANGED <<diskVars, current, boundVars>>

WriteCurrent(p) ==
  /\ At(p, "writeCurrent")
  /\ Ended(p)
  /\ current' = job[p].host
  /\ UNCHANGED <<diskVars, history, boundVars>>

--------------------------------------------------------------------------------

\* An error, or the process is killed: a staging directory is removed, or left
\* under a name nobody looks at.
Stop(p) == ~At(p, "idle") /\ Ended(p) /\ OnlyJob

Fault ==
  /\ faults < MaxFaults
  /\ faults' = faults + 1
  /\ UNCHANGED <<pointerVars, ops>>

\* The job has verified this archive and has still to extract it.
Pending(j, part) ==
  \/ j.pc = "check"
  \/ j.pc = "extract" /\ (part = "gptk" \/ j.part = "wine")
  \/ part = "wine" /\ j.part = "gptk" /\ j.pc \in {"look", "download", "verify"}

\* An archive is replaced or damaged.
Spoil(r, part) ==
  /\ Fault
  /\ archive' = [archive EXCEPT ![r][part] = "bad"]
  /\ job' = [p \in Procs |->
               IF Pending(job[p], part) /\ job[p].host.rel = r
               THEN [job[p] EXCEPT !.late = TRUE] ELSE job[p]]
  /\ UNCHANGED <<host, odd, broken, deleted>>

Damage(d) ==
  /\ Fault
  /\ host[d] # None
  /\ broken' = broken \cup {d}
  /\ UNCHANGED <<host, odd, archive, job, deleted>>

Delete(d) ==
  /\ Fault
  /\ host[d] # None
  /\ host' = [host EXCEPT ![d] = None]
  /\ odd' = odd \ {d} /\ broken' = broken \ {d}
  /\ deleted' = deleted \cup {d}
  /\ UNCHANGED <<archive, job>>

Step(p) ==
  \/ \E r \in Releases : Fetch(p, r)
  \/ Look(p) \/ Download(p) \/ Verify(p) \/ Check(p) \/ Extract(p)
  \/ Rename(p) \/ ReadInstalled(p) \/ ReadCurrent(p) \/ ReadHistory(p)
  \/ WriteHistory(p) \/ WriteCurrent(p) \/ Stop(p)

Next ==
  \/ \E p \in Procs : Step(p)
  \/ \E r \in Releases, part \in Parts : Spoil(r, part)
  \/ \E d \in Roots : Damage(d) \/ Delete(d)

Spec == Init /\ [][Next]_vars

--------------------------------------------------------------------------------
(* Properties.                                                             *)

\* A directory gets other contents than the pinned archives' only from a fetch
\* that had verified an archive before it was changed: the code verifies the
\* file and reads it again to extract it.
ContentsArePinned ==
  [][\A d \in odd' \ odd : \E p \in Procs :
       At(p, "rename") /\ Root(p) = d /\ job[p].late]_vars

\* The host runtimes are a package registry: a host stays as it is while its
\* directory is there, though several processes install at once, and the
\* pointer names a host that is in its directory unless somebody deleted it.
Registry == INSTANCE PackageRegistry
  WITH Items <- Hosts, DirOf <- HostRoot, Nothing <- None,
       place <- host, removed <- deleted, active <- current

HostsAreARegistry == Registry!Spec
================================================================================
