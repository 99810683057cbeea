---------------------------- MODULE PackageRegistry ----------------------------
(***************************************************************************)
(* What a set of installed packages promises whoever reads its pointer.    *)
(* Each package has a directory.  A package is put into an empty directory *)
(* and stays there, whatever else is installed, until somebody deletes it  *)
(* by hand; the pointer names packages that are where they belong.         *)
(***************************************************************************)
CONSTANTS Items, DirOf, Nothing

VARIABLES
  place,   \* the package in each directory
  removed, \* the directories somebody has deleted by hand
  active   \* the package the pointer names

registryVars == <<place, removed, active>>

Dirs == {DirOf[i] : i \in Items}

Init ==
  /\ place = [d \in Dirs |-> Nothing]
  /\ removed = {}
  /\ active = Nothing

Put(i) ==
  /\ place[DirOf[i]] = Nothing
  /\ place' = [place EXCEPT ![DirOf[i]] = i]
  /\ UNCHANGED <<removed, active>>

Point(i) ==
  /\ place[DirOf[i]] = i \/ DirOf[i] \in removed
  /\ active' = i
  /\ UNCHANGED <<place, removed>>

DeleteByHand(d) ==
  /\ place' = [place EXCEPT ![d] = Nothing]
  /\ removed' = removed \cup {d}
  /\ UNCHANGED active

Next ==
  \/ \E i \in Items : Put(i) \/ Point(i)
  \/ \E d \in Dirs : DeleteByHand(d)

Spec == Init /\ [][Next]_registryVars
================================================================================
