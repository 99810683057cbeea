----------------------------- MODULE MCRemoveTxn -----------------------------
(* Instances of RemoveTxn for TLC.                                         *)
EXTENDS RemoveTxn, TLC

\* The entries and the roots are interchangeable; APPID.sh is not.
Symmetry == Permutations(Entries) \cup Permutations(Roots)
================================================================================
