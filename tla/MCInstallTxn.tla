----------------------------- MODULE MCInstallTxn -----------------------------
(* Instances of InstallTxn for TLC.                                        *)
EXTENDS InstallTxn, TLC

\* The entries and the roots are interchangeable; APPID.sh is not.
Symmetry == Permutations(Entries) \cup Permutations(Roots)
================================================================================
