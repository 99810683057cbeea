--------------------------- MODULE MCLaunchMapping ---------------------------
(* Instance of LaunchMapping for TLC.                                        *)
EXTENDS LaunchMapping, TLC

Symmetry == Permutations(Entries) \cup Permutations(Published)
=============================================================================
