--------------------------- MODULE MCBridgeSession ---------------------------
(* Instances of BridgeSession for TLC.                                      *)
EXTENDS BridgeSession, TLC

\* For the runs without liveness properties.
Symmetry == Permutations(Pids)
=============================================================================
