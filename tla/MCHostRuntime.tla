---------------------------- MODULE MCHostRuntime ----------------------------
\* Instance of HostRuntime for TLC: two releases with a directory each.
EXTENDS HostRuntime, TLC

CONSTANTS r1, r2

MCRootOf == (r1 :> "a") @@ (r2 :> "b")
Symmetry == Permutations(Procs)
==============================================================================
