-------------------------- MODULE MCRuntimePackages --------------------------
(* Instance of RuntimePackages for TLC: two builds of one version, and a     *)
(* build of another.                                                         *)
EXTENDS RuntimePackages, TLC

CONSTANTS a1, a2, b1, v1, v2

MCVersionOf == a1 :> v1 @@ a2 :> v1 @@ b1 :> v2

Symmetry == Permutations(Procs)
=============================================================================
