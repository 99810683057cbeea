----------------------------- MODULE MCPrefixFiles -----------------------------
\* Instance of PrefixFiles for TLC: the processes, the forwarders and the
\* clients are interchangeable.
EXTENDS PrefixFiles, TLC

Symmetry == Permutations(Procs) \cup Permutations(Builds) \cup Permutations(Versions)
===============================================================================
