----------------------------- MODULE MCCloudRoots -----------------------------
\* Instance of CloudRoots for TLC: one root in the prefix and one in the depot.
EXTENDS CloudRoots, TLC

CONSTANTS saved, depot

Steam(r, m) == [root |-> r, match |-> m, by |-> "steam"]
Table(a, b) == [k \in 0..MaxKey |-> CASE k = 0 -> a [] k = 1 -> b [] OTHER -> None]

\* No override; one for another platform, which leaves a gap; two for one root.
MCOwn == {Table(None, None), Table(None, Steam(saved, FALSE)),
          Table(Steam(depot, TRUE), Steam(depot, TRUE))}
Symmetry == Permutations(Prefixes)
===============================================================================
