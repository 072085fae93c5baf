------------------------ MODULE MCGraphConsolidation ------------------------
(* Instance of GraphConsolidation for TLC: one node similar to two others, *)
(* which are not similar to each other, and perhaps a node like no other.  *)
EXTENDS GraphConsolidation, TLC

CONSTANTS a, b, c, x, r1, r2

MCSimilar == {<<a, b>>, <<b, a>>, <<a, c>>, <<c, a>>}
MCClusterOf == [n \in Nodes |-> IF n = x THEN x ELSE a]
MCSymmetry == Permutations({b, c}) \cup Permutations({r1, r2})
=============================================================================
