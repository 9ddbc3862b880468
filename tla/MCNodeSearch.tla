----------------------------- MODULE MCNodeSearch -------------------------------
(* Instances of NodeSearch for TLC. *)
EXTENDS NodeSearch, Situations, TLC

CONSTANTS n1, n2, n3

\* The rules know nodes by their grains only.
Nodes3 == Permutations({n1, n2, n3})
===============================================================================
