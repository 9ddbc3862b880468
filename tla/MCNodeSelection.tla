---------------------------- MODULE MCNodeSelection -----------------------------
(* Instances of NodeSelection for TLC. *)
EXTENDS NodeSelection, Situations, TLC

CONSTANTS n1, n2, n3

\* The function knows nodes by their grains only.
Nodes3 == Permutations({n1, n2, n3})
===============================================================================
