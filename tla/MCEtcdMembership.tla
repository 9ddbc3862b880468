---------------------------- MODULE MCEtcdMembership ----------------------------
(* Instances of EtcdMembership for TLC. *)
EXTENDS EtcdMembership, TLC

CONSTANTS n1, n2, n3

\* The functions know nodes by their names only.
Nodes3 == Permutations({n1, n2, n3})
===============================================================================
