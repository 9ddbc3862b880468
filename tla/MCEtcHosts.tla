-------------------------------- MODULE MCEtcHosts -------------------------------
(* Instances of EtcHosts for TLC. *)
EXTENDS EtcHosts, TLC

CONSTANTS n1, n2, e1, e2

\* Neither the nodes nor the entries are told apart.
Names == Permutations({n1, n2}) \cup Permutations({e1, e2})
===============================================================================
