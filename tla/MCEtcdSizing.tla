------------------------------ MODULE MCEtcdSizing ------------------------------
(* Instances of EtcdSizing for TLC. *)
EXTENDS EtcdSizing, Situations, TLC

CONSTANTS n1, n2, n3, n4

\* The masters and minions of a deployment that grows or shrinks.
ClusterSituations ==
  {g \in UNION {Grain(r) : r \in {{"kube-master"}, {"kube-master", "etcd"},
                                  {"kube-minion"}, {"kube-minion", "etcd"}}} : ~g.busy}

\* The function knows nodes by their grains only.
Nodes4 == Permutations({n1, n2, n3, n4})
===============================================================================
