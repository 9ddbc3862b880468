------------------------------ MODULE Situations -------------------------------
(* The grains that a node may have in the instances of NodeSearch and of the   *)
(* modules that extend it: the roles of the Vagrantfile's hosts and of larger  *)
(* deployments, whether it has been bootstrapped, whether it is being worked on.*)

Grain(roles) == [roles : {roles}, complete : BOOLEAN, busy : BOOLEAN]

\* Every way in which roles are combined.
AllSituations ==
  UNION {Grain(r) : r \in {{"etcd"}, {"kube-master"}, {"kube-minion"},
                           {"kube-master", "etcd"}, {"kube-minion", "etcd"},
                           {"ca", "kube-master", "etcd"}}}
================================================================================
