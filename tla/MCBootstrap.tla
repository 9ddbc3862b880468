------------------------------ MODULE MCBootstrap ------------------------------
(* Instances of Bootstrap for TLC, laid out as in the Vagrantfile: the host    *)
(* `salt' carries the CA, the API server and an etcd member, a minion carries  *)
(* a worker and an etcd member.                                                *)
EXTENDS Bootstrap, Orchestrations, TLC

CONSTANTS salt, minion01, minion02

SaltRoles   == {"salt", "ca", "kube-master", "etcd"}
MinionRoles == {"kube-minion", "etcd"}

SingleEtcdRoles == [n \in Node |-> IF n = salt THEN SaltRoles ELSE {"kube-minion"}]

VagrantRoles == [n \in Node |-> IF n = salt THEN SaltRoles ELSE MinionRoles]

\* The two minions of the Vagrantfile are interchangeable.
Minions == Permutations({minion01, minion02})

\* State constraint: at most one minion at a time is in a highstate that the
\* orchestration did not send it.
OneOwnRun == Cardinality({n \in Node : ~Idle(n) /\ job[n] # "run"}) <= 1
===============================================================================
