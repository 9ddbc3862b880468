---------------------------- MODULE Orchestrations ----------------------------
(***************************************************************************)
(* The orchestration salt/local/orch/kubernetes.sls as data: the sequence  *)
(* of its steps in the order the file declares them, which is the order    *)
(* the orchestrate runner runs them in.  A step is                         *)
(*   id       the state ID, the name other steps require it by             *)
(*   kind     salt.function, salt.state or salt.runner                     *)
(*   fun      the execution function, or the sls a state step applies      *)
(*   by       how it is targeted: every minion, a role, or the grain       *)
(*            bootstrap_in_progress                                        *)
(*   roles    the roles targeted when by = "roles"                         *)
(*   batch    how many minions may run it at once, 0 for no limit          *)
(*   require  the ids that must have succeeded earlier in the same run     *)
(***************************************************************************)
EXTENDS Naturals, Sequences

Fn(id, fun, require) ==
  [id |-> id, kind |-> "function", fun |-> fun, by |-> "all", roles |-> {},
   batch |-> 0, require |-> require]

\* A function sent to the minions that carry the bootstrap_in_progress grain.
FlagFn(id, fun, require) == [Fn(id, fun, require) EXCEPT !.by = "flag"]

St(id, sls, roles, batch, require) ==
  [id |-> id, kind |-> "state", fun |-> sls, by |-> "roles", roles |-> roles,
   batch |-> batch, require |-> require]

\* A state applied to every minion.
StAll(id, sls, require) == [St(id, sls, {}, 0, require) EXCEPT !.by = "all"]

ClusterRoles == {"ca", "salt", "kube-master", "kube-minion", "etcd"}

DefaultBatch == 5
NumEtcdMembers == 3

\* Mutant of PrepareSteps: no mine update before salt itself is configured.
PrepareWithoutMine == <<
  [Fn("set-bootstrap-in-progress-flag", "setInProgress", {})
     EXCEPT !.by = "roles", !.roles = ClusterRoles],
  [Fn("sync-pillar", "sync_pillar", {}) EXCEPT !.kind = "runner"],
  Fn("update-pillar", "refresh_pillar", {"sync-pillar"}),
  Fn("update-grains", "refresh_grains", {"sync-pillar"}),
  Fn("update-modules", "sync_all", {}),
  St("salt-master-setup", "salt.master", {"salt"}, 0, {}),
  StAll("salt-minion-sls", "salt.minion", {}),
  Fn("update-mine-two", "mine.update", {}) >>

\* Mark the nodes, bring pillars, grains, mine and modules up to date and
\* configure salt itself.
PrepareSteps == <<
  [Fn("set-bootstrap-in-progress-flag", "setInProgress", {})
     EXCEPT !.by = "roles", !.roles = ClusterRoles],
  [Fn("sync-pillar", "sync_pillar", {}) EXCEPT !.kind = "runner"],
  Fn("update-pillar", "refresh_pillar", {"sync-pillar"}),
  Fn("update-grains", "refresh_grains", {"sync-pillar"}),
  Fn("update-mine", "mine.update", {"update-pillar", "update-grains"}),
  Fn("update-modules", "sync_all", {"update-mine"}),
  St("salt-master-setup", "salt.master", {"salt"}, 0, {}),
  StAll("salt-minion-sls", "salt.minion", {}),
  Fn("update-mine-two", "mine.update", {}) >>

\* Mutant of PkiSteps: the second mine update is missing.
PkiWithOneMineUpdate == <<
  St("ca-setup", "caserver.initca", {"ca"}, 0, {}),
  Fn("update-pillar-two", "refresh_pillar", {"ca-setup"}),
  Fn("update-mine-tree", "mine.update", {"ca-setup"}),
  St("generate-sa-key", "caserver.generate-serviceaccount-key", {"ca"}, 0,
     {"ca-setup"}),
  Fn("update-mine-again", "refresh_pillar", {"generate-sa-key"}) >>

\* Create the CA and the service account key and publish them in the mine.
PkiSteps == <<
  St("ca-setup", "caserver.initca", {"ca"}, 0, {}),
  Fn("update-pillar-two", "refresh_pillar", {"ca-setup"}),
  Fn("update-mine-tree", "mine.update", {"ca-setup"}),
  St("generate-sa-key", "caserver.generate-serviceaccount-key", {"ca"}, 0,
     {"ca-setup"}),
  Fn("update-pillars", "refresh_pillar", {"ca-setup"}),
  Fn("update-mine-again", "mine.update", {"generate-sa-key"}) >>

\* Mutant of ClusterSteps: the workers do not wait for the masters.
ClusterUnordered == <<
  St("kube-master-setup", "highstate", {"kube-master"}, DefaultBatch,
     {"ca-setup", "generate-sa-key", "update-mine-again"}),
  St("kube-minion-setup", "highstate", {"kube-minion"}, DefaultBatch,
     {"update-mine-again"}) >>

\* Mutant of ClusterSteps: running-all-state-apply in batches, which leave out
\* the minions that are down.
ClusterInBatches == <<
  St("etcd-setup", "etcd", {"etcd"}, NumEtcdMembers, {"update-mine-again"}),
  St("kube-master-setup", "highstate", {"kube-master"}, DefaultBatch,
     {"ca-setup", "generate-sa-key", "update-mine-again"}),
  St("kube-minion-setup", "highstate", {"kube-minion"}, DefaultBatch,
     {"kube-master-setup"}),
  [StAll("running-all-state-apply", "highstate",
         {"ca-setup", "kube-master-setup", "kube-minion-setup"})
     EXCEPT !.batch = DefaultBatch] >>

\* etcd, the masters, the workers, the services, then everything once more.
ClusterSteps == <<
  St("etcd-setup", "etcd", {"etcd"}, NumEtcdMembers, {"update-mine-again"}),
  St("kube-master-setup", "highstate", {"kube-master"}, DefaultBatch,
     {"ca-setup", "generate-sa-key", "update-mine-again"}),
  St("kube-minion-setup", "highstate", {"kube-minion"}, DefaultBatch,
     {"kube-master-setup"}),
  St("services-setup", "kube-cni", {"kube-master"}, 0, {}),
  St("super-master-wait-for-services", "coredns.deployment-wait",
     {"kube-master"}, 0, {"services-setup"}),
  StAll("running-all-state-apply", "highstate",
     {"ca-setup", "kube-master-setup", "kube-minion-setup"}) >>

\* Mutant of FlagSteps: the flag is removed only after a successful run.
FlagStepsRequiring == <<
  FlagFn("set-bootstrap-complete-flag", "setComplete", {}),
  FlagFn("clear-bootstrap-in-progress-flag", "delInProgress",
         {"running-all-state-apply"}) >>

FlagSteps == <<
  FlagFn("set-bootstrap-complete-flag", "setComplete", {}),
  FlagFn("clear-bootstrap-in-progress-flag", "delInProgress", {}) >>

KubernetesSls == PrepareSteps \o PkiSteps \o ClusterSteps \o FlagSteps
===============================================================================
