SPECIFICATION Spec
CONSTANTS
  salt = salt
  minion01 = minion01
  minion02 = minion02
  Node = {salt, minion01, minion02}
  Roles <- VagrantRoles
  Prog <- KubernetesSls
  Prompt = TRUE
  MaxRuns = 1
  MaxKills = 0
  MaxDowns = 0
INVARIANT OneEtcdCluster
INVARIANT SuccessMeansInstalled
CONSTRAINT OneOwnRun
CHECK_DEADLOCK FALSE
SYMMETRY Minions
