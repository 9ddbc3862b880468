SPECIFICATION Spec
CONSTANTS
  salt = salt
  minion01 = minion01
  minion02 = minion02
  Node = {salt, minion01}
  Roles <- VagrantRoles
  Prog <- KubernetesSls
  Prompt = TRUE
  MaxRuns = 2
  MaxKills = 1
  MaxDowns = 0
INVARIANT OneEtcdCluster
PROPERTY FlagCleared
CHECK_DEADLOCK FALSE
