SPECIFICATION FairSpec
CONSTANTS
  salt = salt
  minion01 = minion01
  minion02 = minion02
  Node = {salt, minion01}
  Roles <- SingleEtcdRoles
  Prog <- KubernetesSls
  Prompt = FALSE
  MaxRuns = 1
  MaxKills = 0
  MaxDowns = 1
INVARIANT TypeOK
INVARIANT WorkersLast
INVARIANT SecretsPublished
PROPERTY RunEnds
PROPERTY Converges
PROPERTY DependenciesKept
PROPERTY JobsSettle
CHECK_DEADLOCK FALSE
