SPECIFICATION Spec
CONSTANTS
  n1 = n1
  n2 = n2
  e1 = e1
  e2 = e2
  Node = {n1, n2}
  Entry = {e1, e2}
  Absent = Absent
  Empty = Empty
  Large = FALSE
  MaxChanges = 2
  MaxKills = 2
INVARIANT TypeOK
INVARIANT CustomSurvives
INVARIANT HostsExact
PROPERTY Idempotent
SYMMETRY Names
