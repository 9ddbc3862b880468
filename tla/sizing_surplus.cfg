SPECIFICATION Spec
CONSTANTS
  n1 = n1
  n2 = n2
  n3 = n3
  n4 = n4
  Node = {n1, n2, n3, n4}
  Situations <- ClusterSituations
  MaxChanges = 0
  Pillar = {0}
  MaxArg = 0
INVARIANT SurplusComplete
CHECK_DEADLOCK FALSE
SYMMETRY Nodes4
