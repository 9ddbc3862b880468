SPECIFICATION Spec
CONSTANTS
  n1 = n1
  n2 = n2
  n3 = n3
  n4 = n4
  Node = {n1, n2, n3, n4}
  Situations <- ClusterSituations
  MaxChanges = 1
  Pillar = {0, 1, 2}
  MaxArg = 2
INVARIANT TypeOK
INVARIANT SizeIsDocumentedIfOdd
INVARIANT SurplusKeepsWanted
INVARIANT AdditionalWithinWanted
INVARIANT FoundSound
INVARIANT SearchIsBest
CHECK_DEADLOCK FALSE
SYMMETRY Nodes4
