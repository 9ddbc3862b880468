SPECIFICATION SearchSpec
CONSTANTS
  n1 = n1
  n2 = n2
  n3 = n3
  Node = {n1, n2, n3}
  Situations <- AllSituations
  MaxChanges = 0
INVARIANT ExcludedHonoured
CHECK_DEADLOCK FALSE
SYMMETRY Nodes3
