SPECIFICATION Spec
CONSTANTS
  n1 = n1
  n2 = n2
  n3 = n3
  Node = {n1, n2, n3}
  MaxAdds = 2
  MaxCrashes = 1
INVARIANT TypeOK
PROPERTY RemovedIsTarget
PROPERTY ListMatchesWhenAlone
CHECK_DEADLOCK FALSE
SYMMETRY Nodes3
