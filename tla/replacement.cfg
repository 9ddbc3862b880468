SPECIFICATION Spec
CONSTANTS
  n1 = n1
  n2 = n2
  n3 = n3
  None = None
  Node = {n1, n2, n3}
  Situations <- AllSituations
  MaxChanges = 1
INVARIANT TypeOK
INVARIANT RoleKept
INVARIANT RolesCompatible
INVARIANT NoInternalError
CHECK_DEADLOCK FALSE
SYMMETRY Nodes3
