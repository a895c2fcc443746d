SPECIFICATION Spec
CONSTANTS
  n1 = n1
  n2 = n2
  n3 = n3
  b1 = b1
  b2 = b2
  b3 = b3
  l1 = l1
  l2 = l2
  x = x
  NULL = NULL
  Node = {n1, n2, n3}
  List = {l1, l2}
  Variable = {x}
  Place <- MCPlace
  Buffer = {b1, b2, b3}
  Given <- MCGiven
  MaxLength = 1
INVARIANTS
  BufferOwned
  Linked
  WalkMissesNothing
PROPERTIES
  OnlyAssignmentsLeak
  ImplementsLists
SYMMETRY Alike
