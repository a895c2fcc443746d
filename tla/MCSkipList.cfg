SPECIFICATION Spec
CONSTANTS
  L = 3
  Unset = Unset
  Key = {1, 2, 3, 4, 5}
INVARIANTS
  LevelsSorted
  DescentKeepsKey
PROPERTIES
  FindExact
