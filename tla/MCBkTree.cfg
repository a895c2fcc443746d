SPECIFICATION Spec
CONSTANTS
  Null = Null
  Word <- MCWord
  Dist <- MCDist
  Threshold = {0, 1, 2}
INVARIANTS
  FindExact
  StackFits
  DepthExact
PROPERTIES
  MatchExact
