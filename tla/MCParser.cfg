SPECIFICATION Spec
CONSTANTS
  Letter = {"a", "b"}
  Delimiter = "_"
  MaxLength = 5
INVARIANTS
  EveryWordPassed
CHECK_DEADLOCK FALSE
