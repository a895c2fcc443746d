SPECIFICATION Spec
CONSTANTS
  Letter = {0, 1}
  Word <- MCWord
INVARIANTS
  CutKeepsDistance
  BufferIsTwoRows
  EditExact
CHECK_DEADLOCK FALSE
