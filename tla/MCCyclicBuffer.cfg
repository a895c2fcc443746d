SPECIFICATION Spec
CONSTANTS
  w1 = w1
  r1 = r1
  None = None
  Writer = {w1}
  Reader = {r1}
  Size = 2
  SpuriousWakeups = FALSE
INVARIANT
  ElementsKept
