SPECIFICATION Spec
CONSTANTS
  qe = qe
  qh = qh
  qx = qx
  d1 = d1
  d2 = d2
  a = a
  b = b
  c = c
  Pending = Pending
  Query = {qh}
  Doc = {d1, d2}
  Word = {a, b, c}
  QueryDef <- MCQueryDef
  DocWords <- MCDocWords
  WordLen <- MCWordLen
  EditDist <- MCEditDist
  HammingDist <- MCHammingDist
  MIN_WORD_LENGTH = 4
  MAX_WORD_LENGTH = 31
  Longest = 31
  MaxQueries = 2
  CollectsFirst = TRUE
  AsksWhenDue = TRUE
INVARIANTS
  HammingSlotsExist
