SPECIFICATION Spec
CONSTANTS
  a = a
  b = b
  c = c
  d = d
  e = e
  Empty = Empty
  Key = {a, b, c, d, e}
  v1 = v1
  v2 = v2
  Value = {v1, v2}
  Hash <- MCHash
  Primes <- MCPrimes
  Requested = 4
  MaxRemovals = 2
INVARIANTS
  TypeOK
  HasRoom
  LookupExact
  WalkMissesNothing
SYMMETRY SameHash
