---------------------------- MODULE MCHashTable ----------------------------
(***************************************************************************)
(* HashTable with five slots to begin with: keys a, b and d share home     *)
(* slot 4, so they wrap round the end; c and e come home to slots 0 and 1, *)
(* where b and d may be. The fifth key makes it grow to eleven slots.      *)
(***************************************************************************)
EXTENDS HashTable

CONSTANTS a, b, c, d, e, v1, v2

MCHash == [k \in Key |-> CASE k \in {a, b} -> 4 [] k = d -> 9 [] k = c -> 5 [] k = e -> 12]
MCPrimes == <<5, 11, 23>>

\* a and b have the same hash, and the values differ in nothing.
SameHash == Permutations({a, b}) \cup Permutations({v1, v2})

=============================================================================
