------------------------- MODULE EditDistanceProofs -------------------------
(***************************************************************************)
(* The edit distance is what one buffer and two shortened words make of    *)
(* it, for words over any letters and of any length; and the two distances *)
(* of Words are metrics, which is what BkTree assumes of them.             *)
(*                                                                         *)
(* A table of two words is the matrix of their prefixes' distances. What   *)
(* is said of all its entries is shown for the first one, counting by      *)
(* i + j, for which it might be wrong.                                     *)
(***************************************************************************)
EXTENDS EditDistance, FiniteSetTheorems, SequenceTheorems, WellFoundedInduction, TLAPS

\* A set of numbers that has every number of which it has all smaller ones has
\* them all.
LEMMA SmallerFirst ==
  ASSUME NEW P, \A n \in Nat : (\A m \in 0 .. n - 1 : m \in P) => n \in P
  PROVE  \A n \in Nat : n \in P
<1> DEFINE N == {n \in Nat : n \notin P}
<1>1. IsWellFoundedOn(OpToRel(<, Nat), Nat)
  BY NatLessThanWellFounded
<1>2. ASSUME N # {} PROVE FALSE
  <2>1. PICK x \in N : \A y \in N : <<y, x>> \notin OpToRel(<, Nat)
    BY <1>1, <1>2, WFMin
  <2>2. OpToRel(<, Nat) = {ss \in Nat \X Nat : ss[1] < ss[2]}
    BY DEF OpToRel
  <2>3. ASSUME NEW y \in 0 .. x - 1 PROVE y \in P
    <3>1. y \in Nat /\ x \in Nat /\ y < x
      OBVIOUS
    <3>2. <<y, x>> \in {ss \in Nat \X Nat : ss[1] < ss[2]}
      BY <3>1
    <3> QED
      BY <2>1, <2>2, <3>1, <3>2
  <2> QED
    BY <2>1, <2>3
<1> QED
  BY <1>2

----------------------------------------------------------------------------
\* The entry of a table, and what is added for two letters that meet.
At(L, a, b) == L[<<a, b>>]
Cost(x, y) == IF x = y THEN 0 ELSE 1

IsLeast(m, x, y, z) == m <= x /\ m <= y /\ m <= z /\ (m = x \/ m = y \/ m = z)

LEMMA LeastOfThree ==
  ASSUME NEW x \in Nat, NEW y \in Nat, NEW z \in Nat
  PROVE  Least({x, y, z}) \in Nat /\ IsLeast(Least({x, y, z}), x, y, z)
<1>1. \E m \in {x, y, z} : \A n \in {x, y, z} : m <= n
  <2>1. CASE x <= y /\ x <= z
    BY <2>1
  <2>2. CASE y <= x /\ y <= z
    BY <2>2
  <2>3. CASE z <= x /\ z <= y
    BY <2>3
  <2> QED
    BY <2>1, <2>2, <2>3, SMT
<1>2. Least({x, y, z}) \in {x, y, z} /\ \A n \in {x, y, z} : Least({x, y, z}) <= n
  BY <1>1 DEF Least
<1> QED
  BY <1>2 DEF IsLeast

\* The border of a table counts letters, and every other entry is the least of
\* what its three neighbours offer.
Bordered(L, s, t) ==
  \A a \in 0 .. Len(s) : \A b \in 0 .. Len(t) :
     At(L, a, b) \in Nat /\ (a = 0 \/ b = 0 => At(L, a, b) = a + b)

Filled(L, s, t) ==
  \A a \in 1 .. Len(s) : \A b \in 1 .. Len(t) :
     IsLeast(At(L, a, b), At(L, a - 1, b) + 1, At(L, a, b - 1) + 1,
             At(L, a - 1, b - 1) + Cost(s[a], t[b]))

IsTable(L, s, t) == Bordered(L, s, t) /\ Filled(L, s, t)

\* The body of the recursion in Levenshtein.
Entered(L, s, t, p) ==
  IF p[1] = 0 \/ p[2] = 0 THEN p[1] + p[2]
  ELSE Least({L[<<p[1] - 1, p[2]>>] + 1, L[<<p[1], p[2] - 1>>] + 1,
              L[<<p[1] - 1, p[2] - 1>>] + IF s[p[1]] = t[p[2]] THEN 0 ELSE 1})

\* The recursion has a solution.
LEMMA RecursionSolved ==
  ASSUME NEW s, NEW t, Len(s) \in Nat, Len(t) \in Nat
  PROVE  \E L : L = [p \in (0 .. Len(s)) \X (0 .. Len(t)) |-> Entered(L, s, t, p)]
<1> DEFINE X == (0 .. Len(s)) \X (0 .. Len(t))
           Solved(n) == \E g : \A p \in X : p[1] + p[2] < n => g[p] = Entered(g, s, t, p)
           P == {n \in Nat : Solved(n)}
<1>1. \A p \in X : /\ p = <<p[1], p[2]>> /\ p[1] \in 0 .. Len(s) /\ p[2] \in 0 .. Len(t)
                   /\ p[1] + p[2] \in Nat
  OBVIOUS
<1>2. Solved(0)
  <2>1. \A p \in X : ~(p[1] + p[2] < 0)
    BY <1>1
  <2> QED
    BY <2>1
<1>3. ASSUME NEW n \in Nat, Solved(n) PROVE Solved(n + 1)
  <2>1. PICK g : \A p \in X : p[1] + p[2] < n => g[p] = Entered(g, s, t, p)
    BY <1>3
  <2> DEFINE h == [p \in X |-> IF p[1] + p[2] = n THEN Entered(g, s, t, p) ELSE g[p]]
  <2>2. ASSUME NEW p \in X, p[1] + p[2] < n + 1
        PROVE  h[p] = Entered(h, s, t, p)
    <3>1. CASE p[1] = 0 \/ p[2] = 0
      <4>1. Entered(h, s, t, p) = p[1] + p[2] /\ Entered(g, s, t, p) = p[1] + p[2]
        BY <3>1 DEF Entered
      <4>2. CASE p[1] + p[2] = n
        BY <4>1, <4>2
      <4>3. CASE p[1] + p[2] # n
        BY <1>1, <2>1, <2>2, <4>1, <4>3
      <4> QED
        BY <4>2, <4>3
    <3>2. CASE ~(p[1] = 0 \/ p[2] = 0)
      <4>1. PICK a \in 1 .. Len(s), b \in 1 .. Len(t) : p[1] = a /\ p[2] = b /\ a + b < n + 1
        BY <1>1, <2>2, <3>2
      <4>2. /\ <<a - 1, b>> \in X /\ (a - 1) + b # n
            /\ <<a, b - 1>> \in X /\ a + (b - 1) # n
            /\ <<a - 1, b - 1>> \in X /\ (a - 1) + (b - 1) # n
        BY <4>1
      <4>3. /\ h[<<a - 1, b>>] = g[<<a - 1, b>>]
            /\ h[<<a, b - 1>>] = g[<<a, b - 1>>]
            /\ h[<<a - 1, b - 1>>] = g[<<a - 1, b - 1>>]
        BY <4>2
      <4> HIDE DEF h
      <4>4. Entered(h, s, t, p) = Entered(g, s, t, p)
        BY <4>1, <4>3 DEF Entered
      <4>5. CASE a + b = n
        BY <4>1, <4>4, <4>5 DEF h
      <4>6. CASE a + b # n
        <5>1. h[p] = g[p]
          BY <4>1, <4>6 DEF h
        <5>2. p[1] + p[2] < n
          BY <4>1, <4>6
        <5> QED
          BY <2>1, <4>4, <5>1, <5>2
      <4> QED
        BY <4>5, <4>6
    <3> QED
      BY <3>1, <3>2
  <2> HIDE DEF h
  <2> QED
    BY <2>2
<1> HIDE DEF Solved
<1>4. ASSUME NEW n \in Nat, \A m \in 0 .. n - 1 : m \in P PROVE n \in P
  <2>1. CASE n = 0
    BY <1>2, <2>1
  <2>2. CASE n # 0
    <3>1. n - 1 \in Nat /\ n - 1 \in 0 .. n - 1 /\ n = (n - 1) + 1
      BY <2>2
    <3>2. Solved(n - 1)
      BY <1>4, <3>1
    <3> QED
      BY <1>3, <3>1, <3>2
  <2> QED
    BY <2>1, <2>2
<1>5. Solved(Len(s) + Len(t) + 1)
  <2> HIDE DEF P
  <2>1. \A n \in Nat : n \in P
    BY <1>4, SmallerFirst
  <2> QED
    BY <2>1 DEF P
<1>6. PICK g : \A p \in X : p[1] + p[2] < Len(s) + Len(t) + 1 => g[p] = Entered(g, s, t, p)
  BY <1>5 DEF Solved
<1> DEFINE h == [p \in X |-> g[p]]
<1>7. ASSUME NEW p \in X PROVE h[p] = Entered(h, s, t, p)
  <2>1. h[p] = Entered(g, s, t, p)
    BY <1>1, <1>6
  <2>2. CASE p[1] = 0 \/ p[2] = 0
    BY <2>1, <2>2 DEF Entered
  <2>3. CASE ~(p[1] = 0 \/ p[2] = 0)
    <3>1. PICK a \in 1 .. Len(s), b \in 1 .. Len(t) : p[1] = a /\ p[2] = b
      BY <1>1, <2>3
    <3>2. <<a - 1, b>> \in X /\ <<a, b - 1>> \in X /\ <<a - 1, b - 1>> \in X
      BY <3>1
    <3>3. /\ h[<<a - 1, b>>] = g[<<a - 1, b>>]
          /\ h[<<a, b - 1>>] = g[<<a, b - 1>>]
          /\ h[<<a - 1, b - 1>>] = g[<<a - 1, b - 1>>]
      BY <3>2
    <3> HIDE DEF h
    <3> QED
      BY <2>1, <3>1, <3>3 DEF Entered
  <2> QED
    BY <2>2, <2>3
<1>8. h = [p \in X |-> h[p]]
  OBVIOUS
<1> HIDE DEF h
<1>9. h = [p \in X |-> Entered(h, s, t, p)]
  BY <1>7, <1>8
<1> QED
  BY <1>9

\* Its solution is a table, and the last entry is the distance.
LEMMA LevenshteinTable ==
  ASSUME NEW s, NEW t, Len(s) \in Nat, Len(t) \in Nat
  PROVE  \E L : IsTable(L, s, t) /\ Levenshtein(s, t) = At(L, Len(s), Len(t))
<1> DEFINE X == (0 .. Len(s)) \X (0 .. Len(t))
           L == CHOOSE g : g = [p \in X |-> Entered(g, s, t, p)]
<1>1. L = [p \in X |-> Entered(L, s, t, p)]
  BY RecursionSolved
<1>2. Levenshtein(s, t) = L[<<Len(s), Len(t)>>]
  BY DEF Levenshtein, Entered
<1> HIDE DEF L
<1>3. ASSUME NEW a \in 0 .. Len(s), NEW b \in 0 .. Len(t)
      PROVE  At(L, a, b) = IF a = 0 \/ b = 0 THEN a + b
                           ELSE Least({At(L, a - 1, b) + 1, At(L, a, b - 1) + 1,
                                       At(L, a - 1, b - 1) + Cost(s[a], t[b])})
  <2>1. PICK p \in X : p = <<a, b>>
    OBVIOUS
  <2>2. L[p] = Entered(L, s, t, p)
    BY <1>1, Zenon
  <2>3. p[1] = a /\ p[2] = b
    BY <2>1
  <2> QED
    BY <2>1, <2>2, <2>3 DEF Entered, At, Cost
<1>4. ASSUME NEW a \in 1 .. Len(s), NEW b \in 1 .. Len(t),
             At(L, a - 1, b) \in Nat, At(L, a, b - 1) \in Nat, At(L, a - 1, b - 1) \in Nat
      PROVE  /\ At(L, a, b) \in Nat
             /\ IsLeast(At(L, a, b), At(L, a - 1, b) + 1, At(L, a, b - 1) + 1,
                        At(L, a - 1, b - 1) + Cost(s[a], t[b]))
  <2>1. a \in 0 .. Len(s) /\ b \in 0 .. Len(t) /\ ~(a = 0 \/ b = 0)
    OBVIOUS
  <2>2. At(L, a, b) = Least({At(L, a - 1, b) + 1, At(L, a, b - 1) + 1,
                             At(L, a - 1, b - 1) + Cost(s[a], t[b])})
    BY <1>3, <2>1
  <2>3. /\ At(L, a - 1, b) + 1 \in Nat /\ At(L, a, b - 1) + 1 \in Nat
        /\ At(L, a - 1, b - 1) + Cost(s[a], t[b]) \in Nat
    BY <1>4 DEF Cost
  <2> DEFINE x == At(L, a - 1, b) + 1
             y == At(L, a, b - 1) + 1
             z == At(L, a - 1, b - 1) + Cost(s[a], t[b])
  <2>4. x \in Nat /\ y \in Nat /\ z \in Nat /\ At(L, a, b) = Least({x, y, z})
    BY <2>2, <2>3
  <2> SUFFICES At(L, a, b) \in Nat /\ IsLeast(At(L, a, b), x, y, z)
    OBVIOUS
  <2> HIDE DEF x, y, z
  <2>5. Least({x, y, z}) \in Nat /\ IsLeast(Least({x, y, z}), x, y, z)
    BY <2>4, LeastOfThree
  <2> QED
    BY <2>4, <2>5, Zenon
<1> DEFINE P == {n \in Nat : \A a \in 0 .. Len(s) : \A b \in 0 .. Len(t) :
                                a + b = n => At(L, a, b) \in Nat}
<1>5. ASSUME NEW n \in Nat, \A m \in 0 .. n - 1 : m \in P PROVE n \in P
  <2> SUFFICES ASSUME NEW a \in 0 .. Len(s), NEW b \in 0 .. Len(t), a + b = n
               PROVE  At(L, a, b) \in Nat
    OBVIOUS
  <2>1. CASE a = 0 \/ b = 0
    BY <1>3, <2>1
  <2>2. CASE ~(a = 0 \/ b = 0)
    <3>1. /\ a \in 1 .. Len(s) /\ b \in 1 .. Len(t)
          /\ a - 1 \in 0 .. Len(s) /\ b - 1 \in 0 .. Len(t)
          /\ (a - 1) + b \in 0 .. n - 1 /\ a + (b - 1) \in 0 .. n - 1
          /\ (a - 1) + (b - 1) \in 0 .. n - 1
      BY <2>2
    <3>2. At(L, a - 1, b) \in Nat /\ At(L, a, b - 1) \in Nat /\ At(L, a - 1, b - 1) \in Nat
      BY <1>5, <3>1
    <3> QED
      BY <1>4, <3>1, <3>2
  <2> QED
    BY <2>1, <2>2
<1>6. ASSUME NEW a \in 0 .. Len(s), NEW b \in 0 .. Len(t) PROVE At(L, a, b) \in Nat
  <2>1. a + b \in P
    <3> HIDE DEF P
    <3>1. \A n \in Nat : n \in P
      BY <1>5, SmallerFirst
    <3> QED
      BY <3>1
  <2> QED
    BY <2>1
<1> HIDE DEF P
<1>7. Bordered(L, s, t)
  <2>1. ASSUME NEW a \in 0 .. Len(s), NEW b \in 0 .. Len(t), a = 0 \/ b = 0
        PROVE  At(L, a, b) = a + b
    BY <1>3, <2>1
  <2> QED
    BY <1>6, <2>1 DEF Bordered
<1>8. Filled(L, s, t)
  <2>1. ASSUME NEW a \in 1 .. Len(s), NEW b \in 1 .. Len(t)
        PROVE  IsLeast(At(L, a, b), At(L, a - 1, b) + 1, At(L, a, b - 1) + 1,
                       At(L, a - 1, b - 1) + Cost(s[a], t[b]))
    <3>1. /\ a \in 0 .. Len(s) /\ b \in 0 .. Len(t)
          /\ a - 1 \in 0 .. Len(s) /\ b - 1 \in 0 .. Len(t)
      OBVIOUS
    <3>2. At(L, a - 1, b) \in Nat /\ At(L, a, b - 1) \in Nat /\ At(L, a - 1, b - 1) \in Nat
      BY <1>6, <3>1
    <3> QED
      BY <1>4, <3>2
  <2> QED
    BY <2>1 DEF Filled
<1> QED
  BY <1>2, <1>7, <1>8 DEF IsTable, At

\* What a table says of one entry.
LEMMA BorderOf ==
  ASSUME NEW s, NEW t, NEW L, IsTable(L, s, t), NEW a \in 0 .. Len(s), NEW b \in 0 .. Len(t)
  PROVE  At(L, a, b) \in Nat /\ (a = 0 \/ b = 0 => At(L, a, b) = a + b)
  BY DEF IsTable, Bordered

LEMMA EntryOf ==
  ASSUME NEW s, NEW t, NEW L, IsTable(L, s, t), NEW a \in 1 .. Len(s), NEW b \in 1 .. Len(t)
  PROVE  LET m == At(L, a, b)
             x == At(L, a - 1, b) + 1
             y == At(L, a, b - 1) + 1
             z == At(L, a - 1, b - 1) + Cost(s[a], t[b])
         IN  m <= x /\ m <= y /\ m <= z /\ (m = x \/ m = y \/ m = z)
  BY DEF IsTable, Filled, IsLeast

Agree(s, u, k) == \A a \in 1 .. k : s[a] = u[a]

\* Two tables agree as far as their words do.
LEMMA SamePrefix ==
  ASSUME NEW s, NEW t, NEW L, IsTable(L, s, t), Len(s) \in Nat, Len(t) \in Nat,
         NEW u, NEW v, NEW M, IsTable(M, u, v), Len(u) \in Nat, Len(v) \in Nat,
         NEW k \in Nat, k <= Len(s), k <= Len(u), Agree(s, u, k),
         NEW n \in Nat, n <= Len(t), n <= Len(v), Agree(t, v, n)
  PROVE  \A a \in 0 .. k : \A b \in 0 .. n : At(L, a, b) = At(M, a, b)
<1> DEFINE P == {m \in Nat : \A a \in 0 .. k : \A b \in 0 .. n :
                                a + b = m => At(L, a, b) = At(M, a, b)}
<1>1. ASSUME NEW m \in Nat, \A q \in 0 .. m - 1 : q \in P PROVE m \in P
  <2> SUFFICES ASSUME NEW a \in 0 .. k, NEW b \in 0 .. n, a + b = m
               PROVE  At(L, a, b) = At(M, a, b)
    OBVIOUS
  <2>1. a \in 0 .. Len(s) /\ a \in 0 .. Len(u) /\ b \in 0 .. Len(t) /\ b \in 0 .. Len(v)
    OBVIOUS
  <2>2. CASE a = 0 \/ b = 0
    <3>1. At(L, a, b) = a + b
      BY <2>1, <2>2, BorderOf
    <3>2. At(M, a, b) = a + b
      BY <2>1, <2>2, BorderOf
    <3> QED
      BY <3>1, <3>2
  <2>3. CASE ~(a = 0 \/ b = 0)
    <3>1. /\ a \in 1 .. Len(s) /\ a \in 1 .. Len(u) /\ b \in 1 .. Len(t) /\ b \in 1 .. Len(v)
          /\ a \in 1 .. k /\ b \in 1 .. n
          /\ a - 1 \in 0 .. k /\ b - 1 \in 0 .. n
          /\ (a - 1) + b \in 0 .. m - 1 /\ a + (b - 1) \in 0 .. m - 1
          /\ (a - 1) + (b - 1) \in 0 .. m - 1
      BY <2>1, <2>3
    <3>2. /\ At(L, a - 1, b) = At(M, a - 1, b)
          /\ At(L, a, b - 1) = At(M, a, b - 1)
          /\ At(L, a - 1, b - 1) = At(M, a - 1, b - 1)
      BY <1>1, <3>1
    <3>3. s[a] = u[a] /\ t[b] = v[b]
      BY <3>1 DEF Agree
    <3> DEFINE x == At(L, a - 1, b) + 1
               y == At(L, a, b - 1) + 1
               z == At(L, a - 1, b - 1) + Cost(s[a], t[b])
    <3>4. LET m1 == At(L, a, b)
          IN  m1 <= x /\ m1 <= y /\ m1 <= z /\ (m1 = x \/ m1 = y \/ m1 = z)
      BY <3>1, EntryOf
    <3>5. LET m2 == At(M, a, b)
          IN  m2 <= x /\ m2 <= y /\ m2 <= z /\ (m2 = x \/ m2 = y \/ m2 = z)
      <4>1. /\ x = At(M, a - 1, b) + 1 /\ y = At(M, a, b - 1) + 1
            /\ z = At(M, a - 1, b - 1) + Cost(u[a], v[b])
        BY <3>2, <3>3
      <4> HIDE DEF x, y, z
      <4> QED
        BY <3>1, <4>1, EntryOf
    <3> HIDE DEF x, y, z
    <3>6. At(L, a, b) \in Nat /\ At(M, a, b) \in Nat
      BY <2>1, BorderOf
    <3> QED
      BY <3>4, <3>5, <3>6
  <2> QED
    BY <2>2, <2>3
<1> SUFFICES ASSUME NEW a \in 0 .. k, NEW b \in 0 .. n PROVE a + b \in P
  OBVIOUS
<1> HIDE DEF P
<1>2. \A m \in Nat : m \in P
  BY <1>1, SmallerFirst
<1> QED
  BY <1>2

\* Any table of two words has their distance in its last entry.
LEMMA DistanceIsLast ==
  ASSUME NEW s, NEW t, Len(s) \in Nat, Len(t) \in Nat, NEW L, IsTable(L, s, t)
  PROVE  Levenshtein(s, t) = At(L, Len(s), Len(t))
<1>1. PICK M : IsTable(M, s, t) /\ Levenshtein(s, t) = At(M, Len(s), Len(t))
  BY LevenshteinTable
<1>2. \A a \in 0 .. Len(s) : \A b \in 0 .. Len(t) : At(M, a, b) = At(L, a, b)
  <2>1. Agree(s, s, Len(s)) /\ Agree(t, t, Len(t)) /\ Len(s) <= Len(s) /\ Len(t) <= Len(t)
    BY DEF Agree
  <2> QED
    BY <1>1, <2>1, SamePrefix
<1> QED
  BY <1>1, <1>2

----------------------------------------------------------------------------
\* Transposed, a table is one of the same words the other way round.
LEMMA DistanceSymmetric ==
  ASSUME NEW s, NEW t, Len(s) \in Nat, Len(t) \in Nat
  PROVE  Levenshtein(s, t) = Levenshtein(t, s)
<1>1. PICK L : IsTable(L, s, t)
  BY LevenshteinTable
<1> DEFINE M == [p \in (0 .. Len(t)) \X (0 .. Len(s)) |-> L[<<p[2], p[1]>>]]
<1>2. ASSUME NEW a \in 0 .. Len(t), NEW b \in 0 .. Len(s)
      PROVE  At(M, a, b) = At(L, b, a)
  BY DEF At
<1> HIDE DEF M
<1>3. Bordered(M, t, s)
  <2>1. ASSUME NEW a \in 0 .. Len(t), NEW b \in 0 .. Len(s)
        PROVE  At(M, a, b) \in Nat /\ (a = 0 \/ b = 0 => At(M, a, b) = a + b)
    BY <1>1, <1>2, BorderOf
  <2> QED
    BY <2>1 DEF Bordered
<1>4. Filled(M, t, s)
  <2>1. ASSUME NEW a \in 1 .. Len(t), NEW b \in 1 .. Len(s)
        PROVE  IsLeast(At(M, a, b), At(M, a - 1, b) + 1, At(M, a, b - 1) + 1,
                       At(M, a - 1, b - 1) + Cost(t[a], s[b]))
    <3>1. /\ a \in 0 .. Len(t) /\ b \in 0 .. Len(s)
          /\ a - 1 \in 0 .. Len(t) /\ b - 1 \in 0 .. Len(s)
      OBVIOUS
    <3>2. /\ At(M, a, b) = At(L, b, a)
          /\ At(M, a - 1, b) = At(L, b, a - 1)
          /\ At(M, a, b - 1) = At(L, b - 1, a)
          /\ At(M, a - 1, b - 1) = At(L, b - 1, a - 1)
      BY <1>2, <3>1
    <3>3. Cost(t[a], s[b]) = Cost(s[b], t[a])
      BY DEF Cost
    <3>4. LET m == At(L, b, a)
              x == At(L, b - 1, a) + 1
              y == At(L, b, a - 1) + 1
              z == At(L, b - 1, a - 1) + Cost(s[b], t[a])
          IN  m <= x /\ m <= y /\ m <= z /\ (m = x \/ m = y \/ m = z)
      BY <1>1, EntryOf
    <3> QED
      BY <3>2, <3>3, <3>4 DEF IsLeast
  <2> QED
    BY <2>1 DEF Filled
<1>5. Levenshtein(t, s) = At(M, Len(t), Len(s))
  BY <1>3, <1>4, DistanceIsLast DEF IsTable
<1>6. Levenshtein(s, t) = At(L, Len(s), Len(t))
  BY <1>1, DistanceIsLast
<1>7. Len(s) \in 0 .. Len(s) /\ Len(t) \in 0 .. Len(t)
  OBVIOUS
<1> QED
  BY <1>2, <1>5, <1>6, <1>7

\* One letter more changes a distance by one at the most. (A table has this from
\* its recursion downwards; this is the other direction.)
LEMMA OneLetterMore ==
  ASSUME NEW s, NEW t, Len(s) \in Nat, Len(t) \in Nat, NEW L, IsTable(L, s, t)
  PROVE  \A a \in 0 .. Len(s) : \A b \in 0 .. Len(t) :
            /\ a # 0 => At(L, a - 1, b) <= At(L, a, b) + 1
            /\ b # 0 => At(L, a, b - 1) <= At(L, a, b) + 1
<1> DEFINE P == {n \in Nat : \A a \in 0 .. Len(s) : \A b \in 0 .. Len(t) :
                    a + b = n => /\ a # 0 => At(L, a - 1, b) <= At(L, a, b) + 1
                                 /\ b # 0 => At(L, a, b - 1) <= At(L, a, b) + 1}
<1>1. ASSUME NEW n \in Nat, \A m \in 0 .. n - 1 : m \in P PROVE n \in P
  <2> SUFFICES ASSUME NEW a \in 0 .. Len(s), NEW b \in 0 .. Len(t), a + b = n
               PROVE  /\ a # 0 => At(L, a - 1, b) <= At(L, a, b) + 1
                      /\ b # 0 => At(L, a, b - 1) <= At(L, a, b) + 1
    OBVIOUS
  <2>1. CASE a = 0
    <3>1. At(L, a, b) = a + b
      BY <2>1, BorderOf
    <3>2. b # 0 => b - 1 \in 0 .. Len(t)
      OBVIOUS
    <3>3. ASSUME b # 0 PROVE At(L, a, b - 1) = a + (b - 1)
      <4>1. PICK c \in 0 .. Len(t) : c = b - 1
        BY <3>2, <3>3
      <4>2. At(L, a, c) = a + c
        BY <2>1, BorderOf
      <4> QED
        BY <4>1, <4>2
    <3> QED
      BY <2>1, <3>1, <3>3
  <2>2. CASE b = 0
    <3>1. At(L, a, b) = a + b
      BY <2>2, BorderOf
    <3>2. a # 0 => a - 1 \in 0 .. Len(s)
      OBVIOUS
    <3>3. ASSUME a # 0 PROVE At(L, a - 1, b) = (a - 1) + b
      <4>1. PICK c \in 0 .. Len(s) : c = a - 1
        BY <3>2, <3>3
      <4>2. At(L, c, b) = c + b
        BY <2>2, BorderOf
      <4> QED
        BY <4>1, <4>2
    <3> QED
      BY <2>2, <3>1, <3>3
  <2>3. CASE a # 0 /\ b # 0
    <3>1. /\ a \in 1 .. Len(s) /\ b \in 1 .. Len(t)
          /\ a - 1 \in 0 .. Len(s) /\ b - 1 \in 0 .. Len(t)
          /\ (a - 1) + b \in 0 .. n - 1 /\ a + (b - 1) \in 0 .. n - 1
          /\ (a - 1) + (b - 1) \in 0 .. n - 1
      BY <2>3
    <3> DEFINE m == At(L, a, b)
               up == At(L, a - 1, b)
               left == At(L, a, b - 1)
               both == At(L, a - 1, b - 1)
    <3>2. m \in Nat /\ up \in Nat /\ left \in Nat /\ both \in Nat
      BY <3>1, BorderOf
    <3>3. /\ m <= up + 1 /\ m <= left + 1 /\ m <= both + Cost(s[a], t[b])
          /\ (m = up + 1 \/ m = left + 1 \/ m = both + Cost(s[a], t[b]))
      BY <3>1, EntryOf
    <3>4. both <= up + 1
      BY <1>1, <2>3, <3>1
    <3>5. both <= left + 1
      BY <1>1, <2>3, <3>1
    <3>6. up <= both + 1
      <4>1. CASE a - 1 = 0
        <5>1. up = (a - 1) + b /\ both = (a - 1) + (b - 1)
          BY <3>1, <4>1, BorderOf
        <5> QED
          BY <4>1, <5>1
      <4>2. CASE a - 1 # 0
        <5>1. a - 1 \in 1 .. Len(s)
          BY <3>1, <4>2
        <5> QED
          BY <3>1, <5>1, EntryOf
      <4> QED
        BY <4>1, <4>2
    <3>7. left <= both + 1
      <4>1. CASE b - 1 = 0
        <5>1. left = a + (b - 1) /\ both = (a - 1) + (b - 1)
          BY <3>1, <4>1, BorderOf
        <5> QED
          BY <4>1, <5>1
      <4>2. CASE b - 1 # 0
        <5>1. b - 1 \in 1 .. Len(t)
          BY <3>1, <4>2
        <5> QED
          BY <3>1, <5>1, EntryOf
      <4> QED
        BY <4>1, <4>2
    <3> HIDE DEF m, up, left, both
    <3>8. Cost(s[a], t[b]) \in {0, 1}
      BY DEF Cost
    <3>9. up <= m + 1 /\ left <= m + 1
      BY <3>2, <3>3, <3>4, <3>5, <3>6, <3>7, <3>8
    <3> QED
      BY <3>9 DEF m, up, left
  <2> QED
    BY <2>1, <2>2, <2>3
<1> SUFFICES ASSUME NEW a \in 0 .. Len(s), NEW b \in 0 .. Len(t) PROVE a + b \in P
  OBVIOUS
<1> HIDE DEF P
<1>2. \A m \in Nat : m \in P
  BY <1>1, SmallerFirst
<1> QED
  BY <1>2

\* A table holds the distances of all prefixes.
LEMMA DistanceOfPrefixes ==
  ASSUME NEW S, NEW s \in Seq(S), NEW t \in Seq(S), NEW L, IsTable(L, s, t),
         NEW m \in 0 .. Len(s), NEW n \in 0 .. Len(t)
  PROVE  Levenshtein(SubSeq(s, 1, m), SubSeq(t, 1, n)) = At(L, m, n)
<1>1. Len(s) \in Nat /\ Len(t) \in Nat /\ m \in Nat /\ n \in Nat /\ m <= Len(s) /\ n <= Len(t)
  BY LenProperties
<1>2. PICK u : u = SubSeq(s, 1, m)
  OBVIOUS
<1>3. PICK v : v = SubSeq(t, 1, n)
  OBVIOUS
<1>4. Len(u) = m /\ \A a \in 1 .. m : u[a] = s[a]
  BY <1>1, <1>2
<1>5. Len(v) = n /\ \A b \in 1 .. n : v[b] = t[b]
  BY <1>1, <1>3
<1>6. PICK M : IsTable(M, u, v) /\ Levenshtein(u, v) = At(M, Len(u), Len(v))
  BY <1>1, <1>4, <1>5, LevenshteinTable
<1>7. \A a \in 0 .. m : \A b \in 0 .. n : At(L, a, b) = At(M, a, b)
  <2>1. /\ Len(s) \in Nat /\ Len(t) \in Nat /\ Len(u) \in Nat /\ Len(v) \in Nat
        /\ m \in Nat /\ m <= Len(s) /\ m <= Len(u) /\ n \in Nat /\ n <= Len(t) /\ n <= Len(v)
    BY <1>1, <1>4, <1>5
  <2>2. Agree(s, u, m) /\ Agree(t, v, n)
    BY <1>4, <1>5 DEF Agree
  <2>3. IsTable(M, u, v)
    BY <1>6
  <2> QED
    BY <2>1, <2>2, <2>3, SamePrefix
<1>8. m \in 0 .. m /\ n \in 0 .. n
  BY <1>1
<1> QED
  BY <1>2, <1>3, <1>4, <1>5, <1>6, <1>7, <1>8

\* Two words with the same last letter are as far apart as without it.
LEMMA SameLast ==
  ASSUME NEW S, NEW s \in Seq(S), NEW t \in Seq(S), Len(s) # 0, Len(t) # 0,
         s[Len(s)] = t[Len(t)]
  PROVE  Levenshtein(SubSeq(s, 1, Len(s) - 1), SubSeq(t, 1, Len(t) - 1)) = Levenshtein(s, t)
<1> DEFINE m == Len(s)
           n == Len(t)
<1>1. m \in Nat /\ n \in Nat
  BY LenProperties
<1>2. PICK L : IsTable(L, s, t)
  BY <1>1, LevenshteinTable
<1>3. Levenshtein(s, t) = At(L, m, n)
  BY <1>1, <1>2, DistanceIsLast
<1>4. /\ m \in 1 .. Len(s) /\ n \in 1 .. Len(t) /\ m \in 0 .. Len(s) /\ n \in 0 .. Len(t)
      /\ m - 1 \in 0 .. Len(s) /\ n - 1 \in 0 .. Len(t)
  BY <1>1
<1>5. Levenshtein(SubSeq(s, 1, m - 1), SubSeq(t, 1, n - 1)) = At(L, m - 1, n - 1)
  BY <1>2, <1>4, DistanceOfPrefixes
<1>6. Cost(s[m], t[n]) = 0
  BY DEF Cost
<1>7. LET d0 == At(L, m, n)
          x == At(L, m - 1, n) + 1
          y == At(L, m, n - 1) + 1
          z == At(L, m - 1, n - 1) + Cost(s[m], t[n])
      IN  d0 <= x /\ d0 <= y /\ d0 <= z /\ (d0 = x \/ d0 = y \/ d0 = z)
  BY <1>2, <1>4, EntryOf
<1>8. \A a \in 0 .. Len(s) : \A b \in 0 .. Len(t) :
         /\ a # 0 => At(L, a - 1, b) <= At(L, a, b) + 1
         /\ b # 0 => At(L, a, b - 1) <= At(L, a, b) + 1
  BY <1>1, <1>2, OneLetterMore
<1>9. At(L, m - 1, n - 1) <= At(L, m - 1, n) + 1
  BY <1>4, <1>8
<1>10. /\ At(L, m, n) \in Nat /\ At(L, m - 1, n) \in Nat
       /\ At(L, m, n - 1) \in Nat /\ At(L, m - 1, n - 1) \in Nat
  BY <1>2, <1>4, BorderOf
<1>11. At(L, m - 1, n - 1) <= At(L, m, n - 1) + 1
  BY <1>4, <1>8
<1> HIDE DEF m, n
<1>12. At(L, m, n) = At(L, m - 1, n - 1)
  BY <1>6, <1>7, <1>9, <1>10, <1>11
<1> QED
  BY <1>3, <1>5, <1>12 DEF m, n

\* So they are if their first letters are the same: from there on the table of
\* the rest is the table of the words, moved by one.
LEMMA SameFirst ==
  ASSUME NEW S, NEW s \in Seq(S), NEW t \in Seq(S), Len(s) # 0, Len(t) # 0, s[1] = t[1]
  PROVE  Levenshtein(Tail(s), Tail(t)) = Levenshtein(s, t)
<1> DEFINE m == Len(s)
           n == Len(t)
<1>1. m \in Nat /\ n \in Nat
  BY LenProperties
<1>2. PICK L : IsTable(L, s, t)
  BY <1>1, LevenshteinTable
<1>3. PICK u : u = Tail(s)
  OBVIOUS
<1>4. PICK v : v = Tail(t)
  OBVIOUS
<1>5. Len(u) = m - 1 /\ \A a \in 1 .. m - 1 : u[a] = s[a + 1]
  BY <1>1, <1>3
<1>6. Len(v) = n - 1 /\ \A b \in 1 .. n - 1 : v[b] = t[b + 1]
  BY <1>1, <1>4
<1> HIDE DEF m, n
<1>7. m = Len(s) /\ n = Len(t) /\ m # 0 /\ n # 0
  BY DEF m, n
<1>8. ASSUME NEW a \in 1 .. m, NEW b \in 1 .. n
      PROVE  LET d0 == At(L, a, b)
                 x == At(L, a - 1, b) + 1
                 y == At(L, a, b - 1) + 1
                 z == At(L, a - 1, b - 1) + Cost(s[a], t[b])
             IN  d0 <= x /\ d0 <= y /\ d0 <= z /\ (d0 = x \/ d0 = y \/ d0 = z)
  BY <1>2, <1>7, EntryOf
<1>9. ASSUME NEW a \in 0 .. m, NEW b \in 0 .. n
      PROVE  At(L, a, b) \in Nat /\ (a = 0 \/ b = 0 => At(L, a, b) = a + b)
  BY <1>2, <1>7, BorderOf
<1>10. At(L, 1, 1) = 0
  <2>1. 1 \in 1 .. m /\ 1 \in 1 .. n /\ 0 \in 0 .. m /\ 0 \in 0 .. n /\ 1 \in 0 .. m /\ 1 \in 0 .. n
    BY <1>1, <1>7
  <2>2. At(L, 0, 0) = 0
    BY <1>9, <2>1
  <2>3. Cost(s[1], t[1]) = 0
    BY DEF Cost
  <2>4. At(L, 1, 1) <= At(L, 1 - 1, 1 - 1) + Cost(s[1], t[1])
    BY <1>8, <2>1
  <2>5. At(L, 1, 1) \in Nat
    BY <1>9, <2>1
  <2> QED
    BY <2>2, <2>3, <2>4, <2>5
<1>11. \A a \in Nat : a + 1 <= m => At(L, a + 1, 1) = a
  <2> DEFINE P == {a \in Nat : a + 1 <= m => At(L, a + 1, 1) = a}
  <2>1. ASSUME NEW a \in Nat, \A q \in 0 .. a - 1 : q \in P PROVE a \in P
    <3> SUFFICES ASSUME a + 1 <= m PROVE At(L, a + 1, 1) = a
      OBVIOUS
    <3>1. CASE a = 0
      BY <1>10, <3>1
    <3>2. CASE a # 0
      <4>1. /\ a + 1 \in 1 .. m /\ 1 \in 1 .. n /\ a \in 0 .. m /\ 0 \in 0 .. n
            /\ (a + 1) - 1 = a /\ (a - 1) + 1 = a /\ a - 1 \in 0 .. a - 1 /\ a + 1 \in 0 .. m
            /\ 1 - 1 = 0
        BY <1>1, <1>7, <3>2
      <4>2. At(L, a, 1) = a - 1
        BY <2>1, <4>1
      <4>3. At(L, a + 1, 0) = a + 1 /\ At(L, a, 0) = a
        BY <1>9, <4>1
      <4>4. LET d0 == At(L, a + 1, 1)
                x == At(L, a, 1) + 1
                y == At(L, a + 1, 0) + 1
                z == At(L, a, 0) + Cost(s[a + 1], t[1])
            IN  d0 <= x /\ d0 <= y /\ d0 <= z /\ (d0 = x \/ d0 = y \/ d0 = z)
        BY <1>8, <4>1
      <4>5. Cost(s[a + 1], t[1]) \in {0, 1}
        BY DEF Cost
      <4> HIDE DEF P
      <4> QED
        BY <4>2, <4>3, <4>4, <4>5
    <3> QED
      BY <3>1, <3>2
  <2> HIDE DEF P
  <2>2. \A a \in Nat : a \in P
    BY <2>1, SmallerFirst
  <2> QED
    BY <2>2 DEF P
<1>12. \A b \in Nat : b + 1 <= n => At(L, 1, b + 1) = b
  <2> DEFINE P == {b \in Nat : b + 1 <= n => At(L, 1, b + 1) = b}
  <2>1. ASSUME NEW b \in Nat, \A q \in 0 .. b - 1 : q \in P PROVE b \in P
    <3> SUFFICES ASSUME b + 1 <= n PROVE At(L, 1, b + 1) = b
      OBVIOUS
    <3>1. CASE b = 0
      BY <1>10, <3>1
    <3>2. CASE b # 0
      <4>1. /\ b + 1 \in 1 .. n /\ 1 \in 1 .. m /\ b \in 0 .. n /\ 0 \in 0 .. m
            /\ (b + 1) - 1 = b /\ (b - 1) + 1 = b /\ b - 1 \in 0 .. b - 1 /\ b + 1 \in 0 .. n
            /\ 1 - 1 = 0
        BY <1>1, <1>7, <3>2
      <4>2. At(L, 1, b) = b - 1
        BY <2>1, <4>1
      <4>3. At(L, 0, b + 1) = b + 1 /\ At(L, 0, b) = b
        BY <1>9, <4>1
      <4>4. LET d0 == At(L, 1, b + 1)
                x == At(L, 0, b + 1) + 1
                y == At(L, 1, b) + 1
                z == At(L, 0, b) + Cost(s[1], t[b + 1])
            IN  d0 <= x /\ d0 <= y /\ d0 <= z /\ (d0 = x \/ d0 = y \/ d0 = z)
        BY <1>8, <4>1
      <4>5. Cost(s[1], t[b + 1]) \in {0, 1}
        BY DEF Cost
      <4> HIDE DEF P
      <4> QED
        BY <4>2, <4>3, <4>4, <4>5
    <3> QED
      BY <3>1, <3>2
  <2> HIDE DEF P
  <2>2. \A b \in Nat : b \in P
    BY <2>1, SmallerFirst
  <2> QED
    BY <2>2 DEF P
<1> DEFINE M == [p \in (0 .. m - 1) \X (0 .. n - 1) |-> L[<<p[1] + 1, p[2] + 1>>]]
<1>13. ASSUME NEW a \in 0 .. m - 1, NEW b \in 0 .. n - 1
       PROVE  At(M, a, b) = At(L, a + 1, b + 1)
  BY DEF At
<1> HIDE DEF M
<1>14. Bordered(M, u, v)
  <2>1. ASSUME NEW a \in 0 .. m - 1, NEW b \in 0 .. n - 1
        PROVE  At(M, a, b) \in Nat /\ (a = 0 \/ b = 0 => At(M, a, b) = a + b)
    <3>1. a + 1 \in 0 .. m /\ b + 1 \in 0 .. n /\ a \in Nat /\ b \in Nat /\ a + 1 <= m /\ b + 1 <= n
      BY <1>1
    <3>2. At(L, a + 1, b + 1) \in Nat
      BY <1>9, <3>1
    <3>3. ASSUME b = 0 PROVE At(L, a + 1, b + 1) = a
      BY <1>11, <3>1, <3>3
    <3>4. ASSUME a = 0 PROVE At(L, a + 1, b + 1) = b
      BY <1>12, <3>1, <3>4
    <3> QED
      BY <1>13, <3>1, <3>2, <3>3, <3>4
  <2> QED
    BY <1>5, <1>6, <2>1 DEF Bordered
<1>15. Filled(M, u, v)
  <2>1. ASSUME NEW a \in 1 .. m - 1, NEW b \in 1 .. n - 1
        PROVE  IsLeast(At(M, a, b), At(M, a - 1, b) + 1, At(M, a, b - 1) + 1,
                       At(M, a - 1, b - 1) + Cost(u[a], v[b]))
    <3>1. /\ a \in 0 .. m - 1 /\ a - 1 \in 0 .. m - 1 /\ (a - 1) + 1 = a
          /\ b \in 0 .. n - 1 /\ b - 1 \in 0 .. n - 1 /\ (b - 1) + 1 = b
          /\ a + 1 \in 1 .. m /\ b + 1 \in 1 .. n /\ (a + 1) - 1 = a /\ (b + 1) - 1 = b
      BY <1>1
    <3>2. /\ At(M, a, b) = At(L, a + 1, b + 1)
          /\ At(M, a - 1, b) = At(L, a, b + 1)
          /\ At(M, a, b - 1) = At(L, a + 1, b)
          /\ At(M, a - 1, b - 1) = At(L, a, b)
      BY <1>13, <3>1
    <3>3. u[a] = s[a + 1] /\ v[b] = t[b + 1]
      BY <1>5, <1>6
    <3>4. LET d0 == At(L, a + 1, b + 1)
              x == At(L, a, b + 1) + 1
              y == At(L, a + 1, b) + 1
              z == At(L, a, b) + Cost(s[a + 1], t[b + 1])
          IN  d0 <= x /\ d0 <= y /\ d0 <= z /\ (d0 = x \/ d0 = y \/ d0 = z)
      BY <1>8, <3>1
    <3> QED
      BY <3>2, <3>3, <3>4 DEF IsLeast
  <2> QED
    BY <1>5, <1>6, <2>1 DEF Filled
<1>16. Levenshtein(u, v) = At(M, m - 1, n - 1)
  <2>1. Len(u) \in Nat /\ Len(v) \in Nat
    BY <1>1, <1>5, <1>6, <1>7
  <2>2. IsTable(M, u, v)
    BY <1>14, <1>15 DEF IsTable
  <2>3. Levenshtein(u, v) = At(M, Len(u), Len(v))
    BY <2>1, <2>2, DistanceIsLast
  <2> QED
    BY <1>5, <1>6, <2>3
<1>17. m - 1 \in 0 .. m - 1 /\ n - 1 \in 0 .. n - 1 /\ (m - 1) + 1 = m /\ (n - 1) + 1 = n
  BY <1>1, <1>7
<1>18. At(M, m - 1, n - 1) = At(L, m, n)
  BY <1>13, <1>17
<1>19. Levenshtein(s, t) = At(L, m, n)
  BY <1>1, <1>2, <1>7, DistanceIsLast
<1> QED
  BY <1>3, <1>4, <1>16, <1>18, <1>19

----------------------------------------------------------------------------
\* The invariant: what is left of the words is as far apart as they were, and
\* the buffer has the row the loops are in, up to where they are.
TypeInv ==
  /\ s1 \in Seq(Letter) /\ s2 \in Seq(Letter)
  /\ max_str \in Seq(Letter) /\ min_str \in Seq(Letter)
  /\ min_len <= max_len
  /\ pc \in {"row", "cell"} => d \in [0 .. max_len -> Int]

RowInv ==
  /\ pc = "row" => i \in 0 .. min_len /\ \A k \in 0 .. max_len : d[k] = Entry(i, k)
  /\ pc = "cell" => i \in 1 .. min_len /\ j \in 1 .. max_len + 1

IInv == TypeInv /\ CutKeepsDistance /\ RowInv /\ BufferIsTwoRows /\ EditExact

\* The entries that the loops compute are those of the table of what is left.
LEMMA Entries ==
  ASSUME TypeInv
  PROVE  /\ min_len \in Nat /\ max_len \in Nat
         /\ \A m \in 0 .. min_len : \A n \in 0 .. max_len :
               Entry(m, n) \in Nat /\ (m = 0 \/ n = 0 => Entry(m, n) = m + n)
         /\ \A m \in 1 .. min_len : \A n \in 1 .. max_len :
               Entry(m, n) = Least({Entry(m - 1, n - 1) + Cost(min_str[m], max_str[n]),
                                    Entry(m, n - 1) + 1, Entry(m - 1, n) + 1})
         /\ Entry(min_len, max_len) = Levenshtein(max_str, min_str)
<1>1. /\ min_str \in Seq(Letter) /\ max_str \in Seq(Letter)
      /\ min_len = Len(min_str) /\ max_len = Len(max_str)
      /\ min_len \in Nat /\ max_len \in Nat
  BY LenProperties DEF TypeInv, min_len, max_len
<1>2. PICK L : IsTable(L, min_str, max_str)
  BY <1>1, LevenshteinTable
<1>3. ASSUME NEW m \in 0 .. min_len, NEW n \in 0 .. max_len
      PROVE  Entry(m, n) = At(L, m, n)
  BY <1>1, <1>2, DistanceOfPrefixes DEF Entry
<1>4. ASSUME NEW m \in 0 .. min_len, NEW n \in 0 .. max_len
      PROVE  Entry(m, n) \in Nat /\ (m = 0 \/ n = 0 => Entry(m, n) = m + n)
  <2>1. At(L, m, n) \in Nat /\ (m = 0 \/ n = 0 => At(L, m, n) = m + n)
    BY <1>1, <1>2, BorderOf
  <2> QED
    BY <1>3, <2>1
<1>5. ASSUME NEW m \in 1 .. min_len, NEW n \in 1 .. max_len
      PROVE  Entry(m, n) = Least({Entry(m - 1, n - 1) + Cost(min_str[m], max_str[n]),
                                  Entry(m, n - 1) + 1, Entry(m - 1, n) + 1})
  <2>1. /\ m \in 0 .. min_len /\ n \in 0 .. max_len
        /\ m - 1 \in 0 .. min_len /\ n - 1 \in 0 .. max_len
    BY <1>1
  <2> DEFINE e == Entry(m, n)
             z == Entry(m - 1, n - 1) + Cost(min_str[m], max_str[n])
             y == Entry(m, n - 1) + 1
             x == Entry(m - 1, n) + 1
  <2>2. /\ Entry(m, n) = At(L, m, n) /\ Entry(m - 1, n - 1) = At(L, m - 1, n - 1)
        /\ Entry(m, n - 1) = At(L, m, n - 1) /\ Entry(m - 1, n) = At(L, m - 1, n)
    BY <1>3, <2>1
  <2>3. e <= x /\ e <= y /\ e <= z /\ (e = x \/ e = y \/ e = z)
    BY <1>1, <1>2, <2>2, EntryOf
  <2>4. e \in Nat /\ x \in Nat /\ y \in Nat /\ z \in Nat
    BY <1>4, <2>1 DEF Cost
  <2> HIDE DEF e, x, y, z
  <2>5. LET l == Least({z, y, x}) IN l \in Nat /\ IsLeast(l, z, y, x)
    BY <2>4, LeastOfThree
  <2>6. e = Least({z, y, x})
    BY <2>3, <2>4, <2>5 DEF IsLeast
  <2> QED
    BY <2>6 DEF e, x, y, z
<1>6. Entry(min_len, max_len) = Levenshtein(max_str, min_str)
  <2>1. min_len \in 0 .. min_len /\ max_len \in 0 .. max_len
    BY <1>1
  <2>2. Levenshtein(min_str, max_str) = At(L, min_len, max_len)
    BY <1>1, <1>2, DistanceIsLast
  <2>3. Levenshtein(min_str, max_str) = Levenshtein(max_str, min_str)
    BY <1>1, DistanceSymmetric
  <2> QED
    BY <1>3, <2>1, <2>2, <2>3
<1> QED
  BY <1>1, <1>4, <1>5, <1>6

LEMMA InitIInv == Init => IInv
<1> SUFFICES ASSUME Init PROVE IInv
  OBVIOUS
<1>1. s1 \in Seq(Letter) /\ s2 \in Seq(Letter) /\ Len(s1) \in Nat /\ Len(s2) \in Nat
  BY EditDistanceAssumption, LenProperties DEF Init
<1>2. Levenshtein(s1, s2) = Levenshtein(s2, s1)
  BY <1>1, DistanceSymmetric
<1>3. TypeInv
  BY <1>1 DEF Init, TypeInv, min_len, max_len
<1>4. CutKeepsDistance
  BY <1>2 DEF Init, CutKeepsDistance
<1> QED
  BY <1>3, <1>4 DEF Init, IInv, RowInv, BufferIsTwoRows, EditExact

LEMMA PrefixKeeps == IInv /\ SkipPrefix => IInv'
<1> SUFFICES ASSUME IInv, SkipPrefix PROVE IInv'
  OBVIOUS
<1>1. /\ s1' = s1 /\ s2' = s2 /\ pc' \in {"prefix", "suffix"}
      /\ max_str \in Seq(Letter) /\ min_str \in Seq(Letter)
      /\ Len(min_str) <= Len(max_str) /\ Len(min_str) \in Nat /\ Len(max_str) \in Nat
  BY LenProperties DEF SkipPrefix, args, IInv, TypeInv, min_len, max_len
<1>2. CASE min_str # <<>> /\ max_str[1] = min_str[1]
  <2>1. max_str' = Tail(max_str) /\ min_str' = Tail(min_str)
    BY <1>2 DEF SkipPrefix
  <2>2. Len(min_str) # 0 /\ Len(max_str) # 0
    BY <1>1, <1>2, EmptySeq
  <2>3. Levenshtein(Tail(max_str), Tail(min_str)) = Levenshtein(max_str, min_str)
    BY <1>1, <1>2, <2>2, SameFirst
  <2>4. CutKeepsDistance'
    BY <1>1, <2>1, <2>3 DEF IInv, CutKeepsDistance
  <2>5. /\ Tail(max_str) \in Seq(Letter) /\ Len(Tail(max_str)) = Len(max_str) - 1
        /\ Tail(min_str) \in Seq(Letter) /\ Len(Tail(min_str)) = Len(min_str) - 1
    BY <1>1, <2>2
  <2>6. TypeInv'
    BY <1>1, <2>1, <2>5 DEF IInv, TypeInv, min_len, max_len
  <2> QED
    BY <1>1, <2>4, <2>6 DEF IInv, RowInv, BufferIsTwoRows, EditExact
<1>3. CASE ~(min_str # <<>> /\ max_str[1] = min_str[1])
  BY <1>1, <1>3 DEF SkipPrefix, strs, IInv, TypeInv, CutKeepsDistance, RowInv,
       BufferIsTwoRows, EditExact, min_len, max_len
<1> QED
  BY <1>2, <1>3

LEMMA FrontIs ==
  ASSUME NEW S, NEW s \in Seq(S), Len(s) # 0
  PROVE  Front(s) \in Seq(S) /\ Len(Front(s)) = Len(s) - 1
<1>1. Len(s) \in Nat /\ 1 \in Int /\ Len(s) - 1 \in Int /\ \A k \in 1 .. Len(s) - 1 : s[k] \in S
  BY LenProperties
<1>2. SubSeq(s, 1, Len(s) - 1) \in Seq(S)
  BY <1>1, SubSeqProperties
<1>3. Len(SubSeq(s, 1, Len(s) - 1)) = IF 1 <= Len(s) - 1 THEN (Len(s) - 1) - 1 + 1 ELSE 0
  BY <1>1, SubSeqProperties
<1>4. PICK n \in Nat : n = Len(s) /\ n # 0
  BY <1>1
<1>5. Len(SubSeq(s, 1, n - 1)) = IF 1 <= n - 1 THEN (n - 1) - 1 + 1 ELSE 0
  BY <1>3, <1>4
<1>6. (IF 1 <= n - 1 THEN (n - 1) - 1 + 1 ELSE 0) = n - 1
  BY <1>4
<1>7. Len(SubSeq(s, 1, Len(s) - 1)) = Len(s) - 1
  BY <1>4, <1>5, <1>6
<1> QED
  BY <1>2, <1>7 DEF Front

LEMMA SuffixKeeps == IInv /\ SkipSuffix => IInv'
<1> SUFFICES ASSUME IInv, SkipSuffix PROVE IInv'
  OBVIOUS
<1>1. /\ s1' = s1 /\ s2' = s2 /\ pc' \in {"suffix", "table"}
      /\ max_str \in Seq(Letter) /\ min_str \in Seq(Letter)
      /\ Len(min_str) <= Len(max_str) /\ Len(min_str) \in Nat /\ Len(max_str) \in Nat
  BY LenProperties DEF SkipSuffix, args, IInv, TypeInv, min_len, max_len
<1>2. CASE min_str # <<>> /\ max_str[max_len] = min_str[min_len]
  <2>1. max_str' = Front(max_str) /\ min_str' = Front(min_str)
    BY <1>2 DEF SkipSuffix
  <2>2. Len(min_str) # 0 /\ Len(max_str) # 0
    BY <1>1, <1>2, EmptySeq
  <2>3. Levenshtein(Front(max_str), Front(min_str)) = Levenshtein(max_str, min_str)
    BY <1>1, <1>2, <2>2, SameLast DEF Front, max_len, min_len
  <2>4. CutKeepsDistance'
    BY <1>1, <2>1, <2>3 DEF IInv, CutKeepsDistance
  <2>5. /\ Front(max_str) \in Seq(Letter) /\ Len(Front(max_str)) = Len(max_str) - 1
        /\ Front(min_str) \in Seq(Letter) /\ Len(Front(min_str)) = Len(min_str) - 1
    BY <1>1, <2>2, FrontIs
  <2>6. TypeInv'
    BY <1>1, <2>1, <2>5 DEF IInv, TypeInv, min_len, max_len
  <2> QED
    BY <1>1, <2>4, <2>6 DEF IInv, RowInv, BufferIsTwoRows, EditExact
<1>3. CASE ~(min_str # <<>> /\ max_str[max_len] = min_str[min_len])
  BY <1>1, <1>3 DEF SkipSuffix, strs, IInv, TypeInv, CutKeepsDistance, RowInv,
       BufferIsTwoRows, EditExact, min_len, max_len
<1> QED
  BY <1>2, <1>3

\* The buffer is only made and used while the words stay as they are.
SameStrings == UNCHANGED <<s1, s2, max_str, min_str>>

LEMMA StringsKeep ==
  ASSUME IInv, SameStrings
  PROVE  /\ CutKeepsDistance' /\ min_len' = min_len /\ max_len' = max_len
         /\ \A m, n : Entry(m, n)' = Entry(m, n)
  BY DEF IInv, SameStrings, CutKeepsDistance, min_len, max_len, Entry

LEMMA ContainedKeeps == IInv /\ Contained => IInv'
<1> SUFFICES ASSUME IInv, Contained PROVE IInv'
  OBVIOUS
<1>1. /\ SameStrings /\ pc' = "done" /\ result' = max_len /\ min_str = <<>> /\ d' = d
      /\ TypeInv /\ CutKeepsDistance
  BY DEF Contained, args, strs, row, SameStrings, IInv
<1>2. CutKeepsDistance' /\ min_len' = min_len /\ max_len' = max_len
  BY <1>1, StringsKeep
<1>3. min_len = 0
  BY <1>1 DEF min_len
<1>4. max_len = Levenshtein(max_str, min_str)
  <2>1. 0 \in 0 .. min_len /\ max_len \in 0 .. max_len
    BY <1>1, <1>3, Entries
  <2>2. Entry(0, max_len) = 0 + max_len
    BY <1>1, <2>1, Entries
  <2>3. Entry(min_len, max_len) = Levenshtein(max_str, min_str) /\ max_len \in Nat
    BY <1>1, Entries
  <2> QED
    BY <1>3, <2>2, <2>3
<1>5. TypeInv'
  BY <1>1, <1>2 DEF TypeInv, SameStrings
<1>6. EditExact'
  BY <1>1, <1>4 DEF CutKeepsDistance, EditExact, SameStrings
<1> QED
  BY <1>1, <1>2, <1>5, <1>6 DEF IInv, RowInv, BufferIsTwoRows

LEMMA BufferKeeps == IInv /\ InitBuffer => IInv'
<1> SUFFICES ASSUME IInv, InitBuffer PROVE IInv'
  OBVIOUS
<1>1. /\ SameStrings /\ pc' = "row" /\ d' = [k \in 0 .. max_len |-> k] /\ i' = 0
      /\ TypeInv
  BY DEF InitBuffer, args, strs, SameStrings, IInv
<1>2. /\ CutKeepsDistance' /\ min_len' = min_len /\ max_len' = max_len
      /\ \A m, n : Entry(m, n)' = Entry(m, n)
  BY <1>1, StringsKeep
<1>3. min_len \in Nat /\ max_len \in Nat
  BY <1>1, Entries
<1>4. \A k \in 0 .. max_len : Entry(0, k) = k
  <2>1. \A m \in 0 .. min_len : \A n \in 0 .. max_len :
           Entry(m, n) \in Nat /\ (m = 0 \/ n = 0 => Entry(m, n) = m + n)
    BY <1>1, Entries
  <2>2. 0 \in 0 .. min_len
    BY <1>3
  <2> QED
    BY <1>3, <2>1, <2>2
<1>5. TypeInv'
  BY <1>1, <1>2, <1>3 DEF TypeInv, SameStrings
<1>6. RowInv'
  BY <1>1, <1>2, <1>3, <1>4 DEF RowInv
<1> QED
  BY <1>1, <1>2, <1>5, <1>6 DEF IInv, BufferIsTwoRows, EditExact

LEMMA StartRowKeeps == IInv /\ StartRow => IInv'
<1> SUFFICES ASSUME IInv, StartRow PROVE IInv'
  OBVIOUS
<1>1. /\ SameStrings /\ pc = "row" /\ pc' = "cell" /\ i < min_len
      /\ d' = [d EXCEPT ![0] = i + 1] /\ i' = i + 1 /\ j' = 1 /\ prev' = i
      /\ TypeInv
  BY DEF StartRow, args, strs, SameStrings, IInv
<1>2. /\ CutKeepsDistance' /\ min_len' = min_len /\ max_len' = max_len
      /\ \A m, n : Entry(m, n)' = Entry(m, n)
  BY <1>1, StringsKeep
<1>3. /\ min_len \in Nat /\ max_len \in Nat
      /\ i \in 0 .. min_len /\ \A k \in 0 .. max_len : d[k] = Entry(i, k)
      /\ d \in [0 .. max_len -> Int]
  BY <1>1, Entries DEF IInv, RowInv, TypeInv
<1>4. /\ i + 1 \in 1 .. min_len /\ i + 1 \in 0 .. min_len /\ 0 \in 0 .. max_len /\ i + 1 \in Int
      /\ 1 \in 1 .. max_len + 1 /\ (i + 1) - 1 = i /\ 1 - 1 = 0 /\ i \in Nat
  BY <1>1, <1>3
<1>5. Entry(i, 0) = i /\ Entry(i + 1, 0) = i + 1
  <2>1. \A m \in 0 .. min_len : \A n \in 0 .. max_len :
           Entry(m, n) \in Nat /\ (m = 0 \/ n = 0 => Entry(m, n) = m + n)
    BY <1>1, Entries
  <2> QED
    BY <1>3, <1>4, <2>1
<1>6. d'[0] = i + 1 /\ \A k \in 0 .. max_len : k # 0 => d'[k] = d[k]
  BY <1>1, <1>3, <1>4
<1>7. TypeInv'
  <2>1. d' \in [0 .. max_len -> Int]
    BY <1>1, <1>3, <1>4
  <2> QED
    BY <1>1, <1>2, <2>1 DEF TypeInv, SameStrings
<1>8. RowInv'
  BY <1>1, <1>2, <1>4 DEF RowInv
<1>9. BufferIsTwoRows'
  <2>1. ASSUME NEW k \in 0 .. max_len
        PROVE  d'[k] = IF k < 1 THEN Entry(i + 1, k) ELSE Entry(i, k)
    <3>1. CASE k = 0
      BY <1>5, <1>6, <3>1
    <3>2. CASE k # 0
      BY <1>3, <1>6, <3>2
    <3> QED
      BY <3>1, <3>2
  <2> QED
    BY <1>1, <1>2, <1>4, <1>5, <2>1 DEF BufferIsTwoRows
<1> QED
  BY <1>1, <1>2, <1>7, <1>8, <1>9 DEF IInv, EditExact

LEMMA CellKeeps == IInv /\ Cell => IInv'
<1> SUFFICES ASSUME IInv, Cell PROVE IInv'
  OBVIOUS
<1> DEFINE sub == prev + Cost(min_str[i], max_str[j])
           best == Least({sub, d[j - 1] + 1, d[j] + 1})
<1>1. /\ SameStrings /\ pc = "cell" /\ pc' = "cell" /\ j <= max_len
      /\ d' = [d EXCEPT ![j] = best] /\ i' = i /\ j' = j + 1 /\ prev' = d[j]
      /\ TypeInv
  BY DEF Cell, args, strs, SameStrings, IInv, Cost
<1>2. /\ CutKeepsDistance' /\ min_len' = min_len /\ max_len' = max_len
      /\ \A m, n : Entry(m, n)' = Entry(m, n)
  BY <1>1, StringsKeep
<1>3. /\ min_len \in Nat /\ max_len \in Nat
      /\ i \in 1 .. min_len /\ j \in 1 .. max_len + 1
      /\ d \in [0 .. max_len -> Int]
  BY <1>1, Entries DEF IInv, RowInv, TypeInv
<1>4. /\ \A k \in 0 .. max_len : d[k] = IF k < j THEN Entry(i, k) ELSE Entry(i - 1, k)
      /\ prev = Entry(i - 1, j - 1)
  BY <1>1 DEF IInv, BufferIsTwoRows
<1>5. /\ j \in 1 .. max_len /\ j \in 0 .. max_len /\ j - 1 \in 0 .. max_len /\ j - 1 < j
      /\ i \in 0 .. min_len /\ j + 1 \in 1 .. max_len + 1 /\ (j + 1) - 1 = j /\ ~(j < j)
  BY <1>1, <1>3
<1>6. d[j] = Entry(i - 1, j) /\ d[j - 1] = Entry(i, j - 1)
  BY <1>4, <1>5
<1>7. best = Entry(i, j)
  <2>1. \A m \in 1 .. min_len : \A n \in 1 .. max_len :
           Entry(m, n) = Least({Entry(m - 1, n - 1) + Cost(min_str[m], max_str[n]),
                                Entry(m, n - 1) + 1, Entry(m - 1, n) + 1})
    BY <1>1, Entries
  <2>2. Entry(i, j) = Least({Entry(i - 1, j - 1) + Cost(min_str[i], max_str[j]),
                             Entry(i, j - 1) + 1, Entry(i - 1, j) + 1})
    BY <1>3, <1>5, <2>1
  <2> QED
    BY <1>4, <1>6, <2>2
<1> HIDE DEF best
<1>8. Entry(i, j) \in Nat
  BY <1>1, <1>5, Entries
<1>9. d'[j] = best /\ \A k \in 0 .. max_len : k # j => d'[k] = d[k]
  BY <1>1, <1>3, <1>5
<1>10. TypeInv'
  <2>1. best \in Int
    BY <1>7, <1>8
  <2>2. d' \in [0 .. max_len -> Int]
    BY <1>1, <1>3, <2>1
  <2> QED
    BY <1>1, <1>2, <2>2 DEF TypeInv, SameStrings
<1>11. RowInv'
  BY <1>1, <1>2, <1>3, <1>5 DEF RowInv
<1>12. BufferIsTwoRows'
  <2>1. ASSUME NEW k \in 0 .. max_len
        PROVE  d'[k] = IF k < j + 1 THEN Entry(i, k) ELSE Entry(i - 1, k)
    <3>1. CASE k = j
      BY <1>3, <1>7, <1>9, <3>1
    <3>2. CASE k < j
      BY <1>3, <1>4, <1>9, <3>2
    <3>3. CASE k > j
      <4>1. ~(k < j) /\ ~(k < j + 1) /\ k # j
        BY <1>3, <3>3
      <4> QED
        BY <1>4, <1>9, <4>1
    <3> QED
      BY <1>3, <3>1, <3>2, <3>3
  <2>2. prev' = Entry(i - 1, (j + 1) - 1)
    BY <1>1, <1>5, <1>6
  <2> QED
    BY <1>1, <1>2, <2>1, <2>2 DEF BufferIsTwoRows
<1> QED
  BY <1>1, <1>2, <1>10, <1>11, <1>12 DEF IInv, EditExact

LEMMA EndRowKeeps == IInv /\ EndRow => IInv'
<1> SUFFICES ASSUME IInv, EndRow PROVE IInv'
  OBVIOUS
<1>1. /\ SameStrings /\ pc = "cell" /\ pc' = "row" /\ j > max_len
      /\ d' = d /\ i' = i /\ TypeInv
  BY DEF EndRow, args, strs, row, SameStrings, IInv
<1>2. /\ CutKeepsDistance' /\ min_len' = min_len /\ max_len' = max_len
      /\ \A m, n : Entry(m, n)' = Entry(m, n)
  BY <1>1, StringsKeep
<1>3. /\ min_len \in Nat /\ max_len \in Nat
      /\ i \in 1 .. min_len /\ j \in 1 .. max_len + 1
  BY <1>1, Entries DEF IInv, RowInv, TypeInv
<1>4. \A k \in 0 .. max_len : d[k] = IF k < j THEN Entry(i, k) ELSE Entry(i - 1, k)
  BY <1>1 DEF IInv, BufferIsTwoRows
<1>5. \A k \in 0 .. max_len : k < j
  BY <1>1, <1>3
<1>6. \A k \in 0 .. max_len : d[k] = Entry(i, k)
  BY <1>4, <1>5
<1>7. i \in 0 .. min_len
  BY <1>3
<1>8. RowInv'
  BY <1>1, <1>2, <1>6, <1>7 DEF RowInv
<1>9. TypeInv'
  BY <1>1, <1>2 DEF TypeInv, SameStrings
<1> QED
  BY <1>1, <1>2, <1>8, <1>9 DEF IInv, BufferIsTwoRows, EditExact

LEMMA ReturnKeeps == IInv /\ Return => IInv'
<1> SUFFICES ASSUME IInv, Return PROVE IInv'
  OBVIOUS
<1>1. /\ SameStrings /\ pc = "row" /\ pc' = "done" /\ i = min_len /\ result' = d[max_len]
      /\ TypeInv /\ CutKeepsDistance
  BY DEF Return, args, strs, row, SameStrings, IInv
<1>2. CutKeepsDistance' /\ min_len' = min_len /\ max_len' = max_len
  BY <1>1, StringsKeep
<1>3. max_len \in Nat /\ Entry(min_len, max_len) = Levenshtein(max_str, min_str)
  BY <1>1, Entries
<1>4. d[max_len] = Entry(min_len, max_len)
  BY <1>1, <1>3 DEF IInv, RowInv
<1>5. EditExact'
  BY <1>1, <1>3, <1>4 DEF CutKeepsDistance, EditExact, SameStrings
<1>6. TypeInv'
  BY <1>1, <1>2 DEF TypeInv, SameStrings
<1> QED
  BY <1>1, <1>2, <1>5, <1>6 DEF IInv, RowInv, BufferIsTwoRows

LEMMA NextKeeps == IInv /\ [Next]_vars => IInv'
<1> SUFFICES ASSUME IInv, [Next]_vars PROVE IInv'
  OBVIOUS
<1>1. CASE UNCHANGED vars
  BY <1>1 DEF vars, args, strs, row, IInv, TypeInv, CutKeepsDistance, RowInv, BufferIsTwoRows,
              EditExact, min_len, max_len, Entry
<1> QED
  BY <1>1, PrefixKeeps, SuffixKeeps, ContainedKeeps, BufferKeeps, StartRowKeeps, CellKeeps,
     EndRowKeeps, ReturnKeeps DEF Next

LEMMA Invariance == Spec => []IInv
  BY InitIInv, NextKeeps, PTL DEF Spec

----------------------------------------------------------------------------
\* Skipping the common prefix and the common suffix of two words does not change
\* their distance, whatever is left of them.
THEOREM CutKeepsDistanceHolds == Spec => []CutKeepsDistance
<1>1. IInv => CutKeepsDistance
  BY DEF IInv
<1> QED
  BY <1>1, Invariance, PTL

\* In the inner loop of edit_distance the one buffer is two rows of the matrix.
THEOREM BufferIsTwoRowsHolds == Spec => []BufferIsTwoRows
<1>1. IInv => BufferIsTwoRows
  BY DEF IInv
<1> QED
  BY <1>1, Invariance, PTL

\* edit_distance returns the edit distance, for any two words.
THEOREM EditExactHolds == Spec => []EditExact
<1>1. IInv => EditExact
  BY DEF IInv
<1> QED
  BY <1>1, Invariance, PTL

----------------------------------------------------------------------------
(***************************************************************************)
(* Both distances are metrics.                                             *)
(***************************************************************************)

\* An entry is at least the difference of its indices, and at most their sum.
LEMMA EntryBounds ==
  ASSUME NEW s, NEW t, Len(s) \in Nat, Len(t) \in Nat, NEW L, IsTable(L, s, t)
  PROVE  \A a \in 0 .. Len(s) : \A b \in 0 .. Len(t) :
            a <= b + At(L, a, b) /\ b <= a + At(L, a, b) /\ At(L, a, b) <= a + b
<1> DEFINE P == {n \in Nat : \A a \in 0 .. Len(s) : \A b \in 0 .. Len(t) :
                    a + b = n => /\ a <= b + At(L, a, b) /\ b <= a + At(L, a, b)
                                 /\ At(L, a, b) <= a + b}
<1>1. ASSUME NEW n \in Nat, \A m \in 0 .. n - 1 : m \in P PROVE n \in P
  <2> SUFFICES ASSUME NEW a \in 0 .. Len(s), NEW b \in 0 .. Len(t), a + b = n
               PROVE  /\ a <= b + At(L, a, b) /\ b <= a + At(L, a, b)
                      /\ At(L, a, b) <= a + b
    OBVIOUS
  <2>1. CASE a = 0 \/ b = 0
    <3>1. At(L, a, b) = a + b
      BY <2>1, BorderOf
    <3> QED
      BY <3>1
  <2>2. CASE ~(a = 0 \/ b = 0)
    <3>1. /\ a \in 1 .. Len(s) /\ b \in 1 .. Len(t)
          /\ a - 1 \in 0 .. Len(s) /\ b - 1 \in 0 .. Len(t)
          /\ (a - 1) + b \in 0 .. n - 1 /\ a + (b - 1) \in 0 .. n - 1
          /\ (a - 1) + (b - 1) \in 0 .. n - 1
      BY <2>2
    <3> DEFINE m == At(L, a, b)
               up == At(L, a - 1, b)
               left == At(L, a, b - 1)
               both == At(L, a - 1, b - 1)
    <3>2. m \in Nat /\ up \in Nat /\ left \in Nat /\ both \in Nat
      BY <3>1, BorderOf
    <3>3. /\ m <= up + 1 /\ m <= left + 1 /\ m <= both + Cost(s[a], t[b])
          /\ (m = up + 1 \/ m = left + 1 \/ m = both + Cost(s[a], t[b]))
      BY <3>1, EntryOf
    <3>4. a - 1 <= b + up /\ b <= (a - 1) + up /\ up <= (a - 1) + b
      BY <1>1, <3>1
    <3>5. a <= (b - 1) + left /\ b - 1 <= a + left /\ left <= a + (b - 1)
      BY <1>1, <3>1
    <3>6. a - 1 <= (b - 1) + both /\ b - 1 <= (a - 1) + both
      BY <1>1, <3>1
    <3>7. Cost(s[a], t[b]) \in {0, 1}
      BY DEF Cost
    <3> HIDE DEF m, up, left, both
    <3>8. a <= b + m /\ b <= a + m /\ m <= a + b
      BY <3>2, <3>3, <3>4, <3>5, <3>6, <3>7
    <3> QED
      BY <3>8 DEF m
  <2> QED
    BY <2>1, <2>2
<1> SUFFICES ASSUME NEW a \in 0 .. Len(s), NEW b \in 0 .. Len(t) PROVE a + b \in P
  OBVIOUS
<1> HIDE DEF P
<1>2. \A m \in Nat : m \in P
  BY <1>1, SmallerFirst
<1> QED
  BY <1>2

\* Nothing is to be changed exactly where two words agree.
LEMMA ZeroIsAgreement ==
  ASSUME NEW s, NEW t, Len(s) \in Nat, Len(t) \in Nat, NEW L, IsTable(L, s, t)
  PROVE  \A a \in 0 .. Len(s) : \A b \in 0 .. Len(t) :
            At(L, a, b) = 0 <=> a = b /\ Agree(s, t, a)
<1> DEFINE P == {a \in Nat : a \in 0 .. Len(s) => \A b \in 0 .. Len(t) :
                    At(L, a, b) = 0 <=> a = b /\ Agree(s, t, a)}
<1>1. ASSUME NEW a \in Nat, \A m \in 0 .. a - 1 : m \in P PROVE a \in P
  <2> SUFFICES ASSUME a \in 0 .. Len(s), NEW b \in 0 .. Len(t)
               PROVE  At(L, a, b) = 0 <=> a = b /\ Agree(s, t, a)
    OBVIOUS
  <2>1. CASE a = 0 \/ b = 0
    <3>1. At(L, a, b) = a + b
      BY <2>1, BorderOf
    <3>2. a = 0 => Agree(s, t, a)
      BY DEF Agree
    <3> QED
      BY <2>1, <3>1, <3>2
  <2>2. CASE ~(a = 0 \/ b = 0)
    <3>1. /\ a \in 1 .. Len(s) /\ b \in 1 .. Len(t)
          /\ a - 1 \in 0 .. Len(s) /\ b - 1 \in 0 .. Len(t) /\ a - 1 \in 0 .. a - 1
      BY <2>2
    <3> DEFINE m == At(L, a, b)
               up == At(L, a - 1, b)
               left == At(L, a, b - 1)
               both == At(L, a - 1, b - 1)
    <3>2. m \in Nat /\ up \in Nat /\ left \in Nat /\ both \in Nat
      BY <3>1, BorderOf
    <3>3. /\ m <= both + Cost(s[a], t[b])
          /\ (m = up + 1 \/ m = left + 1 \/ m = both + Cost(s[a], t[b]))
      BY <3>1, EntryOf
    <3>4. both = 0 <=> a - 1 = b - 1 /\ Agree(s, t, a - 1)
      BY <1>1, <3>1
    <3>5. a = b => (Agree(s, t, a) <=> Agree(s, t, a - 1) /\ s[a] = t[b])
      <4>1. 1 .. a = (1 .. a - 1) \cup {a}
        BY <3>1
      <4> QED
        BY <4>1 DEF Agree
    <3>6. Cost(s[a], t[b]) \in {0, 1} /\ (Cost(s[a], t[b]) = 0 <=> s[a] = t[b])
      BY DEF Cost
    <3> HIDE DEF m, up, left, both
    <3>7. m = 0 <=> both = 0 /\ Cost(s[a], t[b]) = 0
      BY <3>2, <3>3, <3>6
    <3>8. a - 1 = b - 1 <=> a = b
      BY <3>1
    <3>9. m = 0 <=> a = b /\ Agree(s, t, a)
      BY <3>4, <3>5, <3>6, <3>7, <3>8
    <3> QED
      BY <3>9 DEF m
  <2> QED
    BY <2>1, <2>2
<1> SUFFICES ASSUME NEW a \in 0 .. Len(s) PROVE a \in P
  OBVIOUS
<1> HIDE DEF P
<1>2. \A m \in Nat : m \in P
  BY <1>1, SmallerFirst
<1> QED
  BY <1>2

\* By way of a third word is never shorter.
LEMMA ByWayOf ==
  ASSUME NEW s, NEW t, NEW u, Len(s) \in Nat, Len(t) \in Nat, Len(u) \in Nat,
         NEW A, IsTable(A, s, t), NEW B, IsTable(B, t, u), NEW C, IsTable(C, s, u)
  PROVE  \A p \in 0 .. Len(s) : \A q \in 0 .. Len(t) : \A r \in 0 .. Len(u) :
            At(C, p, r) <= At(A, p, q) + At(B, q, r)
<1> DEFINE P == {n \in Nat : \A p \in 0 .. Len(s) : \A q \in 0 .. Len(t) : \A r \in 0 .. Len(u) :
                    p + q + r = n => At(C, p, r) <= At(A, p, q) + At(B, q, r)}
<1>1. ASSUME NEW n \in Nat, \A m \in 0 .. n - 1 : m \in P PROVE n \in P
  <2> SUFFICES ASSUME NEW p \in 0 .. Len(s), NEW q \in 0 .. Len(t), NEW r \in 0 .. Len(u),
                      p + q + r = n
               PROVE  At(C, p, r) <= At(A, p, q) + At(B, q, r)
    OBVIOUS
  <2>1. At(A, p, q) \in Nat /\ At(B, q, r) \in Nat /\ At(C, p, r) \in Nat
    BY BorderOf
  <2>2. p <= q + At(A, p, q) /\ r <= q + At(B, q, r) /\ At(C, p, r) <= p + r
    BY EntryBounds
  <2>3. CASE p = 0
    <3>1. At(C, p, r) = p + r /\ At(A, p, q) = p + q
      BY <2>3, BorderOf
    <3> QED
      BY <2>1, <2>2, <2>3, <3>1
  <2>4. CASE r = 0
    <3>1. At(C, p, r) = p + r /\ At(B, q, r) = q + r
      BY <2>4, BorderOf
    <3> QED
      BY <2>1, <2>2, <2>4, <3>1
  <2>5. CASE q = 0
    <3>1. At(A, p, q) = p + q /\ At(B, q, r) = q + r
      BY <2>5, BorderOf
    <3> QED
      BY <2>1, <2>2, <2>5, <3>1
  <2>6. CASE p # 0 /\ q # 0 /\ r # 0
    <3>1. /\ p \in 1 .. Len(s) /\ q \in 1 .. Len(t) /\ r \in 1 .. Len(u)
          /\ p - 1 \in 0 .. Len(s) /\ q - 1 \in 0 .. Len(t) /\ r - 1 \in 0 .. Len(u)
      BY <2>6
    <3>2. /\ (p - 1) + q + r \in 0 .. n - 1 /\ p + (q - 1) + r \in 0 .. n - 1
          /\ p + q + (r - 1) \in 0 .. n - 1 /\ (p - 1) + (q - 1) + (r - 1) \in 0 .. n - 1
      <4>1. p \in Nat /\ q \in Nat /\ r \in Nat /\ n = p + q + r
        OBVIOUS
      <4> QED
        BY <2>6, <4>1
    <3> DEFINE a == At(A, p, q)      a1 == At(A, p - 1, q)
               a2 == At(A, p, q - 1) a3 == At(A, p - 1, q - 1)
               b == At(B, q, r)      b1 == At(B, q - 1, r)
               b2 == At(B, q, r - 1) b3 == At(B, q - 1, r - 1)
               c == At(C, p, r)      c1 == At(C, p - 1, r)
               c2 == At(C, p, r - 1) c3 == At(C, p - 1, r - 1)
               x == Cost(s[p], t[q])
               y == Cost(t[q], u[r])
               z == Cost(s[p], u[r])
    <3>3. /\ a \in Nat /\ a1 \in Nat /\ a2 \in Nat /\ a3 \in Nat
          /\ b \in Nat /\ b1 \in Nat /\ b2 \in Nat /\ b3 \in Nat
          /\ c \in Nat /\ c1 \in Nat /\ c2 \in Nat /\ c3 \in Nat
      BY <3>1, BorderOf
    <3>4. a = a1 + 1 \/ a = a2 + 1 \/ a = a3 + x
      BY <3>1, EntryOf
    <3>5. b = b1 + 1 \/ b = b2 + 1 \/ b = b3 + y
      BY <3>1, EntryOf
    <3>6. c <= c1 + 1 /\ c <= c2 + 1 /\ c <= c3 + z
      BY <3>1, EntryOf
    <3>7. c1 <= a1 + b
      BY <1>1, <3>1, <3>2
    <3>8. c2 <= a + b2
      BY <1>1, <3>1, <3>2
    <3>9. c <= a2 + b1
      BY <1>1, <3>1, <3>2
    <3>10. c3 <= a3 + b3
      BY <1>1, <3>1, <3>2
    <3>11. a2 <= a + 1
      BY <2>6, OneLetterMore
    <3>12. b1 <= b + 1
      BY <2>6, OneLetterMore
    <3>13. x \in {0, 1} /\ y \in {0, 1} /\ z \in {0, 1} /\ z <= x + y
      BY DEF Cost
    <3> HIDE DEF a, a1, a2, a3, b, b1, b2, b3, c, c1, c2, c3, x, y, z
    <3>14. c <= a + b
      <4>1. CASE a = a1 + 1
        BY <3>3, <3>6, <3>7, <4>1
      <4>2. CASE a = a2 + 1
        BY <3>3, <3>9, <3>12, <4>2
      <4>3. CASE b = b1 + 1
        BY <3>3, <3>9, <3>11, <4>3
      <4>4. CASE b = b2 + 1
        BY <3>3, <3>6, <3>8, <4>4
      <4>5. CASE a = a3 + x /\ b = b3 + y
        BY <3>3, <3>6, <3>10, <3>13, <4>5
      <4> QED
        BY <3>4, <3>5, <4>1, <4>2, <4>3, <4>4, <4>5
    <3> QED
      BY <3>14 DEF a, b, c
  <2> QED
    BY <2>3, <2>4, <2>5, <2>6
<1> SUFFICES ASSUME NEW p \in 0 .. Len(s), NEW q \in 0 .. Len(t), NEW r \in 0 .. Len(u)
             PROVE  p + q + r \in P
  OBVIOUS
<1> HIDE DEF P
<1>2. \A m \in Nat : m \in P
  BY <1>1, SmallerFirst
<1> QED
  BY <1>2

\* The edit distance is a metric on words of any length: what BkTree assumes of
\* its distance, and what lets a match leave out the children of a node
\* (src/include/qs/bk_tree.hpp) the distance computed here allows.
THEOREM LevenshteinIsMetric ==
  ASSUME NEW S, NEW u \in Seq(S), NEW v \in Seq(S), NEW w \in Seq(S)
  PROVE  /\ Levenshtein(u, v) \in Nat
         /\ Levenshtein(u, v) = Levenshtein(v, u)
         /\ Levenshtein(u, v) = 0 <=> u = v
         /\ Levenshtein(u, w) <= Levenshtein(u, v) + Levenshtein(v, w)
<1>1. Len(u) \in Nat /\ Len(v) \in Nat /\ Len(w) \in Nat
  BY LenProperties
<1>2. PICK A : IsTable(A, u, v) /\ Levenshtein(u, v) = At(A, Len(u), Len(v))
  BY <1>1, LevenshteinTable
<1>3. PICK B : IsTable(B, v, w) /\ Levenshtein(v, w) = At(B, Len(v), Len(w))
  BY <1>1, LevenshteinTable
<1>4. PICK C : IsTable(C, u, w) /\ Levenshtein(u, w) = At(C, Len(u), Len(w))
  BY <1>1, LevenshteinTable
<1>5. Len(u) \in 0 .. Len(u) /\ Len(v) \in 0 .. Len(v) /\ Len(w) \in 0 .. Len(w)
  BY <1>1
<1>6. Levenshtein(u, v) \in Nat
  BY <1>2, <1>5, BorderOf
<1>7. Levenshtein(u, v) = Levenshtein(v, u)
  BY <1>1, DistanceSymmetric
<1>8. Levenshtein(u, v) = 0 <=> u = v
  <2>1. At(A, Len(u), Len(v)) = 0 <=> Len(u) = Len(v) /\ Agree(u, v, Len(u))
    BY <1>1, <1>2, <1>5, ZeroIsAgreement
  <2>2. ASSUME Len(u) = Len(v), Agree(u, v, Len(u)) PROVE u = v
    BY <2>2, SeqEqual DEF Agree
  <2>3. u = v => Agree(u, v, Len(u))
    BY DEF Agree
  <2> QED
    BY <1>2, <2>1, <2>2, <2>3
<1>9. At(C, Len(u), Len(w)) <= At(A, Len(u), Len(v)) + At(B, Len(v), Len(w))
  BY <1>1, <1>2, <1>3, <1>4, <1>5, ByWayOf
<1> QED
  BY <1>2, <1>3, <1>4, <1>6, <1>7, <1>8, <1>9

\* The number of differing places is a metric on the words of one length, which
\* are what each of the trees by Hamming distance holds
\* (src/src/core.cpp, hamming_bk_trees).
THEOREM HammingIsMetric ==
  ASSUME NEW S, NEW n \in Nat,
         NEW u \in [1 .. n -> S], NEW v \in [1 .. n -> S], NEW w \in [1 .. n -> S]
  PROVE  /\ Hamming(u, v) \in Nat
         /\ Hamming(u, v) = Hamming(v, u)
         /\ Hamming(u, v) = 0 <=> u = v
         /\ Hamming(u, w) <= Hamming(u, v) + Hamming(v, w)
<1> DEFINE Differ(s, t) == {k \in DOMAIN s : s[k] # t[k]}
<1>1. IsFiniteSet(1 .. n)
  BY FS_Interval
<1>2. /\ IsFiniteSet(Differ(u, v)) /\ IsFiniteSet(Differ(v, w)) /\ IsFiniteSet(Differ(u, w))
  <2>1. Differ(u, v) \subseteq 1 .. n /\ Differ(v, w) \subseteq 1 .. n /\ Differ(u, w) \subseteq 1 .. n
    OBVIOUS
  <2> QED
    BY <1>1, <2>1, FS_Subset
<1>3. Hamming(u, v) \in Nat /\ Hamming(v, w) \in Nat /\ Hamming(u, w) \in Nat
  BY <1>2, FS_CardinalityType DEF Hamming
<1>4. Hamming(u, v) = Hamming(v, u)
  <2>1. Differ(u, v) = Differ(v, u)
    OBVIOUS
  <2> QED
    BY <2>1 DEF Hamming
<1>5. Hamming(u, v) = 0 <=> u = v
  <2>1. Differ(u, v) = {} <=> u = v
    OBVIOUS
  <2> QED
    BY <1>2, <2>1, FS_EmptySet DEF Hamming
<1>6. Hamming(u, w) <= Hamming(u, v) + Hamming(v, w)
  <2> DEFINE both == Differ(u, v) \cup Differ(v, w)
  <2>1. Differ(u, w) \subseteq both
    OBVIOUS
  <2>2. IsFiniteSet(both) /\ IsFiniteSet(Differ(u, v) \cap Differ(v, w))
    BY <1>2, FS_Union, FS_Intersection
  <2>3. Cardinality(Differ(u, w)) <= Cardinality(both)
    BY <2>1, <2>2, FS_Subset
  <2>4. Cardinality(both)
          = Cardinality(Differ(u, v)) + Cardinality(Differ(v, w))
            - Cardinality(Differ(u, v) \cap Differ(v, w))
    BY <1>2, FS_Union
  <2>5. Cardinality(Differ(u, v) \cap Differ(v, w)) \in Nat
    BY <2>2, FS_CardinalityType
  <2>6. /\ Hamming(u, w) = Cardinality(Differ(u, w))
        /\ Hamming(u, v) = Cardinality(Differ(u, v))
        /\ Hamming(v, w) = Cardinality(Differ(v, w))
    BY DEF Hamming
  <2>7. Cardinality(both) \in Nat
    BY <2>2, FS_CardinalityType
  <2> HIDE DEF both, Differ
  <2> QED
    BY <1>3, <2>3, <2>4, <2>5, <2>6, <2>7
<1> QED
  BY <1>3, <1>4, <1>5, <1>6

=============================================================================
