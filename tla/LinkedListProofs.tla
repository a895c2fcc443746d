-------------------------- MODULE LinkedListProofs --------------------------
(***************************************************************************)
(* What is proved of LinkedList and of the strings in it, for any finite   *)
(* number of nodes and any lists, variables, buffers and texts: pointers   *)
(* agree, buffers have one owner, a walk misses nothing, what leaks, and   *)
(* that the lists of nodes implement lists of values.                      *)
(*                                                                         *)
(* The invariant says that there is a sequence of nodes for each list, its *)
(* path, which the pointers follow in both directions.                     *)
(***************************************************************************)
EXTENDS LinkedList, FiniteSetTheorems, SequenceTheorems, WellFoundedInduction, TLAPS

\* A set of numbers that has every number of which it has all smaller ones has
\* them all.
LEMMA SmallerFirst ==
  ASSUME NEW P, \A n \in Nat : (\A m \in 0 .. n - 1 : m \in P) => n \in P
  PROVE  \A n \in Nat : n \in P
<1> DEFINE N == {n \in Nat : n \notin P}
<1>1. IsWellFoundedOn(OpToRel(<, Nat), Nat)
  BY NatLessThanWellFounded
<1>2. ASSUME N # {} PROVE FALSE
  <2>1. PICK x \in N : \A y \in N : <<y, x>> \notin OpToRel(<, Nat)
    BY <1>1, <1>2, WFMin
  <2>2. OpToRel(<, Nat) = {ss \in Nat \X Nat : ss[1] < ss[2]}
    BY DEF OpToRel
  <2>3. ASSUME NEW y \in 0 .. x - 1 PROVE y \in P
    <3>1. y \in Nat /\ x \in Nat /\ y < x
      OBVIOUS
    <3>2. <<y, x>> \in {ss \in Nat \X Nat : ss[1] < ss[2]}
      BY <3>1
    <3> QED
      BY <2>1, <2>2, <3>1, <3>2
  <2> QED
    BY <2>1, <2>3
<1> QED
  BY <1>2

----------------------------------------------------------------------------
(* Sequences.                                                              *)

LEMMA InsertAtIs ==
  ASSUME NEW s, NEW p, NEW e
  PROVE  InsertAt(s, p, e) = (SubSeq(s, 1, p - 1) \o <<e>>) \o SubSeq(s, p, Len(s))
BY DEF InsertAt

\* A sequence with e inserted after place p.
LEMMA InsertedAfter ==
  ASSUME NEW S, NEW s \in Seq(S), NEW p \in 0 .. Len(s), NEW e \in S
  PROVE  /\ InsertAt(s, p + 1, e) \in Seq(S)
         /\ Len(InsertAt(s, p + 1, e)) = Len(s) + 1
         /\ \A q \in 1 .. Len(s) + 1 :
              InsertAt(s, p + 1, e)[q] = IF q <= p THEN s[q] ELSE IF q = p + 1 THEN e ELSE s[q - 1]
<1> DEFINE a == SubSeq(s, 1, p)
           b == SubSeq(s, p + 1, Len(s))
           c == a \o <<e>>
           t == InsertAt(s, p + 1, e)
<1>1. a \in Seq(S) /\ Len(a) = p /\ \A i \in 1 .. p : a[i] = s[i]
  OBVIOUS
<1>2. b \in Seq(S) /\ Len(b) = Len(s) - p /\ \A i \in 1 .. Len(s) - p : b[i] = s[p + i]
  OBVIOUS
<1>3. t = c \o b
  <2>1. PICK r \in Nat : r = p + 1 /\ r - 1 = p
    OBVIOUS
  <2>2. InsertAt(s, r, e) = (SubSeq(s, 1, r - 1) \o <<e>>) \o SubSeq(s, r, Len(s))
    BY InsertAtIs
  <2> QED
    BY <2>1, <2>2
<1> HIDE DEF a, b, t
<1>4. c \in Seq(S) /\ Len(c) = p + 1 /\ \A i \in 1 .. p + 1 : c[i] = IF i <= p THEN s[i] ELSE e
  BY <1>1
<1> HIDE DEF c
<1>5. Len(c) + Len(b) = Len(s) + 1
  BY <1>2, <1>4
<1>6. c \o b \in Seq(S) /\ Len(c \o b) = Len(s) + 1
  BY <1>2, <1>4, <1>5, ConcatProperties
<1>7. ASSUME NEW q \in 1 .. Len(s) + 1
      PROVE  (c \o b)[q] = IF q <= p THEN s[q] ELSE IF q = p + 1 THEN e ELSE s[q - 1]
  <2> q \in 1 .. Len(c) + Len(b)
    BY <1>5
  <2>1. (c \o b)[q] = IF q <= Len(c) THEN c[q] ELSE b[q - Len(c)]
    BY <1>2, <1>4, ConcatProperties
  <2>2. CASE q <= p + 1
    BY <1>4, <2>1, <2>2
  <2>3. CASE q > p + 1
    <3>1. /\ q - (p + 1) \in 1 .. Len(s) - p
          /\ p + (q - (p + 1)) = q - 1
          /\ q - Len(c) = q - (p + 1)
      BY <1>4, <2>3
    <3>2. b[q - (p + 1)] = s[q - 1]
      BY <1>2, <3>1
    <3> QED
      BY <1>4, <2>1, <2>3, <3>1, <3>2
  <2>4. p \in Nat /\ q \in Nat
    OBVIOUS
  <2>5. q <= p + 1 \/ q > p + 1
    BY <2>4
  <2> QED
    BY <2>2, <2>3, <2>5
<1>8. /\ t \in Seq(S)
      /\ Len(t) = Len(s) + 1
      /\ \A q \in 1 .. Len(s) + 1 : t[q] = IF q <= p THEN s[q] ELSE IF q = p + 1 THEN e ELSE s[q - 1]
  BY <1>3, <1>6, <1>7
<1> QED
  BY <1>8, Zenon DEF t

\* A sequence without what is at place p.
LEMMA RemovedFrom ==
  ASSUME NEW S, NEW s \in Seq(S), NEW p \in 1 .. Len(s)
  PROVE  /\ RemoveAt(s, p) \in Seq(S)
         /\ Len(RemoveAt(s, p)) = Len(s) - 1
         /\ \A q \in 1 .. Len(s) - 1 : RemoveAt(s, p)[q] = IF q < p THEN s[q] ELSE s[q + 1]
<1> DEFINE a == SubSeq(s, 1, p - 1)
           b == SubSeq(s, p + 1, Len(s))
           t == RemoveAt(s, p)
<1>1. a \in Seq(S) /\ Len(a) = p - 1 /\ \A i \in 1 .. p - 1 : a[i] = s[i]
  OBVIOUS
<1>2. b \in Seq(S) /\ Len(b) = Len(s) - p /\ \A i \in 1 .. Len(s) - p : b[i] = s[p + i]
  OBVIOUS
<1>3. t = a \o b
  BY DEF RemoveAt
<1> HIDE DEF a, b, t
<1>4. p \in Nat /\ Len(s) \in Nat /\ Len(a) + Len(b) = Len(s) - 1
  BY <1>1, <1>2
<1>5. a \o b \in Seq(S) /\ Len(a \o b) = Len(s) - 1
  BY <1>1, <1>2, <1>4, ConcatProperties
<1>6. ASSUME NEW q \in 1 .. Len(s) - 1
      PROVE  (a \o b)[q] = IF q < p THEN s[q] ELSE s[q + 1]
  <2> q \in 1 .. Len(a) + Len(b)
    BY <1>4
  <2>1. (a \o b)[q] = IF q <= Len(a) THEN a[q] ELSE b[q - Len(a)]
    BY <1>1, <1>2, ConcatProperties
  <2>2. CASE q < p
    BY <1>1, <1>4, <2>1, <2>2
  <2>3. CASE ~(q < p)
    <3>1. /\ q - (p - 1) \in 1 .. Len(s) - p
          /\ p + (q - (p - 1)) = q + 1
          /\ ~(q <= p - 1)
      BY <1>4, <2>3
    <3>2. b[q - (p - 1)] = s[q + 1]
      BY <1>2, <3>1
    <3> QED
      BY <1>1, <2>1, <2>3, <3>1, <3>2
  <2> QED
    BY <2>2, <2>3
<1>7. /\ t \in Seq(S)
      /\ Len(t) = Len(s) - 1
      /\ \A q \in 1 .. Len(s) - 1 : t[q] = IF q < p THEN s[q] ELSE s[q + 1]
  BY <1>3, <1>5, <1>6
<1> QED
  BY <1>7, Zenon DEF t

----------------------------------------------------------------------------
(* Paths.                                                                  *)

\* The nodes of s, each once, are linked one to the next in both directions.
Path(nx, pv, s) ==
  /\ s \in Seq(Node)
  /\ \A i, j \in 1 .. Len(s) : s[i] = s[j] => i = j
  /\ \A i \in 1 .. Len(s) : /\ nx[s[i]] = IF i = Len(s) THEN NULL ELSE s[i + 1]
                            /\ pv[s[i]] = IF i = 1 THEN NULL ELSE s[i - 1]

FirstOf(s) == IF s = <<>> THEN NULL ELSE s[1]
LastOf(s) == IF s = <<>> THEN NULL ELSE s[Len(s)]

\* The recursion in Chain has a solution.
ChainArgs == (Node \cup {NULL}) \X (0 .. Cardinality(Node))
Onward(f, step, p) ==
  IF p[1] = NULL THEN <<>>
  ELSE <<p[1]>> \o IF p[2] = 0 THEN <<>> ELSE f[<<step[p[1]], p[2] - 1>>]

LEMMA NodesFinite == Cardinality(Node) \in Nat
  BY LinkedListAssumption, FS_CardinalityType

LEMMA ChainSolved ==
  ASSUME NEW step \in [Node -> Node \cup {NULL}]
  PROVE  \E f : f = [p \in ChainArgs |-> Onward(f, step, p)]
<1> DEFINE N == Cardinality(Node)
           Solved(n) == \E g : \A p \in ChainArgs : p[2] < n => g[p] = Onward(g, step, p)
           P == {n \in Nat : Solved(n)}
<1>1. N \in Nat
  BY NodesFinite
<1>2. \A p \in ChainArgs : /\ p = <<p[1], p[2]>> /\ p[1] \in Node \cup {NULL}
                           /\ p[2] \in Nat /\ p[2] <= N
  BY <1>1 DEF ChainArgs
<1>3. ASSUME NEW p \in ChainArgs, p[1] # NULL, p[2] # 0
      PROVE  /\ <<step[p[1]], p[2] - 1>> \in ChainArgs
             /\ <<step[p[1]], p[2] - 1>>[2] = p[2] - 1
  <2>1. p[1] \in Node /\ p[2] - 1 \in 0 .. N
    BY <1>1, <1>2, <1>3
  <2> QED
    BY <2>1 DEF ChainArgs
<1>4. Solved(0)
  BY <1>2
<1>5. ASSUME NEW n \in Nat, Solved(n) PROVE Solved(n + 1)
  <2>1. PICK g : \A p \in ChainArgs : p[2] < n => g[p] = Onward(g, step, p)
    BY <1>5
  <2> DEFINE h == [p \in ChainArgs |-> IF p[2] = n THEN Onward(g, step, p) ELSE g[p]]
  <2>2. ASSUME NEW p \in ChainArgs, p[2] < n + 1 PROVE h[p] = Onward(h, step, p)
    <3>1. p[2] \in Nat /\ n \in Nat
      BY <1>2
    <3>2. Onward(h, step, p) = Onward(g, step, p)
      <4>1. CASE p[1] = NULL \/ p[2] = 0
        BY <4>1 DEF Onward
      <4>2. CASE ~(p[1] = NULL \/ p[2] = 0)
        <5>1. PICK r \in ChainArgs : r = <<step[p[1]], p[2] - 1>> /\ r[2] = p[2] - 1
          BY <1>3, <4>2
        <5>2. r[2] # n
          BY <2>2, <3>1, <5>1
        <5>3. h[r] = g[r]
          BY <5>2
        <5> HIDE DEF h
        <5> QED
          BY <5>1, <5>3 DEF Onward
      <4> QED
        BY <4>1, <4>2
    <3>3. CASE p[2] = n
      BY <3>2, <3>3
    <3>4. CASE p[2] # n
      <4>1. p[2] < n
        BY <2>2, <3>1, <3>4
      <4> QED
        BY <2>1, <3>2, <3>4, <4>1
    <3> QED
      BY <3>3, <3>4
  <2> HIDE DEF h
  <2> QED
    BY <2>2
<1> HIDE DEF Solved
<1>6. ASSUME NEW n \in Nat, \A m \in 0 .. n - 1 : m \in P PROVE n \in P
  <2>1. CASE n = 0
    BY <1>4, <2>1
  <2>2. CASE n # 0
    <3>1. n - 1 \in Nat /\ n - 1 \in 0 .. n - 1 /\ n = (n - 1) + 1
      BY <2>2
    <3>2. Solved(n - 1)
      BY <1>6, <3>1
    <3> QED
      BY <1>5, <3>1, <3>2
  <2> QED
    BY <2>1, <2>2
<1>7. Solved(N + 1)
  <2> HIDE DEF P
  <2>1. \A n \in Nat : n \in P
    BY <1>6, SmallerFirst
  <2>2. N + 1 \in Nat
    BY <1>1
  <2> QED
    BY <2>1, <2>2 DEF P
<1>8. PICK g : \A p \in ChainArgs : p[2] < N + 1 => g[p] = Onward(g, step, p)
  BY <1>7 DEF Solved
<1> DEFINE h == [p \in ChainArgs |-> g[p]]
<1>9. ASSUME NEW p \in ChainArgs PROVE h[p] = Onward(h, step, p)
  <2>1. h[p] = Onward(g, step, p)
    <3>1. p[2] < N + 1
      BY <1>1, <1>2
    <3> QED
      BY <1>8, <3>1
  <2>2. CASE p[1] = NULL \/ p[2] = 0
    BY <2>1, <2>2 DEF Onward
  <2>3. CASE ~(p[1] = NULL \/ p[2] = 0)
    <3>1. PICK r \in ChainArgs : r = <<step[p[1]], p[2] - 1>>
      BY <1>3, <2>3
    <3>2. h[r] = g[r]
      OBVIOUS
    <3> HIDE DEF h
    <3> QED
      BY <2>1, <3>1, <3>2 DEF Onward
  <2> QED
    BY <2>2, <2>3
<1>10. h = [p \in ChainArgs |-> h[p]]
  OBVIOUS
<1> HIDE DEF h
<1>11. h = [p \in ChainArgs |-> Onward(h, step, p)]
  BY <1>9, <1>10
<1> QED
  BY <1>11

\* The chain from the first node of a sequence that step follows is that sequence.
Follows(step, s) ==
  \A i \in 1 .. Len(s) : step[s[i]] = IF i = Len(s) THEN NULL ELSE s[i + 1]

LEMMA ChainIs ==
  ASSUME NEW step \in [Node -> Node \cup {NULL}], NEW s \in Seq(Node), Follows(step, s),
         \A i, j \in 1 .. Len(s) : s[i] = s[j] => i = j
  PROVE  Chain(step, FirstOf(s)) = s
<1> DEFINE N == Cardinality(Node)
           f == CHOOSE g : g = [p \in ChainArgs |-> Onward(g, step, p)]
<1>1. N \in Nat /\ NULL \notin Node /\ Len(s) \in Nat
  BY NodesFinite, LinkedListAssumption
<1>2. f = [p \in ChainArgs |-> Onward(f, step, p)]
  BY ChainSolved
<1>3. \A n : Chain(step, n) = f[<<n, N>>]
  BY DEF Chain, Onward, ChainArgs
<1> HIDE DEF f
<1>4. ASSUME NEW k \in 0 .. N PROVE f[<<NULL, k>>] = <<>>
  <2>1. PICK p \in ChainArgs : p = <<NULL, k>>
    BY DEF ChainArgs
  <2>2. f[p] = Onward(f, step, p)
    BY <1>2, Zenon
  <2> QED
    BY <2>1, <2>2 DEF Onward
<1>5. ASSUME NEW m \in Node, NEW k \in 0 .. N
      PROVE  f[<<m, k>>] = <<m>> \o IF k = 0 THEN <<>> ELSE f[<<step[m], k - 1>>]
  <2>1. PICK p \in ChainArgs : p = <<m, k>>
    BY DEF ChainArgs
  <2>2. f[p] = Onward(f, step, p)
    BY <1>2, Zenon
  <2>3. m # NULL
    BY <1>1
  <2> QED
    BY <2>1, <2>2, <2>3 DEF Onward
<1>6. Len(s) <= N
  <2>1. s \in Injection(1 .. Len(s), Node)
    BY DEF Injection, IsInjective
  <2>2. PICK n \in Nat : n = Len(s)
    BY <1>1
  <2>3. IsFiniteSet(1 .. n) /\ Cardinality(1 .. n) = n
    BY FS_Interval
  <2> QED
    BY <2>1, <2>2, <2>3, LinkedListAssumption, FS_Injection
<1> DEFINE Rest(i) == SubSeq(s, i, Len(s))
           P == {j \in Nat : \A i \in 1 .. Len(s) : \A k \in 0 .. N :
                                Len(s) - i = j /\ k >= j => f[<<s[i], k>>] = Rest(i)}
<1>7. ASSUME NEW i \in 1 .. Len(s) PROVE <<s[i]>> \o Rest(i + 1) = Rest(i)
  <2>1. PICK n \in Nat : n = Len(s)
    BY <1>1
  <2>2. n \in i .. Len(s)
    BY <2>1
  <2>3. SubSeq(s, i, n) = <<s[i]>> \o SubSeq(s, i + 1, n)
    BY <2>2, SubSeqRecursiveFirst
  <2> QED
    BY <2>1, <2>3
<1>8. Rest(Len(s) + 1) = <<>>
  <2>1. PICK n \in Int : n = Len(s) /\ n + 1 \in Int /\ n < n + 1
    BY <1>1
  <2>2. SubSeq(s, n + 1, n) = <<>>
    BY <2>1, SubSeqEmpty
  <2> QED
    BY <2>1, <2>2
<1> HIDE DEF Rest
<1>9. ASSUME NEW j \in Nat, \A m \in 0 .. j - 1 : m \in P PROVE j \in P
  <2> SUFFICES ASSUME NEW i \in 1 .. Len(s), NEW k \in 0 .. N, Len(s) - i = j, k >= j
               PROVE  f[<<s[i], k>>] = Rest(i)
    OBVIOUS
  <2>1. s[i] \in Node
    OBVIOUS
  <2>2. f[<<s[i], k>>] = <<s[i]>> \o IF k = 0 THEN <<>> ELSE f[<<step[s[i]], k - 1>>]
    BY <1>5, <2>1
  <2>3. CASE i = Len(s)
    <3>1. step[s[i]] = NULL
      BY <2>3 DEF Follows
    <3>2. k # 0 => k - 1 \in 0 .. N
      BY <1>1
    <3>3. k # 0 => f[<<step[s[i]], k - 1>>] = <<>>
      BY <1>4, <3>1, <3>2
    <3>4. <<s[i]>> \o <<>> = Rest(i)
      BY <1>7, <1>8, <2>3
    <3> QED
      BY <2>2, <3>3, <3>4
  <2>4. CASE i # Len(s)
    <3>1. PICK n \in 1 .. Len(s) : n = i + 1 /\ i \in 1 .. Len(s) - 1
      BY <1>1, <2>4
    <3>2. step[s[i]] = s[n]
      BY <2>4, <3>1 DEF Follows
    <3>3. j - 1 \in 0 .. j - 1 /\ Len(s) - n = j - 1 /\ k - 1 >= j - 1 /\ k - 1 \in 0 .. N /\ k # 0
      BY <1>1, <2>4, <3>1
    <3>4. f[<<s[n], k - 1>>] = Rest(n)
      BY <1>9, <3>1, <3>3
    <3>5. <<s[i]>> \o Rest(n) = Rest(i)
      BY <1>7, <3>1
    <3> QED
      BY <2>2, <3>2, <3>3, <3>4, <3>5
  <2> QED
    BY <2>3, <2>4
<1>10. \A j \in Nat : j \in P
  <2> HIDE DEF P
  <2> QED
    BY <1>9, SmallerFirst
<1>11. CASE s = <<>>
  <2>1. f[<<NULL, N>>] = <<>>
    BY <1>1, <1>4
  <2> QED
    BY <1>3, <1>11, <2>1 DEF FirstOf
<1>12. CASE s # <<>>
  <2>1. 1 \in 1 .. Len(s) /\ N \in 0 .. N /\ Len(s) - 1 \in Nat /\ N >= Len(s) - 1
    BY <1>1, <1>6, <1>12, EmptySeq
  <2>2. f[<<s[1], N>>] = Rest(1)
    BY <1>10, <2>1
  <2>3. Rest(1) = s
    BY <1>1 DEF Rest
  <2> QED
    BY <1>3, <1>12, <2>2, <2>3 DEF FirstOf
<1> QED
  BY <1>11, <1>12

----------------------------------------------------------------------------
(* What an insertion and a removal do to a path.                           *)

\* Two nodes of a path, in this order.
Before(s, x, y) == \E a, b \in 1 .. Len(s) : a < b /\ s[a] = x /\ s[b] = y

LEMMA RangeIs ==
  ASSUME NEW S, NEW s \in Seq(S)
  PROVE  /\ Range(s) = {s[i] : i \in 1 .. Len(s)}
         /\ Len(s) \in Nat
BY DEF Range

LEMMA InsertedRange ==
  ASSUME NEW S, NEW s \in Seq(S), NEW p \in 0 .. Len(s), NEW e \in S
  PROVE  Range(InsertAt(s, p + 1, e)) = Range(s) \cup {e}
<1> DEFINE t == InsertAt(s, p + 1, e)
<1>1. /\ t \in Seq(S) /\ Len(t) = Len(s) + 1
      /\ \A q \in 1 .. Len(s) + 1 : t[q] = IF q <= p THEN s[q] ELSE IF q = p + 1 THEN e ELSE s[q - 1]
  BY InsertedAfter
<1> HIDE DEF t
<1>2. /\ Range(s) = {s[i] : i \in 1 .. Len(s)} /\ Len(s) \in Nat
      /\ Range(t) = {t[i] : i \in 1 .. Len(s) + 1}
  BY <1>1, RangeIs
<1>3. ASSUME NEW q \in 1 .. Len(s) + 1 PROVE t[q] \in Range(s) \cup {e}
  <2>1. q > p + 1 => q - 1 \in 1 .. Len(s)
    BY <1>2
  <2>2. q <= p => q \in 1 .. Len(s)
    BY <1>2
  <2>3. q <= p \/ q = p + 1 \/ q > p + 1
    BY <1>2
  <2> QED
    BY <1>1, <1>2, <2>1, <2>2, <2>3
<1>4. ASSUME NEW i \in 1 .. Len(s) PROVE s[i] \in Range(t)
  <2>1. CASE i <= p
    <3>1. i \in 1 .. Len(s) + 1
      BY <1>2
    <3> QED
      BY <1>1, <1>2, <2>1, <3>1
  <2>2. CASE i > p
    <3>1. /\ i + 1 \in 1 .. Len(s) + 1 /\ ~(i + 1 <= p) /\ i + 1 # p + 1
          /\ (i + 1) - 1 = i
      BY <1>2, <2>2
    <3>2. t[i + 1] = s[i]
      BY <1>1, <3>1
    <3> QED
      BY <1>2, <3>1, <3>2
  <2> QED
    BY <1>2, <2>1, <2>2
<1>5. e \in Range(t)
  <2>1. p + 1 \in 1 .. Len(s) + 1 /\ ~(p + 1 <= p)
    BY <1>2
  <2> QED
    BY <1>1, <1>2, <2>1
<1>6. Range(t) = Range(s) \cup {e}
  BY <1>2, <1>3, <1>4, <1>5
<1> QED
  BY <1>6 DEF t

LEMMA RemovedRange ==
  ASSUME NEW S, NEW s \in Seq(S), NEW p \in 1 .. Len(s),
         \A i, j \in 1 .. Len(s) : s[i] = s[j] => i = j
  PROVE  Range(RemoveAt(s, p)) = Range(s) \ {s[p]}
<1> DEFINE t == RemoveAt(s, p)
<1>1. /\ t \in Seq(S) /\ Len(t) = Len(s) - 1
      /\ \A q \in 1 .. Len(s) - 1 : t[q] = IF q < p THEN s[q] ELSE s[q + 1]
  BY RemovedFrom
<1> HIDE DEF t
<1>2. /\ Range(s) = {s[i] : i \in 1 .. Len(s)} /\ Len(s) \in Nat
      /\ Range(t) = {t[i] : i \in 1 .. Len(s) - 1}
  BY <1>1, RangeIs
<1>3. ASSUME NEW q \in 1 .. Len(s) - 1 PROVE t[q] \in Range(s) \ {s[p]}
  <2>1. PICK i \in 1 .. Len(s) : i = (IF q < p THEN q ELSE q + 1) /\ i # p
    BY <1>2
  <2> QED
    BY <1>1, <1>2, <2>1
<1>4. ASSUME NEW i \in 1 .. Len(s), i # p PROVE s[i] \in Range(t)
  <2>1. CASE i < p
    <3>1. i \in 1 .. Len(s) - 1
      BY <1>2, <2>1
    <3> QED
      BY <1>1, <1>2, <2>1, <3>1
  <2>2. CASE i > p
    <3>1. i - 1 \in 1 .. Len(s) - 1 /\ ~(i - 1 < p) /\ (i - 1) + 1 = i
      BY <1>2, <2>2
    <3>2. t[i - 1] = s[i]
      BY <1>1, <3>1
    <3> QED
      BY <1>2, <3>1, <3>2
  <2> QED
    BY <1>2, <1>4, <2>1, <2>2
<1>5. Range(t) = Range(s) \ {s[p]}
  <2>1. ASSUME NEW x \in Range(t) PROVE x \in Range(s) \ {s[p]}
    BY <1>2, <1>3
  <2>2. ASSUME NEW x \in Range(s) \ {s[p]} PROVE x \in Range(t)
    BY <1>2, <1>4
  <2> HIDE DEF t
  <2> QED
    BY <2>1, <2>2
<1> QED
  BY <1>5 DEF t

LEMMA InsertedBefore ==
  ASSUME NEW S, NEW s \in Seq(S), NEW p \in 0 .. Len(s), NEW e \in S, NEW x, NEW y,
         Before(s, x, y)
  PROVE  Before(InsertAt(s, p + 1, e), x, y)
<1> DEFINE t == InsertAt(s, p + 1, e)
<1>1. /\ Len(t) = Len(s) + 1
      /\ \A q \in 1 .. Len(s) + 1 : t[q] = IF q <= p THEN s[q] ELSE IF q = p + 1 THEN e ELSE s[q - 1]
  BY InsertedAfter
<1> HIDE DEF t
<1>2. Len(s) \in Nat
  OBVIOUS
<1>3. PICK a, b \in 1 .. Len(s) : a < b /\ s[a] = x /\ s[b] = y
  BY DEF Before
<1>4. PICK c \in 1 .. Len(s) + 1 : c = IF a <= p THEN a ELSE a + 1
  BY <1>2
<1>5. PICK d \in 1 .. Len(s) + 1 : d = IF b <= p THEN b ELSE b + 1
  BY <1>2
<1>6. t[c] = s[a]
  BY <1>1, <1>2, <1>4
<1>7. t[d] = s[b]
  BY <1>1, <1>2, <1>5
<1>8. c < d
  BY <1>2, <1>3, <1>4, <1>5
<1>9. Before(t, x, y)
  BY <1>1, <1>3, <1>6, <1>7, <1>8 DEF Before
<1> QED
  BY <1>9 DEF t

LEMMA RemovedBefore ==
  ASSUME NEW S, NEW s \in Seq(S), NEW p \in 1 .. Len(s), NEW x, NEW y,
         Before(s, x, y), x # s[p], y # s[p]
  PROVE  Before(RemoveAt(s, p), x, y)
<1> DEFINE t == RemoveAt(s, p)
<1>1. /\ Len(t) = Len(s) - 1
      /\ \A q \in 1 .. Len(s) - 1 : t[q] = IF q < p THEN s[q] ELSE s[q + 1]
  BY RemovedFrom
<1> HIDE DEF t
<1>2. Len(s) \in Nat
  OBVIOUS
<1>3. PICK a, b \in 1 .. Len(s) : a < b /\ s[a] = x /\ s[b] = y
  BY DEF Before
<1>4. a # p /\ b # p
  BY <1>3
<1>5. PICK c \in 1 .. Len(s) - 1 : c = IF a < p THEN a ELSE a - 1
  BY <1>2, <1>4
<1>6. PICK d \in 1 .. Len(s) - 1 : d = IF b < p THEN b ELSE b - 1
  BY <1>2, <1>4
<1>7. t[c] = s[a]
  BY <1>1, <1>2, <1>4, <1>5
<1>8. t[d] = s[b]
  BY <1>1, <1>2, <1>4, <1>6
<1>9. c < d
  BY <1>2, <1>3, <1>4, <1>5, <1>6
<1>10. Before(t, x, y)
  BY <1>1, <1>3, <1>7, <1>8, <1>9 DEF Before
<1> QED
  BY <1>10 DEF t

\* nx2 and pv2 are the pointers after n was linked in after place p of s.
LinkedIn(nx, pv, nx2, pv2, s, p, n) ==
  /\ nx2[n] = IF p = Len(s) THEN NULL ELSE s[p + 1]
  /\ pv2[n] = IF p = 0 THEN NULL ELSE s[p]
  /\ \A i \in 1 .. Len(s) : /\ nx2[s[i]] = IF i = p THEN n ELSE nx[s[i]]
                            /\ pv2[s[i]] = IF i = p + 1 THEN n ELSE pv[s[i]]

LEMMA InsertedPath ==
  ASSUME NEW nx, NEW pv, NEW nx2, NEW pv2, NEW s, Path(nx, pv, s),
         NEW p \in 0 .. Len(s), NEW n \in Node, n \notin Range(s),
         LinkedIn(nx, pv, nx2, pv2, s, p, n)
  PROVE  Path(nx2, pv2, InsertAt(s, p + 1, n))
<1> DEFINE t == InsertAt(s, p + 1, n)
<1>1. /\ s \in Seq(Node)
      /\ \A i, j \in 1 .. Len(s) : s[i] = s[j] => i = j
      /\ \A i \in 1 .. Len(s) : /\ nx[s[i]] = IF i = Len(s) THEN NULL ELSE s[i + 1]
                                /\ pv[s[i]] = IF i = 1 THEN NULL ELSE s[i - 1]
  BY DEF Path
<1>2. /\ t \in Seq(Node) /\ Len(t) = Len(s) + 1
      /\ \A q \in 1 .. Len(s) + 1 : t[q] = IF q <= p THEN s[q] ELSE IF q = p + 1 THEN n ELSE s[q - 1]
  BY <1>1, InsertedAfter
<1> HIDE DEF t
<1>3. /\ Len(s) \in Nat /\ p \in Nat /\ p <= Len(s)
      /\ \A i \in 1 .. Len(s) : n # s[i]
  BY <1>1, RangeIs
<1> DEFINE Old(q) == IF q <= p THEN q ELSE q - 1
<1>4. ASSUME NEW q \in 1 .. Len(s) + 1, q # p + 1
      PROVE  Old(q) \in 1 .. Len(s) /\ t[q] = s[Old(q)]
  BY <1>2, <1>3, <1>4
<1>5. t[p + 1] = n
  BY <1>2, <1>3
<1>6. ASSUME NEW i \in 1 .. Len(s) + 1, NEW j \in 1 .. Len(s) + 1, t[i] = t[j] PROVE i = j
  <2>1. CASE i = p + 1 \/ j = p + 1
    BY <1>3, <1>4, <1>5, <1>6, <2>1
  <2>2. CASE i # p + 1 /\ j # p + 1
    <3>1. Old(i) = Old(j)
      BY <1>1, <1>4, <1>6, <2>2
    <3> QED
      BY <1>3, <2>2, <3>1
  <2> QED
    BY <2>1, <2>2
<1>7. ASSUME NEW q \in 1 .. Len(s) + 1
      PROVE  nx2[t[q]] = IF q = Len(s) + 1 THEN NULL ELSE t[q + 1]
  <2>1. CASE q = p + 1
    <3>1. nx2[t[q]] = IF p = Len(s) THEN NULL ELSE s[p + 1]
      BY <1>5, <2>1 DEF LinkedIn
    <3>2. ASSUME p # Len(s) PROVE t[q + 1] = s[p + 1]
      <4>1. q + 1 \in 1 .. Len(s) + 1 /\ q + 1 # p + 1 /\ Old(q + 1) = p + 1
        BY <1>3, <2>1, <3>2
      <4> QED
        BY <1>4, <4>1
    <3>3. q = Len(s) + 1 <=> p = Len(s)
      BY <1>3, <2>1
    <3> QED
      BY <3>1, <3>2, <3>3
  <2>2. CASE q = p
    <3>1. q \in 1 .. Len(s) /\ q # p + 1 /\ Old(q) = q /\ q # Len(s) + 1
      BY <1>3, <2>2
    <3>2. nx2[s[q]] = n
      BY <2>2, <3>1 DEF LinkedIn
    <3> QED
      BY <1>4, <1>5, <2>2, <3>1, <3>2
  <2>3. CASE q # p + 1 /\ q # p
    <3>1. PICK o \in 1 .. Len(s) : o = Old(q) /\ t[q] = s[o]
      BY <1>4, <2>3
    <3>2. o # p
      BY <1>3, <2>3, <3>1
    <3>3. nx2[t[q]] = IF o = Len(s) THEN NULL ELSE s[o + 1]
      BY <1>1, <3>1, <3>2 DEF LinkedIn
    <3>4. o = Len(s) <=> q = Len(s) + 1
      BY <1>3, <2>3, <3>1
    <3>5. ASSUME q # Len(s) + 1 PROVE t[q + 1] = s[o + 1]
      <4>1. q + 1 \in 1 .. Len(s) + 1 /\ q + 1 # p + 1 /\ Old(q + 1) = o + 1
        BY <1>3, <2>3, <3>1, <3>5
      <4> QED
        BY <1>4, <4>1
    <3> QED
      BY <3>3, <3>4, <3>5
  <2> QED
    BY <2>1, <2>2, <2>3
<1>8. ASSUME NEW q \in 1 .. Len(s) + 1
      PROVE  pv2[t[q]] = IF q = 1 THEN NULL ELSE t[q - 1]
  <2>1. CASE q = p + 1
    <3>1. pv2[t[q]] = IF p = 0 THEN NULL ELSE s[p]
      BY <1>5, <2>1 DEF LinkedIn
    <3>2. ASSUME p # 0 PROVE t[q - 1] = s[p]
      <4>1. q - 1 \in 1 .. Len(s) + 1 /\ q - 1 # p + 1 /\ Old(q - 1) = p
        BY <1>3, <2>1, <3>2
      <4> QED
        BY <1>4, <4>1
    <3>3. q = 1 <=> p = 0
      BY <1>3, <2>1
    <3> QED
      BY <3>1, <3>2, <3>3
  <2>2. CASE q = p + 2
    <3>1. /\ q \in 1 .. Len(s) + 1 /\ q # p + 1 /\ Old(q) = p + 1
          /\ p + 1 \in 1 .. Len(s) /\ q # 1 /\ q - 1 = p + 1
      BY <1>3, <2>2
    <3>2. pv2[s[p + 1]] = n
      BY <3>1 DEF LinkedIn
    <3>3. t[q] = s[p + 1]
      BY <1>4, <3>1
    <3> QED
      BY <1>5, <3>1, <3>2, <3>3
  <2>3. CASE q # p + 1 /\ q # p + 2
    <3>1. PICK o \in 1 .. Len(s) : o = Old(q) /\ t[q] = s[o]
      BY <1>4, <2>3
    <3>2. o # p + 1
      BY <1>3, <2>3, <3>1
    <3>3. pv2[t[q]] = IF o = 1 THEN NULL ELSE s[o - 1]
      <4>1. pv2[s[o]] = pv[s[o]]
        BY <3>1, <3>2 DEF LinkedIn
      <4>2. pv[s[o]] = IF o = 1 THEN NULL ELSE s[o - 1]
        BY <1>1, <3>1
      <4> QED
        BY <3>1, <4>1, <4>2
    <3>4. o = 1 <=> q = 1
      BY <1>3, <2>3, <3>1
    <3>5. ASSUME q # 1 PROVE t[q - 1] = s[o - 1]
      <4>1. q - 1 \in 1 .. Len(s) + 1 /\ q - 1 # p + 1 /\ Old(q - 1) = o - 1
        BY <1>3, <2>3, <3>1, <3>5
      <4> QED
        BY <1>4, <4>1
    <3> QED
      BY <3>3, <3>4, <3>5
  <2> QED
    BY <2>1, <2>2, <2>3
<1>9. Path(nx2, pv2, t)
  BY <1>2, <1>6, <1>7, <1>8 DEF Path
<1> QED
  BY <1>9 DEF t

\* nx2 and pv2 are the pointers after the node at place p of s was linked out.
LinkedOut(nx, pv, nx2, pv2, s, p) ==
  \A i \in 1 .. Len(s) : i # p =>
     /\ nx2[s[i]] = IF i = p - 1 THEN (IF p = Len(s) THEN NULL ELSE s[p + 1]) ELSE nx[s[i]]
     /\ pv2[s[i]] = IF i = p + 1 THEN (IF p = 1 THEN NULL ELSE s[p - 1]) ELSE pv[s[i]]

LEMMA RemovedPath ==
  ASSUME NEW nx, NEW pv, NEW nx2, NEW pv2, NEW s, Path(nx, pv, s),
         NEW p \in 1 .. Len(s), LinkedOut(nx, pv, nx2, pv2, s, p)
  PROVE  Path(nx2, pv2, RemoveAt(s, p))
<1> DEFINE t == RemoveAt(s, p)
<1>1. /\ s \in Seq(Node)
      /\ \A i, j \in 1 .. Len(s) : s[i] = s[j] => i = j
      /\ \A i \in 1 .. Len(s) : /\ nx[s[i]] = IF i = Len(s) THEN NULL ELSE s[i + 1]
                                /\ pv[s[i]] = IF i = 1 THEN NULL ELSE s[i - 1]
  BY DEF Path
<1>2. /\ t \in Seq(Node) /\ Len(t) = Len(s) - 1
      /\ \A q \in 1 .. Len(s) - 1 : t[q] = IF q < p THEN s[q] ELSE s[q + 1]
  BY <1>1, RemovedFrom
<1> HIDE DEF t
<1>3. Len(s) \in Nat /\ p \in Nat /\ p <= Len(s) /\ 1 <= p
  BY <1>1
<1> DEFINE Old(q) == IF q < p THEN q ELSE q + 1
<1>4. ASSUME NEW q \in 1 .. Len(s) - 1
      PROVE  Old(q) \in 1 .. Len(s) /\ Old(q) # p /\ t[q] = s[Old(q)]
  BY <1>2, <1>3
<1>5. ASSUME NEW i \in 1 .. Len(s) - 1, NEW j \in 1 .. Len(s) - 1, t[i] = t[j] PROVE i = j
  <2>1. Old(i) = Old(j)
    BY <1>1, <1>4, <1>5
  <2> QED
    BY <1>3, <2>1
<1>6. ASSUME NEW q \in 1 .. Len(s) - 1
      PROVE  nx2[t[q]] = IF q = Len(s) - 1 THEN NULL ELSE t[q + 1]
  <2>1. PICK o \in 1 .. Len(s) : o = Old(q) /\ o # p /\ t[q] = s[o]
    BY <1>4
  <2>2. CASE o = p - 1
    <3>1. nx2[t[q]] = IF p = Len(s) THEN NULL ELSE s[p + 1]
      BY <2>1, <2>2 DEF LinkedOut
    <3>2. p = Len(s) <=> q = Len(s) - 1
      BY <1>3, <2>1, <2>2
    <3>3. ASSUME p # Len(s) PROVE t[q + 1] = s[p + 1]
      <4>1. q + 1 \in 1 .. Len(s) - 1 /\ Old(q + 1) = p + 1
        BY <1>3, <2>1, <2>2, <3>3
      <4> QED
        BY <1>4, <4>1
    <3> QED
      BY <3>1, <3>2, <3>3
  <2>3. CASE o # p - 1
    <3>1. nx2[t[q]] = IF o = Len(s) THEN NULL ELSE s[o + 1]
      BY <1>1, <2>1, <2>3 DEF LinkedOut
    <3>2. o = Len(s) <=> q = Len(s) - 1
      BY <1>3, <2>1, <2>3
    <3>3. ASSUME o # Len(s) PROVE t[q + 1] = s[o + 1]
      <4>1. q + 1 \in 1 .. Len(s) - 1 /\ Old(q + 1) = o + 1
        BY <1>3, <2>1, <2>3, <3>3
      <4> QED
        BY <1>4, <4>1
    <3> QED
      BY <3>1, <3>2, <3>3
  <2> QED
    BY <2>2, <2>3
<1>7. ASSUME NEW q \in 1 .. Len(s) - 1
      PROVE  pv2[t[q]] = IF q = 1 THEN NULL ELSE t[q - 1]
  <2>1. PICK o \in 1 .. Len(s) : o = Old(q) /\ o # p /\ t[q] = s[o]
    BY <1>4
  <2>2. CASE o = p + 1
    <3>1. pv2[t[q]] = IF p = 1 THEN NULL ELSE s[p - 1]
      BY <2>1, <2>2 DEF LinkedOut
    <3>2. p = 1 <=> q = 1
      BY <1>3, <2>1, <2>2
    <3>3. ASSUME p # 1 PROVE t[q - 1] = s[p - 1]
      <4>1. q - 1 \in 1 .. Len(s) - 1 /\ Old(q - 1) = p - 1
        BY <1>3, <2>1, <2>2, <3>3
      <4> QED
        BY <1>4, <4>1
    <3> QED
      BY <3>1, <3>2, <3>3
  <2>3. CASE o # p + 1
    <3>1. pv2[t[q]] = IF o = 1 THEN NULL ELSE s[o - 1]
      BY <1>1, <2>1, <2>3 DEF LinkedOut
    <3>2. o = 1 <=> q = 1
      BY <1>3, <2>1, <2>3
    <3>3. ASSUME q # 1 PROVE t[q - 1] = s[o - 1]
      <4>1. q - 1 \in 1 .. Len(s) - 1 /\ Old(q - 1) = o - 1
        BY <1>3, <2>1, <2>3, <3>3
      <4> QED
        BY <1>4, <4>1
    <3> QED
      BY <3>1, <3>2, <3>3
  <2> QED
    BY <2>2, <2>3
<1>8. Path(nx2, pv2, t)
  BY <1>2, <1>5, <1>6, <1>7 DEF Path
<1> QED
  BY <1>8 DEF t

\* A path stays one as long as the pointers of its nodes are not touched.
LEMMA PathKept ==
  ASSUME NEW nx, NEW pv, NEW nx2, NEW pv2, NEW s, Path(nx, pv, s),
         \A x \in Range(s) : nx2[x] = nx[x] /\ pv2[x] = pv[x]
  PROVE  Path(nx2, pv2, s)
<1>1. s \in Seq(Node)
  BY DEF Path
<1>2. \A i \in 1 .. Len(s) : s[i] \in Range(s)
  BY <1>1, RangeIs
<1> QED
  BY <1>2 DEF Path

LEMMA EmptyPath ==
  ASSUME NEW nx, NEW pv
  PROVE  Path(nx, pv, <<>>)
<1>1. <<>> \in Seq(Node) /\ Len(<<>>) = 0
  BY EmptySeq
<1> QED
  BY <1>1 DEF Path

\* Going back from the end of a path meets it in reverse.
LEMMA ChainBack ==
  ASSUME NEW nx, NEW pv \in [Node -> Node \cup {NULL}], NEW s, Path(nx, pv, s)
  PROVE  Chain(pv, LastOf(s)) = Reverse(s)
<1> DEFINE r == Reverse(s)
<1>1. /\ s \in Seq(Node) /\ Len(s) \in Nat
      /\ \A i, j \in 1 .. Len(s) : s[i] = s[j] => i = j
      /\ \A i \in 1 .. Len(s) : pv[s[i]] = IF i = 1 THEN NULL ELSE s[i - 1]
  BY DEF Path
<1>2. /\ r \in Seq(Node) /\ Len(r) = Len(s)
      /\ \A i \in 1 .. Len(s) : r[i] = s[Len(s) - i + 1]
  <2>1. r = [i \in 1 .. Len(s) |-> s[Len(s) - i + 1]]
    BY DEF Reverse
  <2>2. \A i \in 1 .. Len(s) : Len(s) - i + 1 \in 1 .. Len(s)
    BY <1>1
  <2>3. \A i \in 1 .. Len(s) : s[Len(s) - i + 1] \in Node
    BY <1>1, <2>2
  <2> QED
    BY <1>1, <2>1, <2>3
<1> HIDE DEF r
<1>3. Follows(pv, r)
  <2> SUFFICES ASSUME NEW i \in 1 .. Len(r)
               PROVE  pv[r[i]] = IF i = Len(r) THEN NULL ELSE r[i + 1]
    BY DEF Follows
  <2>1. PICK o \in 1 .. Len(s) : o = Len(s) - i + 1 /\ r[i] = s[o]
    BY <1>1, <1>2
  <2>2. pv[s[o]] = IF o = 1 THEN NULL ELSE s[o - 1]
    BY <1>1
  <2>3. o = 1 <=> i = Len(r)
    BY <1>1, <1>2, <2>1
  <2>4. ASSUME i # Len(r) PROVE r[i + 1] = s[o - 1]
    <3>1. i + 1 \in 1 .. Len(s) /\ Len(s) - (i + 1) + 1 = o - 1
      BY <1>1, <1>2, <2>1, <2>4
    <3> QED
      BY <1>2, <3>1
  <2> QED
    BY <2>1, <2>2, <2>3, <2>4
<1>4. ASSUME NEW i \in 1 .. Len(r), NEW j \in 1 .. Len(r), r[i] = r[j] PROVE i = j
  <2>1. PICK a \in 1 .. Len(s) : a = Len(s) - i + 1 /\ r[i] = s[a]
    BY <1>1, <1>2
  <2> j \in 1 .. Len(s) /\ Len(s) - j + 1 \in 1 .. Len(s)
    BY <1>1, <1>2
  <2>2. PICK b \in 1 .. Len(s) : b = Len(s) - j + 1 /\ r[j] = s[b]
    BY <1>2
  <2>3. a = b
    BY <1>1, <1>4, <2>1, <2>2
  <2> QED
    BY <1>1, <1>2, <2>1, <2>2, <2>3
<1>5. FirstOf(r) = LastOf(s)
  <2>1. CASE s = <<>>
    <3>1. r = <<>>
      BY <1>2, <2>1, EmptySeq
    <3> QED
      BY <2>1, <3>1 DEF FirstOf, LastOf
  <2>2. CASE s # <<>>
    <3>1. Len(s) # 0
      BY <1>1, <2>2, EmptySeq
    <3>2. r # <<>>
      BY <1>2, <3>1, EmptySeq
    <3>3. 1 \in 1 .. Len(s) /\ Len(s) - 1 + 1 = Len(s)
      BY <1>1, <3>1
    <3>4. r[1] = s[Len(s)]
      BY <1>2, <3>3
    <3> QED
      BY <2>2, <3>2, <3>4 DEF FirstOf, LastOf
  <2> QED
    BY <2>1, <2>2
<1>6. Chain(pv, FirstOf(r)) = r
  BY <1>2, <1>3, <1>4, ChainIs
<1> QED
  BY <1>5, <1>6 DEF r

LEMMA ChainOn ==
  ASSUME NEW nx \in [Node -> Node \cup {NULL}], NEW pv, NEW s, Path(nx, pv, s)
  PROVE  Chain(nx, FirstOf(s)) = s
<1>1. s \in Seq(Node) /\ Follows(nx, s)
  BY DEF Path, Follows
<1>2. \A i, j \in 1 .. Len(s) : s[i] = s[j] => i = j
  BY DEF Path
<1> QED
  BY <1>1, <1>2, ChainIs

LEMMA EndsOf ==
  ASSUME NEW s \in Seq(Node)
  PROVE  /\ s = <<>> => FirstOf(s) = NULL /\ LastOf(s) = NULL /\ Len(s) = 0
         /\ s # <<>> => /\ FirstOf(s) = s[1] /\ LastOf(s) = s[Len(s)]
                        /\ Len(s) \in Nat \ {0}
                        /\ 1 \in 1 .. Len(s) /\ Len(s) \in 1 .. Len(s)
                        /\ s[1] \in Node /\ s[Len(s)] \in Node
                        /\ FirstOf(s) # NULL /\ LastOf(s) # NULL
<1>1. CASE s = <<>>
  BY <1>1, EmptySeq DEF FirstOf, LastOf
<1>2. CASE s # <<>>
  <2>1. Len(s) \in Nat \ {0}
    BY <1>2, EmptySeq
  <2>2. 1 \in 1 .. Len(s) /\ Len(s) \in 1 .. Len(s)
    BY <2>1
  <2>3. s[1] \in Node /\ s[Len(s)] \in Node
    BY <2>2
  <2> QED
    BY <1>2, <2>1, <2>2, <2>3, LinkedListAssumption DEF FirstOf, LastOf
<1> QED
  BY <1>1, <1>2

----------------------------------------------------------------------------
(* The invariant of the pointers. Each list has a path, and Lost has the   *)
(* path an iterator may still be on after its list was assigned to.        *)

Lost == CHOOSE x : x \notin List
Owner == List \cup {Lost}

LEMMA LostIsNone == Lost \notin List
<1>1. \E x : x \notin List
  BY NoSetContainsEverything
<1> QED
  BY <1>1 DEF Lost

Paths(nx, pv, F) ==
  /\ F \in [Owner -> Seq(Node)]
  /\ \A k \in Owner : Path(nx, pv, F[k])
  /\ \A j, k \in Owner : \A x \in Range(F[j]) : x \in Range(F[k]) => j = k

Ends(hd, tl, sz, F) ==
  \A l \in List : hd[l] = FirstOf(F[l]) /\ tl[l] = LastOf(F[l]) /\ sz[l] = Len(F[l])

Shape(F) ==
  /\ Paths(next, prev, F)
  /\ Ends(head, tail, size, F)
  /\ \A k \in Owner : Range(F[k]) \subseteq nodes
  /\ \A l \in List \ built : F[l] = <<>>

\* The nodes due lie ahead of the iterator.
Ahead(F, x) ==
  \E k \in Owner : IF walk = "reverse" THEN Before(F[k], x, iter) ELSE Before(F[k], iter, x)

Walking(F) ==
  /\ iter = NULL => due = {}
  /\ \A x \in due : Ahead(F, x)

Types ==
  /\ nodes \subseteq Node /\ built \subseteq List
  /\ next \in [Node -> Node \cup {NULL}] /\ prev \in [Node -> Node \cup {NULL}]
  /\ head \in [List -> Node \cup {NULL}] /\ tail \in [List -> Node \cup {NULL}]
  /\ size \in [List -> Int]

\* The pointers of the nodes on the other paths are left alone, and s has none of
\* these nodes.
Apart(nx, pv, nx2, pv2, F, l, s) ==
  \A k \in Owner \ {l} : \A x \in Range(F[k]) :
     nx2[x] = nx[x] /\ pv2[x] = pv[x] /\ x \notin Range(s)

LEMMA PathsReplaced ==
  ASSUME NEW nx, NEW pv, NEW nx2, NEW pv2, NEW F, Paths(nx, pv, F), NEW l \in Owner,
         NEW s, Path(nx2, pv2, s), Apart(nx, pv, nx2, pv2, F, l, s)
  PROVE  Paths(nx2, pv2, [F EXCEPT ![l] = s])
<1> DEFINE G == [F EXCEPT ![l] = s]
<1>1. F \in [Owner -> Seq(Node)] /\ s \in Seq(Node)
  BY DEF Paths, Path
<1>2. G \in [Owner -> Seq(Node)] /\ G[l] = s /\ \A k \in Owner \ {l} : G[k] = F[k]
  BY <1>1
<1> HIDE DEF G
<1>3. ASSUME NEW k \in Owner PROVE Path(nx2, pv2, G[k])
  <2>1. k # l => Path(nx, pv, F[k])
    BY DEF Paths
  <2>2. k # l => Path(nx2, pv2, F[k])
    BY <2>1, PathKept DEF Apart
  <2> QED
    BY <1>2, <2>2
<1>4. ASSUME NEW j \in Owner, NEW k \in Owner, NEW x \in Range(G[j]), x \in Range(G[k])
      PROVE  j = k
  <2>1. CASE j = l \/ k = l
    BY <1>2, <1>4, <2>1 DEF Apart
  <2>2. CASE j # l /\ k # l
    <3>1. x \in Range(F[j]) /\ x \in Range(F[k])
      BY <1>2, <1>4, <2>2
    <3> QED
      BY <3>1 DEF Paths
  <2> QED
    BY <2>1, <2>2
<1>5. Paths(nx2, pv2, G)
  BY <1>2, <1>3, <1>4 DEF Paths
<1> QED
  BY <1>5 DEF G

LEMMA InsertedEnds ==
  ASSUME NEW s \in Seq(Node), NEW p \in 0 .. Len(s), NEW e \in Node
  PROVE  /\ FirstOf(InsertAt(s, p + 1, e)) = IF p = 0 THEN e ELSE FirstOf(s)
         /\ LastOf(InsertAt(s, p + 1, e)) = IF p = Len(s) THEN e ELSE LastOf(s)
<1> DEFINE t == InsertAt(s, p + 1, e)
<1>1. /\ t \in Seq(Node) /\ Len(t) = Len(s) + 1
      /\ \A q \in 1 .. Len(s) + 1 : t[q] = IF q <= p THEN s[q] ELSE IF q = p + 1 THEN e ELSE s[q - 1]
  BY InsertedAfter
<1> HIDE DEF t
<1>2. Len(s) \in Nat /\ p \in Nat /\ p <= Len(s)
  OBVIOUS
<1>3. t # <<>>
  <2>1. Len(t) # 0
    BY <1>1, <1>2
  <2> QED
    BY <2>1, EmptySeq
<1>4. s # <<>> <=> Len(s) # 0
  BY EmptySeq
<1>5. FirstOf(t) = IF p = 0 THEN e ELSE FirstOf(s)
  <2>1. 1 \in 1 .. Len(s) + 1 /\ (1 <= p <=> p # 0) /\ (p = 0 => 1 = p + 1) /\ (p # 0 => Len(s) # 0)
    BY <1>2
  <2>2. t[1] = IF p = 0 THEN e ELSE s[1]
    BY <1>1, <2>1
  <2> QED
    BY <1>3, <1>4, <2>1, <2>2 DEF FirstOf
<1>6. LastOf(t) = IF p = Len(s) THEN e ELSE LastOf(s)
  <2>1. PICK q \in 1 .. Len(s) + 1 : q = Len(s) + 1
    BY <1>2
  <2>2. /\ ~(q <= p) /\ (q = p + 1 <=> p = Len(s)) /\ q - 1 = Len(s)
        /\ (p # Len(s) => Len(s) # 0)
    BY <1>2, <2>1
  <2>3. t[q] = IF p = Len(s) THEN e ELSE s[Len(s)]
    BY <1>1, <2>2
  <2> QED
    BY <1>1, <1>3, <1>4, <2>1, <2>2, <2>3 DEF LastOf
<1> QED
  BY <1>5, <1>6 DEF t

LEMMA RemovedEnds ==
  ASSUME NEW s \in Seq(Node), NEW p \in 1 .. Len(s)
  PROVE  /\ FirstOf(RemoveAt(s, p)) =
              IF p # 1 THEN FirstOf(s) ELSE IF p = Len(s) THEN NULL ELSE s[p + 1]
         /\ LastOf(RemoveAt(s, p)) =
              IF p # Len(s) THEN LastOf(s) ELSE IF p = 1 THEN NULL ELSE s[p - 1]
<1> DEFINE t == RemoveAt(s, p)
<1>1. /\ t \in Seq(Node) /\ Len(t) = Len(s) - 1
      /\ \A q \in 1 .. Len(s) - 1 : t[q] = IF q < p THEN s[q] ELSE s[q + 1]
  BY RemovedFrom
<1> HIDE DEF t
<1>2. Len(s) \in Nat /\ p \in Nat /\ p <= Len(s) /\ 1 <= p
  OBVIOUS
<1>3. (t = <<>> <=> Len(s) = 1) /\ s # <<>>
  BY <1>1, <1>2, EmptySeq
<1>4. CASE Len(s) = 1
  <2>1. p = 1 /\ p = Len(s) /\ t = <<>>
    BY <1>2, <1>3, <1>4
  <2>2. FirstOf(t) = NULL /\ LastOf(t) = NULL
    BY <2>1 DEF FirstOf, LastOf
  <2> QED
    BY <2>1, <2>2 DEF t
<1>5. CASE Len(s) # 1
  <2>1. t # <<>> /\ FirstOf(t) = t[1] /\ LastOf(t) = t[Len(s) - 1]
    BY <1>1, <1>3, <1>5 DEF FirstOf, LastOf
  <2>2. FirstOf(s) = s[1] /\ LastOf(s) = s[Len(s)]
    BY <1>3 DEF FirstOf, LastOf
  <2>0. PICK m \in Nat : m = Len(s)
    BY <1>2
  <2> Len(s) - 1 \in Nat /\ Len(s) - 1 >= 1
    BY <1>2, <1>5, <2>0
  <2>3. t[1] = IF p # 1 THEN s[1] ELSE s[p + 1]
    <3>1. 1 \in 1 .. Len(s) - 1 /\ (1 < p <=> p # 1)
      BY <1>2
    <3> QED
      BY <1>1, <3>1
  <2>4. t[Len(s) - 1] = IF p # Len(s) THEN s[Len(s)] ELSE s[p - 1]
    <3>1. PICK q \in 1 .. Len(s) - 1 : q = Len(s) - 1
      OBVIOUS
    <3>2. (q < p <=> p = Len(s)) /\ q + 1 = Len(s) /\ (p = Len(s) => q = p - 1)
      BY <1>2, <3>1
    <3>3. t[q] = IF q < p THEN s[q] ELSE s[q + 1]
      BY <1>1
    <3> QED
      BY <3>1, <3>2, <3>3
  <2>5. p = 1 => p # Len(s)
    BY <1>5
  <2>6. FirstOf(t) = IF p # 1 THEN FirstOf(s) ELSE IF p = Len(s) THEN NULL ELSE s[p + 1]
    BY <2>1, <2>2, <2>3, <2>5
  <2>7. LastOf(t) = IF p # Len(s) THEN LastOf(s) ELSE IF p = 1 THEN NULL ELSE s[p - 1]
    BY <2>1, <2>2, <2>4, <2>5
  <2> QED
    BY <2>6, <2>7 DEF t
<1> QED
  BY <1>4, <1>5

\* The paths after node n was linked in after place p of the path of l.
Put(F, l, p, n) == [F EXCEPT ![l] = InsertAt(F[l], p + 1, n)]

Linking(F, l, p, n) ==
  /\ nodes' = nodes \cup {n}
  /\ next' \in [Node -> Node \cup {NULL}] /\ prev' \in [Node -> Node \cup {NULL}]
  /\ LinkedIn(next, prev, next', prev', F[l], p, n)
  /\ \A x \in Node : x # n /\ x \notin Range(F[l]) => next'[x] = next[x] /\ prev'[x] = prev[x]
  /\ head' = [head EXCEPT ![l] = IF p = 0 THEN n ELSE @]
  /\ tail' = [tail EXCEPT ![l] = IF p = Len(F[l]) THEN n ELSE @]
  /\ size' = [size EXCEPT ![l] = @ + 1]
  /\ UNCHANGED <<built, iterator>>

LEMMA Insertion ==
  ASSUME Types, NEW F, Shape(F), Walking(F), NEW l \in built, NEW n \in Node \ nodes,
         NEW p \in 0 .. Len(F[l]), Linking(F, l, p, n)
  PROVE  Types' /\ Shape(Put(F, l, p, n))' /\ Walking(Put(F, l, p, n))'
<1> DEFINE s == F[l]
           t == InsertAt(s, p + 1, n)
           G == Put(F, l, p, n)
<1>1. l \in List /\ l \in Owner /\ F \in [Owner -> Seq(Node)] /\ s \in Seq(Node)
  BY DEF Types, Shape, Paths, Owner
<1>2. Path(next, prev, s) /\ Range(s) \subseteq nodes
  BY <1>1 DEF Shape, Paths
<1>3. LinkedIn(next, prev, next', prev', s, p, n)
  BY DEF Linking
<1>4. Path(next', prev', t)
  <2>1. n \in Node /\ n \notin Range(s)
    BY <1>2
  <2> HIDE DEF s
  <2> QED
    BY <1>2, <1>3, <2>1, InsertedPath DEF s
<1>5. Range(t) = Range(s) \cup {n}
  BY <1>1, InsertedRange
<1>6. t \in Seq(Node) /\ Len(t) = Len(s) + 1
  BY <1>1, InsertedAfter
<1>7. /\ FirstOf(t) = IF p = 0 THEN n ELSE FirstOf(s)
      /\ LastOf(t) = IF p = Len(s) THEN n ELSE LastOf(s)
  BY <1>1, InsertedEnds
<1>8. G = [F EXCEPT ![l] = t]
  BY DEF Put
<1>9. ASSUME NEW x, NEW y, Before(s, x, y) PROVE Before(t, x, y)
  BY <1>1, <1>9, InsertedBefore
<1> HIDE DEF s, t, G
<1>10. G[l] = t /\ \A k \in Owner \ {l} : G[k] = F[k]
  BY <1>1, <1>8
<1>11. ASSUME NEW k \in Owner \ {l}, NEW x \in Range(F[k])
       PROVE  next'[x] = next[x] /\ prev'[x] = prev[x] /\ x \notin Range(t)
  <2>1. x \in nodes /\ x \in Node /\ x # n
    BY DEF Shape, Types
  <2>2. x \notin Range(s)
    BY <1>1 DEF Shape, Paths, s
  <2> QED
    BY <1>5, <2>1, <2>2 DEF Linking, s
<1>12. Paths(next', prev', G)
  <2>1. Paths(next, prev, F)
    BY DEF Shape
  <2>2. Apart(next, prev, next', prev', F, l, t)
    BY <1>11 DEF Apart
  <2>3. Paths(next', prev', [F EXCEPT ![l] = t])
    BY <1>1, <1>4, <2>1, <2>2, PathsReplaced
  <2> QED
    BY <1>8, <2>3
<1>13. Ends(head', tail', size', G)
  <2>1. ASSUME NEW m \in List
        PROVE  head'[m] = FirstOf(G[m]) /\ tail'[m] = LastOf(G[m]) /\ size'[m] = Len(G[m])
    <3>1. head[m] = FirstOf(F[m]) /\ tail[m] = LastOf(F[m]) /\ size[m] = Len(F[m]) /\ m \in Owner
      BY DEF Shape, Ends, Owner
    <3>2. CASE m = l
      <4>1. head'[m] = IF p = 0 THEN n ELSE head[m]
        BY <1>1, <3>2 DEF Linking, Types
      <4>2. tail'[m] = IF p = Len(s) THEN n ELSE tail[m]
        BY <1>1, <3>2 DEF Linking, Types, s
      <4>3. size'[m] = size[m] + 1
        BY <1>1, <3>2 DEF Linking, Types
      <4> QED
        BY <1>6, <1>7, <1>10, <3>1, <3>2, <4>1, <4>2, <4>3 DEF s
    <3>3. CASE m # l
      <4>1. head'[m] = head[m] /\ tail'[m] = tail[m] /\ size'[m] = size[m]
        BY <1>1, <3>3 DEF Linking, Types
      <4> QED
        BY <1>10, <3>1, <3>3, <4>1
    <3> QED
      BY <3>2, <3>3
  <2> QED
    BY <2>1 DEF Ends
<1>14. ASSUME NEW k \in Owner PROVE Range(G[k]) \subseteq nodes'
  <2>1. Range(F[k]) \subseteq nodes /\ nodes' = nodes \cup {n}
    BY DEF Shape, Linking
  <2> QED
    BY <1>2, <1>5, <1>10, <2>1
<1>15. \A m \in List \ built' : G[m] = <<>>
  BY <1>10 DEF Shape, Linking, Owner
<1>16. Shape(G)'
  BY <1>12, <1>13, <1>14, <1>15 DEF Shape
<1>17. Types'
  <2>1. head' \in [List -> Node \cup {NULL}] /\ tail' \in [List -> Node \cup {NULL}]
    BY <1>1 DEF Linking, Types
  <2>2. size' \in [List -> Int]
    BY <1>1 DEF Linking, Types
  <2>3. nodes' \subseteq Node /\ built' \subseteq List
    BY DEF Linking, Types
  <2> QED
    BY <2>1, <2>2, <2>3 DEF Types, Linking
<1>18. Walking(G)'
  <2>1. iter' = iter /\ walk' = walk /\ due' = due
    BY DEF Linking, iterator
  <2>2. ASSUME NEW x \in due PROVE Ahead(G, x)'
    <3>1. PICK k \in Owner :
            IF walk = "reverse" THEN Before(F[k], x, iter) ELSE Before(F[k], iter, x)
      BY DEF Walking, Ahead
    <3>2. IF walk = "reverse" THEN Before(G[k], x, iter) ELSE Before(G[k], iter, x)
      BY <1>9, <1>10, <3>1 DEF s
    <3> QED
      BY <2>1, <3>2 DEF Ahead
  <2> QED
    BY <2>1, <2>2 DEF Walking
<1> QED
  BY <1>16, <1>17, <1>18 DEF G

----------------------------------------------------------------------------
(* What following the pointers of a list shows.                            *)

LEMMA Seen ==
  ASSUME NEW nx \in [Node -> Node \cup {NULL}], NEW pv \in [Node -> Node \cup {NULL}],
         NEW hd, NEW tl, NEW sz, NEW F, Paths(nx, pv, F), Ends(hd, tl, sz, F), NEW l \in List
  PROVE  Chain(nx, hd[l]) = F[l] /\ Chain(pv, tl[l]) = Reverse(F[l])
<1>1. l \in Owner /\ hd[l] = FirstOf(F[l]) /\ tl[l] = LastOf(F[l])
  BY DEF Ends, Owner
<1>2. Path(nx, pv, F[l])
  BY <1>1 DEF Paths
<1>3. Chain(nx, FirstOf(F[l])) = F[l]
  BY <1>2, ChainOn
<1>4. Chain(pv, LastOf(F[l])) = Reverse(F[l])
  BY <1>2, ChainBack
<1> QED
  BY <1>1, <1>3, <1>4

LEMMA SeenNow ==
  ASSUME Types, NEW F, Shape(F), NEW l \in List
  PROVE  Forward(l) = F[l] /\ Backward(l) = Reverse(F[l]) /\ OnList(l) = Range(F[l])
<1>1. Paths(next, prev, F) /\ Ends(head, tail, size, F)
  BY DEF Shape
<1>2. next \in [Node -> Node \cup {NULL}] /\ prev \in [Node -> Node \cup {NULL}]
  BY DEF Types
<1>3. Chain(next, head[l]) = F[l] /\ Chain(prev, tail[l]) = Reverse(F[l])
  BY <1>1, <1>2, Seen
<1> QED
  BY <1>3 DEF Forward, Backward, OnList

LEMMA SeenNext ==
  ASSUME Types', NEW F, Shape(F)', NEW l \in List
  PROVE  Forward(l)' = F[l] /\ OnList(l)' = Range(F[l])
<1>1. Paths(next', prev', F) /\ Ends(head', tail', size', F)
  BY DEF Shape
<1>2. next' \in [Node -> Node \cup {NULL}] /\ prev' \in [Node -> Node \cup {NULL}]
  BY DEF Types
<1>3. Chain(next', head'[l]) = F[l]
  BY <1>1, <1>2, Seen
<1> QED
  BY <1>3 DEF Forward, OnList

\* A path, and what the ends of its list say.
LEMMA PathOf ==
  ASSUME Types, NEW F, Shape(F), NEW l \in built
  PROVE  /\ l \in List /\ l \in Owner
         /\ F \in [Owner -> Seq(Node)] /\ F[l] \in Seq(Node) /\ Len(F[l]) \in Nat
         /\ Path(next, prev, F[l])
         /\ Range(F[l]) = {F[l][i] : i \in 1 .. Len(F[l])}
         /\ Range(F[l]) \subseteq nodes
         /\ head[l] = FirstOf(F[l]) /\ tail[l] = LastOf(F[l]) /\ size[l] = Len(F[l])
         /\ OnList(l) = Range(F[l])
<1>1. l \in List /\ l \in Owner
  BY DEF Types, Owner
<1>2. F \in [Owner -> Seq(Node)] /\ F[l] \in Seq(Node)
  BY <1>1 DEF Shape, Paths
<1>3. Path(next, prev, F[l]) /\ Range(F[l]) \subseteq nodes
  BY <1>1 DEF Shape, Paths
<1>4. head[l] = FirstOf(F[l]) /\ tail[l] = LastOf(F[l]) /\ size[l] = Len(F[l])
  BY <1>1 DEF Shape, Ends
<1>5. Range(F[l]) = {F[l][i] : i \in 1 .. Len(F[l])} /\ Len(F[l]) \in Nat
  BY <1>2, RangeIs
<1>6. OnList(l) = Range(F[l])
  BY <1>1, SeenNow
<1> QED
  BY <1>1, <1>2, <1>3, <1>4, <1>5, <1>6

----------------------------------------------------------------------------
(* The three ways to insert a node.                                        *)

LEMMA LinkLastLinks ==
  ASSUME Types, NEW F, Shape(F), NEW l \in built, NEW n \in Node \ nodes, LinkLast(l, n)
  PROVE  Linking(F, l, Len(F[l]), n)
<1> DEFINE s == F[l]
<1>1. /\ l \in List /\ s \in Seq(Node) /\ Len(s) \in Nat
      /\ Range(s) = {s[i] : i \in 1 .. Len(s)} /\ Range(s) \subseteq nodes
      /\ head[l] = FirstOf(s) /\ tail[l] = LastOf(s)
  BY PathOf
<1>2. Path(next, prev, s)
  BY PathOf
<1>3. /\ s = <<>> => head[l] = NULL /\ tail[l] = NULL /\ Len(s) = 0
      /\ s # <<>> => /\ head[l] # NULL /\ tail[l] = s[Len(s)] /\ tail[l] \in Node
                     /\ Len(s) # 0 /\ Len(s) \in 1 .. Len(s)
  BY <1>1, EndsOf
<1> HIDE DEF s
<1>4. n \in Node /\ n \notin nodes /\ \A i \in 1 .. Len(s) : s[i] # n /\ s[i] \in Node
  BY <1>1
<1>5. tail[l] # n
  BY <1>3, <1>4, LinkedListAssumption
<1>6. ASSUME NEW x \in Node
      PROVE  /\ next'[x] = IF x = n THEN NULL ELSE IF x = tail[l] THEN n ELSE next[x]
             /\ prev'[x] = IF x = n THEN tail[l] ELSE prev[x]
  <2>1. CASE s = <<>>
    <3>1. next' = [next EXCEPT ![n] = NULL] /\ x # tail[l]
      BY <1>3, <2>1, LinkedListAssumption DEF LinkLast
    <3> QED
      BY <3>1 DEF LinkLast, Types
  <2>2. CASE s # <<>>
    <3>1. next' = [next EXCEPT ![n] = NULL, ![tail[l]] = n] /\ tail[l] \in Node
      BY <1>3, <2>2 DEF LinkLast
    <3> QED
      BY <1>5, <3>1 DEF LinkLast, Types
  <2> QED
    BY <2>1, <2>2
<1>7. next' \in [Node -> Node \cup {NULL}] /\ prev' \in [Node -> Node \cup {NULL}]
  <2>1. tail[l] \in Node \cup {NULL}
    BY <1>1 DEF Types
  <2> QED
    BY <1>4, <2>1 DEF LinkLast, Types
<1>8. LinkedIn(next, prev, next', prev', s, Len(s), n)
  <2>1. next'[n] = NULL /\ prev'[n] = IF Len(s) = 0 THEN NULL ELSE s[Len(s)]
    BY <1>3, <1>4, <1>6
  <2>2. ASSUME NEW i \in 1 .. Len(s)
        PROVE  /\ next'[s[i]] = IF i = Len(s) THEN n ELSE next[s[i]]
               /\ prev'[s[i]] = IF i = Len(s) + 1 THEN n ELSE prev[s[i]]
    <3>1. s # <<>> /\ i # Len(s) + 1
      BY <1>1, EmptySeq
    <3>2. s[i] = tail[l] <=> i = Len(s)
      BY <1>2, <1>3, <3>1 DEF Path
    <3> QED
      BY <1>4, <1>6, <3>1, <3>2
  <2> QED
    BY <2>1, <2>2 DEF LinkedIn
<1>9. ASSUME NEW x \in Node, x # n, x \notin Range(s)
      PROVE  next'[x] = next[x] /\ prev'[x] = prev[x]
  <2>1. x # tail[l]
    BY <1>1, <1>3, <1>9, LinkedListAssumption
  <2> QED
    BY <1>6, <1>9, <2>1
<1>10. /\ head' = [head EXCEPT ![l] = IF Len(s) = 0 THEN n ELSE @]
       /\ tail' = [tail EXCEPT ![l] = IF Len(s) = Len(s) THEN n ELSE @]
  <2>1. CASE s = <<>>
    BY <1>3, <2>1 DEF LinkLast
  <2>2. CASE s # <<>>
    <3>1. head' = head /\ Len(s) # 0
      BY <1>3, <2>2 DEF LinkLast
    <3>2. head = [head EXCEPT ![l] = IF Len(s) = 0 THEN n ELSE @]
      BY <1>1, <3>1 DEF Types
    <3> QED
      BY <3>1, <3>2 DEF LinkLast
  <2> QED
    BY <2>1, <2>2
<1> QED
  BY <1>7, <1>8, <1>9, <1>10 DEF Linking, LinkLast, s

LEMMA AppendAfterLinks ==
  ASSUME Types, NEW F, Shape(F), NEW l \in built, NEW n \in Node \ nodes, NEW at, NEW p,
         NEW q \in 1 .. Len(F[l]), at = F[l][q], appendAfter(l, at, n, p)
  PROVE  Linking(F, l, q, n)
<1> DEFINE s == F[l]
<1>1. /\ l \in List /\ s \in Seq(Node) /\ Len(s) \in Nat
      /\ Range(s) = {s[i] : i \in 1 .. Len(s)} /\ Range(s) \subseteq nodes
      /\ head[l] = FirstOf(s) /\ tail[l] = LastOf(s)
  BY PathOf
<1>2. Path(next, prev, s)
  BY PathOf
<1>3. s # <<>> /\ tail[l] = s[Len(s)] /\ Len(s) \in 1 .. Len(s)
  <2>1. s # <<>>
    BY EmptySeq
  <2> QED
    BY <1>1, <2>1, EndsOf
<1>4. q \in 1 .. Len(s) /\ at = s[q]
  OBVIOUS
<1> HIDE DEF s
<1>5. n \in Node /\ n \notin nodes /\ \A i \in 1 .. Len(s) : s[i] # n /\ s[i] \in Node
  BY <1>1
<1>6. next[at] = IF q = Len(s) THEN NULL ELSE s[q + 1]
  BY <1>2, <1>4 DEF Path
<1>7. q # Len(s) => q + 1 \in 1 .. Len(s) /\ next[at] \in Node /\ next[at] # NULL /\ next[at] # n
  <2>1. q # Len(s) => q + 1 \in 1 .. Len(s)
    BY <1>1, <1>4
  <2> QED
    BY <1>5, <1>6, <2>1, LinkedListAssumption
<1>8. ASSUME NEW x \in Node
      PROVE  /\ next'[x] = IF x = n THEN next[at] ELSE IF x = at THEN n ELSE next[x]
             /\ prev'[x] = IF x = n THEN at ELSE IF x = next[at] THEN n ELSE prev[x]
  <2>1. next'[x] = IF x = n THEN next[at] ELSE IF x = at THEN n ELSE next[x]
    BY <1>4, <1>5 DEF appendAfter, Types
  <2>2. CASE next[at] = NULL
    <3>1. prev' = [prev EXCEPT ![n] = at] /\ x # next[at]
      BY <2>2, LinkedListAssumption DEF appendAfter
    <3> QED
      BY <2>1, <3>1 DEF Types
  <2>3. CASE next[at] # NULL
    <3>1. prev' = [prev EXCEPT ![n] = at, ![next[at]] = n] /\ next[at] # n
      BY <1>6, <1>7, <2>3 DEF appendAfter
    <3> QED
      BY <2>1, <3>1 DEF Types
  <2> QED
    BY <2>2, <2>3
<1>9. next' \in [Node -> Node \cup {NULL}] /\ prev' \in [Node -> Node \cup {NULL}]
  <2>1. next[at] \in Node \cup {NULL} /\ at \in Node
    BY <1>4, <1>5 DEF Types
  <2> QED
    BY <1>5, <2>1 DEF appendAfter, Types
<1>10. LinkedIn(next, prev, next', prev', s, q, n)
  <2>1. /\ next'[n] = IF q = Len(s) THEN NULL ELSE s[q + 1]
        /\ prev'[n] = IF q = 0 THEN NULL ELSE s[q]
    BY <1>4, <1>5, <1>6, <1>8
  <2>2. ASSUME NEW i \in 1 .. Len(s)
        PROVE  /\ next'[s[i]] = IF i = q THEN n ELSE next[s[i]]
               /\ prev'[s[i]] = IF i = q + 1 THEN n ELSE prev[s[i]]
    <3>1. s[i] = at <=> i = q
      BY <1>2, <1>4 DEF Path
    <3>2. s[i] = next[at] <=> i = q + 1
      <4>1. CASE q = Len(s)
        <5>1. i # q + 1 /\ s[i] # NULL
          BY <1>1, <1>5, <4>1, LinkedListAssumption
        <5> QED
          BY <1>6, <4>1, <5>1
      <4>2. CASE q # Len(s)
        BY <1>2, <1>6, <1>7, <4>2 DEF Path
      <4> QED
        BY <4>1, <4>2
    <3> QED
      BY <1>5, <1>8, <3>1, <3>2
  <2> QED
    BY <2>1, <2>2 DEF LinkedIn
<1>11. ASSUME NEW x \in Node, x # n, x \notin Range(s)
       PROVE  next'[x] = next[x] /\ prev'[x] = prev[x]
  <2>1. x # at /\ x # next[at]
    BY <1>1, <1>4, <1>6, <1>7, <1>11, LinkedListAssumption
  <2> QED
    BY <1>8, <1>11, <2>1
<1>12. SameNode(at, tail[l]) <=> q = Len(s)
  <2>1. CASE q = Len(s)
    BY <1>3, <1>4, <2>1 DEF SameNode
  <2>2. CASE q # Len(s)
    <3>1. next[s[Len(s)]] = NULL /\ s[Len(s)] # at /\ s[Len(s)] \in Node /\ s[Len(s)] # n
      BY <1>2, <1>3, <1>4, <1>5, <2>2 DEF Path
    <3>2. next'[tail[l]] = NULL /\ next'[at] = n /\ n # NULL
      BY <1>3, <1>4, <1>5, <1>8, <3>1, LinkedListAssumption
    <3> QED
      BY <2>2, <3>2 DEF SameNode
  <2> QED
    BY <2>1, <2>2
<1>13. tail' = [tail EXCEPT ![l] = IF q = Len(s) THEN n ELSE @]
  BY <1>1, <1>12 DEF appendAfter, Types
<1>14. head' = [head EXCEPT ![l] = IF q = 0 THEN n ELSE @]
  <2>1. head' = head /\ q # 0
    BY DEF appendAfter
  <2> QED
    BY <1>1, <2>1 DEF Types
<1> QED
  BY <1>9, <1>10, <1>11, <1>13, <1>14 DEF Linking, appendAfter, s

LEMMA PrependLinks ==
  ASSUME Types, NEW F, Shape(F), NEW l \in built, NEW n \in Node \ nodes, NEW at, NEW p,
         NEW q \in 1 .. Len(F[l]), at = F[l][q], prepend(l, at, n, p)
  PROVE  Linking(F, l, q - 1, n)
<1> DEFINE s == F[l]
<1>1. /\ l \in List /\ s \in Seq(Node) /\ Len(s) \in Nat
      /\ Range(s) = {s[i] : i \in 1 .. Len(s)} /\ Range(s) \subseteq nodes
      /\ head[l] = FirstOf(s) /\ tail[l] = LastOf(s)
  BY PathOf
<1>2. Path(next, prev, s)
  BY PathOf
<1>3. s # <<>> /\ head[l] = s[1] /\ 1 \in 1 .. Len(s)
  <2>1. s # <<>>
    BY EmptySeq
  <2> QED
    BY <1>1, <2>1, EndsOf
<1>4. q \in 1 .. Len(s) /\ at = s[q]
  OBVIOUS
<1> HIDE DEF s
<1>5. n \in Node /\ n \notin nodes /\ \A i \in 1 .. Len(s) : s[i] # n /\ s[i] \in Node
  BY <1>1
<1>6. prev[at] = IF q = 1 THEN NULL ELSE s[q - 1]
  BY <1>2, <1>4 DEF Path
<1>7. q # 1 => q - 1 \in 1 .. Len(s) /\ prev[at] \in Node /\ prev[at] # NULL /\ prev[at] # n
  <2>1. q # 1 => q - 1 \in 1 .. Len(s)
    BY <1>1, <1>4
  <2> QED
    BY <1>5, <1>6, <2>1, LinkedListAssumption
<1>8. ASSUME NEW x \in Node
      PROVE  /\ prev'[x] = IF x = n THEN prev[at] ELSE IF x = at THEN n ELSE prev[x]
             /\ next'[x] = IF x = n THEN at ELSE IF x = prev[at] THEN n ELSE next[x]
  <2>1. prev'[x] = IF x = n THEN prev[at] ELSE IF x = at THEN n ELSE prev[x]
    BY <1>4, <1>5 DEF prepend, Types
  <2>2. CASE prev[at] = NULL
    <3>1. next' = [next EXCEPT ![n] = at] /\ x # prev[at]
      BY <2>2, LinkedListAssumption DEF prepend
    <3> QED
      BY <2>1, <3>1 DEF Types
  <2>3. CASE prev[at] # NULL
    <3>1. next' = [next EXCEPT ![n] = at, ![prev[at]] = n] /\ prev[at] # n
      BY <1>6, <1>7, <2>3 DEF prepend
    <3> QED
      BY <2>1, <3>1 DEF Types
  <2> QED
    BY <2>2, <2>3
<1>9. next' \in [Node -> Node \cup {NULL}] /\ prev' \in [Node -> Node \cup {NULL}]
  <2>1. prev[at] \in Node \cup {NULL} /\ at \in Node
    BY <1>4, <1>5 DEF Types
  <2> QED
    BY <1>5, <2>1 DEF prepend, Types
<1>10. LinkedIn(next, prev, next', prev', s, q - 1, n)
  <2>1. /\ next'[n] = IF q - 1 = Len(s) THEN NULL ELSE s[(q - 1) + 1]
        /\ prev'[n] = IF q - 1 = 0 THEN NULL ELSE s[q - 1]
    <3>1. q - 1 # Len(s) /\ (q - 1) + 1 = q /\ (q - 1 = 0 <=> q = 1)
      BY <1>1, <1>4
    <3> QED
      BY <1>4, <1>5, <1>6, <1>8, <3>1
  <2>2. ASSUME NEW i \in 1 .. Len(s)
        PROVE  /\ next'[s[i]] = IF i = q - 1 THEN n ELSE next[s[i]]
               /\ prev'[s[i]] = IF i = (q - 1) + 1 THEN n ELSE prev[s[i]]
    <3>1. (s[i] = at <=> i = q) /\ (q - 1) + 1 = q
      BY <1>2, <1>4 DEF Path
    <3>2. s[i] = prev[at] <=> i = q - 1
      <4>1. CASE q = 1
        <5>1. i # q - 1 /\ s[i] # NULL
          BY <1>1, <1>5, <4>1, LinkedListAssumption
        <5> QED
          BY <1>6, <4>1, <5>1
      <4>2. CASE q # 1
        BY <1>2, <1>6, <1>7, <4>2 DEF Path
      <4> QED
        BY <4>1, <4>2
    <3> QED
      BY <1>5, <1>8, <3>1, <3>2
  <2> QED
    BY <2>1, <2>2 DEF LinkedIn
<1>11. ASSUME NEW x \in Node, x # n, x \notin Range(s)
       PROVE  next'[x] = next[x] /\ prev'[x] = prev[x]
  <2>1. x # at /\ x # prev[at]
    BY <1>1, <1>4, <1>6, <1>7, <1>11, LinkedListAssumption
  <2> QED
    BY <1>8, <1>11, <2>1
<1>12. SameNode(at, head[l]) <=> q = 1
  <2>1. CASE q = 1
    BY <1>3, <1>4, <2>1 DEF SameNode
  <2>2. CASE q # 1
    <3>1. prev[s[1]] = NULL /\ s[1] # at /\ s[1] \in Node /\ s[1] # n
      BY <1>2, <1>3, <1>4, <1>5, <2>2 DEF Path
    <3>2. prev'[head[l]] = NULL /\ prev'[at] = n /\ n # NULL
      BY <1>3, <1>4, <1>5, <1>8, <3>1, LinkedListAssumption
    <3> QED
      BY <2>2, <3>2 DEF SameNode
  <2> QED
    BY <2>1, <2>2
<1>13. head' = [head EXCEPT ![l] = IF q - 1 = 0 THEN n ELSE @]
  <2>1. q - 1 = 0 <=> q = 1
    BY <1>4
  <2> QED
    BY <1>1, <1>12, <2>1 DEF prepend, Types
<1>14. tail' = [tail EXCEPT ![l] = IF q - 1 = Len(s) THEN n ELSE @]
  <2>1. tail' = tail /\ q - 1 # Len(s)
    BY <1>1, <1>4 DEF prepend
  <2> QED
    BY <1>1, <2>1 DEF Types
<1> QED
  BY <1>9, <1>10, <1>11, <1>13, <1>14 DEF Linking, prepend, s

----------------------------------------------------------------------------
(* Removing a node, and all nodes of a list.                               *)

Cut(F, l, p) == [F EXCEPT ![l] = RemoveAt(F[l], p)]

LEMMA Unlinked ==
  ASSUME Types, NEW F, Shape(F), NEW l \in built, NEW p \in 1 .. Len(F[l]),
         NEW node, node = F[l][p], Unlink(l, node)
  PROVE  /\ LinkedOut(next, prev, next', prev', F[l], p)
         /\ \A x \in Node : x \notin Range(F[l]) => next'[x] = next[x] /\ prev'[x] = prev[x]
         /\ head'[l] = FirstOf(RemoveAt(F[l], p)) /\ tail'[l] = LastOf(RemoveAt(F[l], p))
         /\ Types'
<1> DEFINE s == F[l]
           t == RemoveAt(s, p)
<1>1. /\ l \in List /\ s \in Seq(Node) /\ Len(s) \in Nat
      /\ Range(s) = {s[i] : i \in 1 .. Len(s)} /\ Range(s) \subseteq nodes
      /\ head[l] = FirstOf(s) /\ tail[l] = LastOf(s)
  BY PathOf
<1>2. Path(next, prev, s)
  BY PathOf
<1>3. s # <<>> /\ head[l] = s[1] /\ 1 \in 1 .. Len(s) /\ tail[l] = s[Len(s)] /\ Len(s) \in 1 .. Len(s)
  <2>1. s # <<>>
    BY EmptySeq
  <2> QED
    BY <1>1, <2>1, EndsOf
<1>4. p \in 1 .. Len(s) /\ node = s[p]
  OBVIOUS
<1>5. /\ FirstOf(t) = IF p # 1 THEN FirstOf(s) ELSE IF p = Len(s) THEN NULL ELSE s[p + 1]
      /\ LastOf(t) = IF p # Len(s) THEN LastOf(s) ELSE IF p = 1 THEN NULL ELSE s[p - 1]
  BY <1>1, <1>4, RemovedEnds
<1> HIDE DEF s, t
<1>6. \A i \in 1 .. Len(s) : s[i] \in Node /\ s[i] # NULL /\ (s[i] = node <=> i = p)
  BY <1>1, <1>2, <1>4, LinkedListAssumption DEF Path
<1>7. /\ next[node] = IF p = Len(s) THEN NULL ELSE s[p + 1]
      /\ prev[node] = IF p = 1 THEN NULL ELSE s[p - 1]
  BY <1>2, <1>4 DEF Path
<1>8. /\ p # Len(s) => p + 1 \in 1 .. Len(s)
      /\ p # 1 => p - 1 \in 1 .. Len(s)
  BY <1>1, <1>4
<1>9. /\ next[node] \in Node \cup {NULL} /\ prev[node] \in Node \cup {NULL}
      /\ next[node] \in Range(s) \cup {NULL} /\ prev[node] \in Range(s) \cup {NULL}
  BY <1>1, <1>6, <1>7, <1>8
<1>10. ASSUME NEW x \in Node
       PROVE /\ next'[x] = IF x = node THEN NULL ELSE IF x = prev[node] THEN next[node] ELSE next[x]
             /\ prev'[x] = IF x = node THEN NULL ELSE IF x = next[node] THEN prev[node] ELSE prev[x]
  BY DEF Unlink
<1>11. ASSUME NEW i \in 1 .. Len(s), i # p
       PROVE  /\ next'[s[i]] = IF i = p - 1 THEN (IF p = Len(s) THEN NULL ELSE s[p + 1]) ELSE next[s[i]]
              /\ prev'[s[i]] = IF i = p + 1 THEN (IF p = 1 THEN NULL ELSE s[p - 1]) ELSE prev[s[i]]
  <2>1. s[i] \in Node /\ s[i] # node /\ s[i] # NULL
    BY <1>6, <1>11
  <2>2. s[i] = prev[node] <=> i = p - 1
    <3>1. CASE p = 1
      <4>1. i # p - 1
        BY <1>1, <3>1
      <4> QED
        BY <1>7, <2>1, <3>1, <4>1
    <3>2. CASE p # 1
      BY <1>2, <1>7, <1>8, <3>2 DEF Path
    <3> QED
      BY <3>1, <3>2
  <2>3. s[i] = next[node] <=> i = p + 1
    <3>1. CASE p = Len(s)
      <4>1. i # p + 1
        BY <1>1, <3>1
      <4> QED
        BY <1>7, <2>1, <3>1, <4>1
    <3>2. CASE p # Len(s)
      BY <1>2, <1>7, <1>8, <3>2 DEF Path
    <3> QED
      BY <3>1, <3>2
  <2> QED
    BY <1>7, <1>10, <2>1, <2>2, <2>3
<1>12. LinkedOut(next, prev, next', prev', s, p)
  BY <1>11 DEF LinkedOut
<1>13. ASSUME NEW x \in Node, x \notin Range(s)
       PROVE  next'[x] = next[x] /\ prev'[x] = prev[x]
  <2>1. x # node /\ x # next[node] /\ x # prev[node]
    BY <1>1, <1>4, <1>9, <1>13, LinkedListAssumption
  <2> QED
    BY <1>10, <2>1
<1>14. head'[l] = FirstOf(t) /\ tail'[l] = LastOf(t)
  <2>1. head'[l] = IF head[l] = node THEN next[node] ELSE head[l]
    BY <1>1 DEF Unlink, Types
  <2>2. tail'[l] = IF tail[l] = node THEN prev[node] ELSE tail[l]
    BY <1>1 DEF Unlink, Types
  <2>3. (head[l] = node <=> p = 1) /\ (tail[l] = node <=> p = Len(s))
    BY <1>3, <1>6
  <2> QED
    BY <1>1, <1>5, <1>7, <2>1, <2>2, <2>3
<1>15. Types'
  <2>1. head' \in [List -> Node \cup {NULL}] /\ tail' \in [List -> Node \cup {NULL}]
    BY <1>1, <1>9 DEF Unlink, Types
  <2>2. size' \in [List -> Int]
    BY <1>1 DEF Unlink, Types
  <2>3. next' \in [Node -> Node \cup {NULL}] /\ prev' \in [Node -> Node \cup {NULL}]
    BY <1>9 DEF Unlink, Types
  <2>4. nodes' \subseteq Node /\ built' \subseteq List
    BY DEF Unlink, Types
  <2> QED
    BY <2>1, <2>2, <2>3, <2>4 DEF Types
<1> QED
  BY <1>12, <1>13, <1>14, <1>15 DEF s, t

\* The walk goes on over what is left of the path of l.
LEMMA WalkKept ==
  ASSUME NEW F, Paths(next, prev, F), Walking(F), NEW l \in Owner, NEW s, NEW gone,
         KeepIterator(gone),
         \A x \in Range(F[l]) : \A y \in Range(F[l]) :
            Before(F[l], x, y) /\ x \notin gone /\ y \notin gone => Before(s, x, y)
  PROVE  Walking([F EXCEPT ![l] = s])'
<1> DEFINE G == [F EXCEPT ![l] = s]
<1>1. F \in [Owner -> Seq(Node)]
  BY DEF Paths
<1>2. G[l] = s /\ \A k \in Owner \ {l} : G[k] = F[k]
  BY <1>1
<1> HIDE DEF G
<1>3. CASE iter \in gone
  <2>1. iter' = NULL /\ due' = {}
    BY <1>3 DEF KeepIterator
  <2> QED
    BY <2>1 DEF Walking, G
<1>4. CASE iter \notin gone
  <2>1. iter' = iter /\ walk' = walk /\ due' = due \ gone
    BY <1>4 DEF KeepIterator
  <2>2. ASSUME NEW x \in due \ gone PROVE Ahead(G, x)'
    <3>1. PICK k \in Owner :
            IF walk = "reverse" THEN Before(F[k], x, iter) ELSE Before(F[k], iter, x)
      BY DEF Walking, Ahead
    <3>2. F[k] \in Seq(Node)
      BY <1>1
    <3>3. x \in Range(F[k]) /\ iter \in Range(F[k])
      BY <3>1, <3>2, RangeIs DEF Before
    <3>4. IF walk = "reverse" THEN Before(G[k], x, iter) ELSE Before(G[k], iter, x)
      BY <1>2, <1>4, <3>1, <3>3
    <3> QED
      BY <2>1, <3>4 DEF Ahead
  <2>3. iter' = NULL => due' = {}
    BY <2>1 DEF Walking
  <2> QED
    BY <2>1, <2>2, <2>3 DEF Walking, G
<1> QED
  BY <1>3, <1>4

LEMMA Removal ==
  ASSUME Types, NEW F, Shape(F), Walking(F), NEW l \in built, NEW p \in 1 .. Len(F[l]),
         NEW node, node = F[l][p], Unlink(l, node)
  PROVE  Types' /\ Shape(Cut(F, l, p))' /\ Walking(Cut(F, l, p))'
<1> DEFINE s == F[l]
           t == RemoveAt(s, p)
           G == Cut(F, l, p)
<1>1. /\ l \in List /\ l \in Owner /\ F \in [Owner -> Seq(Node)] /\ s \in Seq(Node) /\ Len(s) \in Nat
      /\ Range(s) \subseteq nodes /\ size[l] = Len(s)
  BY PathOf
<1>2. Path(next, prev, s)
  BY PathOf
<1>3. p \in 1 .. Len(s) /\ node = s[p]
  OBVIOUS
<1>4. /\ LinkedOut(next, prev, next', prev', s, p)
      /\ \A x \in Node : x \notin Range(s) => next'[x] = next[x] /\ prev'[x] = prev[x]
      /\ head'[l] = FirstOf(t) /\ tail'[l] = LastOf(t)
      /\ Types'
  BY Unlinked
<1>5. t \in Seq(Node) /\ Len(t) = Len(s) - 1
  BY <1>1, <1>3, RemovedFrom
<1>6. Path(next', prev', t)
  BY <1>2, <1>3, <1>4, RemovedPath
<1>7. Range(t) = Range(s) \ {node}
  <2>1. \A i, j \in 1 .. Len(s) : s[i] = s[j] => i = j
    BY <1>2 DEF Path
  <2> HIDE DEF s
  <2> QED
    BY <1>1, <1>3, <2>1, RemovedRange
<1>8. G = [F EXCEPT ![l] = t]
  BY DEF Cut
<1>9. ASSUME NEW x, NEW y, Before(s, x, y), x # node, y # node PROVE Before(t, x, y)
  BY <1>1, <1>3, <1>9, RemovedBefore
<1> HIDE DEF s, t, G
<1>10. G[l] = t /\ \A k \in Owner \ {l} : G[k] = F[k]
  BY <1>1, <1>8
<1>11. ASSUME NEW k \in Owner \ {l}, NEW x \in Range(F[k])
       PROVE  next'[x] = next[x] /\ prev'[x] = prev[x] /\ x \notin Range(t) /\ x # node
  <2>1. x \in Node
    BY DEF Shape, Types
  <2>2. x \notin Range(s)
    BY <1>1 DEF Shape, Paths, s
  <2>3. node \in Range(s)
    BY <1>1, <1>3, RangeIs
  <2> QED
    BY <1>4, <1>7, <2>1, <2>2, <2>3
<1>12. Paths(next', prev', G)
  <2>1. Paths(next, prev, F)
    BY DEF Shape
  <2>2. Apart(next, prev, next', prev', F, l, t)
    BY <1>11 DEF Apart
  <2>3. Paths(next', prev', [F EXCEPT ![l] = t])
    BY <1>1, <1>6, <2>1, <2>2, PathsReplaced
  <2> QED
    BY <1>8, <2>3
<1>13. Ends(head', tail', size', G)
  <2>1. ASSUME NEW m \in List
        PROVE  head'[m] = FirstOf(G[m]) /\ tail'[m] = LastOf(G[m]) /\ size'[m] = Len(G[m])
    <3>1. head[m] = FirstOf(F[m]) /\ tail[m] = LastOf(F[m]) /\ size[m] = Len(F[m]) /\ m \in Owner
      BY DEF Shape, Ends, Owner
    <3>2. CASE m = l
      <4>1. size'[m] = size[m] - 1
        BY <1>1, <3>2 DEF Unlink, Types
      <4> QED
        BY <1>1, <1>4, <1>5, <1>10, <3>2, <4>1
    <3>3. CASE m # l
      <4>1. head'[m] = head[m] /\ tail'[m] = tail[m] /\ size'[m] = size[m]
        BY <1>1, <3>3 DEF Unlink, Types
      <4> QED
        BY <1>10, <3>1, <3>3, <4>1
    <3> QED
      BY <3>2, <3>3
  <2> QED
    BY <2>1 DEF Ends
<1>14. ASSUME NEW k \in Owner PROVE Range(G[k]) \subseteq nodes'
  <2>1. Range(F[k]) \subseteq nodes /\ nodes' = nodes \ {node}
    BY DEF Shape, Unlink
  <2> QED
    BY <1>1, <1>7, <1>10, <1>11, <2>1
<1>15. \A m \in List \ built' : G[m] = <<>>
  BY <1>10 DEF Shape, Unlink, Owner
<1>16. Shape(G)'
  BY <1>12, <1>13, <1>14, <1>15 DEF Shape
<1>17. Walking([F EXCEPT ![l] = t])'
  <2>1. Paths(next, prev, F)
    BY DEF Shape
  <2>2. KeepIterator({node})
    BY DEF Unlink
  <2>3. \A x \in Range(F[l]) : \A y \in Range(F[l]) :
            Before(F[l], x, y) /\ x \notin {node} /\ y \notin {node} => Before(t, x, y)
    BY <1>9 DEF s
  <2> QED
    BY <1>1, <2>1, <2>2, <2>3, WalkKept
<1> QED
  BY <1>4, <1>8, <1>16, <1>17 DEF G

Drop(F, l) == [F EXCEPT ![l] = <<>>]

LEMMA Destruction ==
  ASSUME Types, NEW F, Shape(F), Walking(F), NEW l \in built, Destroy(l)
  PROVE  Types' /\ Shape(Drop(F, l))' /\ Walking(Drop(F, l))'
<1> DEFINE G == Drop(F, l)
           gone == Range(F[l])
<1>1. /\ l \in List /\ l \in Owner /\ F \in [Owner -> Seq(Node)]
      /\ gone \subseteq nodes /\ OnList(l) = gone
  BY PathOf
<1>2. /\ nodes' = nodes \ gone
      /\ next' = [n \in Node |-> IF n \in gone THEN NULL ELSE next[n]]
      /\ prev' = [n \in Node |-> IF n \in gone THEN NULL ELSE prev[n]]
      /\ KeepIterator(gone)
  BY <1>1 DEF Destroy
<1>3. /\ built' = built \ {l}
      /\ head' = [head EXCEPT ![l] = NULL] /\ tail' = [tail EXCEPT ![l] = NULL]
      /\ size' = [size EXCEPT ![l] = 0]
  BY DEF Destroy
<1>4. G = [F EXCEPT ![l] = <<>>] /\ Range(<<>>) = {}
  BY DEF Drop, Range
<1> HIDE DEF G, gone
<1>5. G[l] = <<>> /\ \A k \in Owner \ {l} : G[k] = F[k]
  BY <1>1, <1>4
<1>6. ASSUME NEW k \in Owner \ {l}, NEW x \in Range(F[k])
      PROVE  next'[x] = next[x] /\ prev'[x] = prev[x] /\ x \notin Range(<<>>) /\ x \notin gone
  <2>1. x \in Node
    BY DEF Shape, Types
  <2>2. x \notin gone
    BY <1>1 DEF Shape, Paths, gone
  <2> QED
    BY <1>2, <1>4, <2>1, <2>2
<1>7. Paths(next', prev', G)
  <2>1. Paths(next, prev, F) /\ Path(next', prev', <<>>)
    BY EmptyPath DEF Shape
  <2>2. Apart(next, prev, next', prev', F, l, <<>>)
    BY <1>6 DEF Apart
  <2>3. Paths(next', prev', [F EXCEPT ![l] = <<>>])
    BY <1>1, <2>1, <2>2, PathsReplaced
  <2> QED
    BY <1>4, <2>3
<1>8. Ends(head', tail', size', G)
  <2>1. ASSUME NEW m \in List
        PROVE  head'[m] = FirstOf(G[m]) /\ tail'[m] = LastOf(G[m]) /\ size'[m] = Len(G[m])
    <3>1. head[m] = FirstOf(F[m]) /\ tail[m] = LastOf(F[m]) /\ size[m] = Len(F[m]) /\ m \in Owner
      BY DEF Shape, Ends, Owner
    <3>2. CASE m = l
      <4>1. head'[m] = NULL /\ tail'[m] = NULL /\ size'[m] = 0
        BY <1>1, <1>3, <3>2 DEF Types
      <4> QED
        BY <1>5, <3>2, <4>1, EmptySeq DEF FirstOf, LastOf
    <3>3. CASE m # l
      <4>1. head'[m] = head[m] /\ tail'[m] = tail[m] /\ size'[m] = size[m]
        BY <1>1, <1>3, <3>3 DEF Types
      <4> QED
        BY <1>5, <3>1, <3>3, <4>1
    <3> QED
      BY <3>2, <3>3
  <2> QED
    BY <2>1 DEF Ends
<1>9. ASSUME NEW k \in Owner PROVE Range(G[k]) \subseteq nodes'
  <2>1. Range(F[k]) \subseteq nodes
    BY DEF Shape
  <2> QED
    BY <1>2, <1>4, <1>5, <1>6, <2>1
<1>10. \A m \in List \ built' : G[m] = <<>>
  BY <1>3, <1>5 DEF Shape, Owner
<1>11. Shape(G)'
  BY <1>7, <1>8, <1>9, <1>10 DEF Shape
<1>12. Types'
  BY <1>1, <1>2, <1>3 DEF Types
<1>13. Walking([F EXCEPT ![l] = <<>>])'
  <2>1. Paths(next, prev, F)
    BY DEF Shape
  <2>2. \A x \in Range(F[l]) : \A y \in Range(F[l]) :
            Before(F[l], x, y) /\ x \notin gone /\ y \notin gone => Before(<<>>, x, y)
    BY DEF gone
  <2> QED
    BY <1>1, <1>2, <2>1, <2>2, WalkKept
<1> QED
  BY <1>4, <1>11, <1>12, <1>13 DEF G

\* The paths after l got what m has. If the iterator is on a node that l had, that
\* path is the lost one from now on.
Handed(F, l, m) ==
  [k \in Owner |-> IF k = m THEN <<>> ELSE IF k = l THEN F[m]
                   ELSE IF k = Lost /\ iter \in Range(F[l]) THEN F[l] ELSE F[k]]

LEMMA HandingOver ==
  ASSUME Types, NEW F, Shape(F), Walking(F), NEW l \in List, NEW m \in built,
         HandOver(l, m), built' = built \cup {l}, NEW G, G = Handed(F, l, m)
  PROVE  Types' /\ Shape(G)' /\ Walking(G)'
<1>1. /\ F \in [Owner -> Seq(Node)] /\ m \in List /\ l \in Owner /\ m \in Owner /\ Lost \in Owner
      /\ Lost # l /\ Lost # m /\ <<>> \in Seq(Node) /\ Range(<<>>) = {}
  BY LostIsNone, EmptySeq DEF Shape, Paths, Types, Owner, Range
<1>2. \A k \in Owner : F[k] \in Seq(Node)
  BY <1>1
<1>3. G = [k \in Owner |-> IF k = m THEN <<>> ELSE IF k = l THEN F[m]
                           ELSE IF k = Lost /\ iter \in Range(F[l]) THEN F[l] ELSE F[k]]
  BY DEF Handed
<1>4. \A k \in Owner : G[k] = IF k = m THEN <<>> ELSE IF k = l THEN F[m]
                              ELSE IF k = Lost /\ iter \in Range(F[l]) THEN F[l] ELSE F[k]
  BY <1>3
<1>5. G \in [Owner -> Seq(Node)]
  BY <1>1, <1>2, <1>3
<1>6. next' = next /\ prev' = prev /\ nodes' = nodes /\ iter' = iter /\ walk' = walk /\ due' = due
  BY DEF HandOver, links, iterator
<1>7. \A j, k \in Owner : \A x \in Range(F[j]) : x \in Range(F[k]) => j = k
  BY DEF Shape, Paths
\* Where the path of k comes from; two paths do not come from one.
<1> DEFINE From(k) == IF k = l THEN m ELSE IF k = Lost /\ iter \in Range(F[l]) THEN l ELSE k
<1>8. ASSUME NEW k \in Owner, k # m PROVE From(k) \in Owner /\ G[k] = F[From(k)]
  BY <1>1, <1>4, <1>8
<1>9. ASSUME NEW j \in Owner, NEW k \in Owner, j # m, k # m, From(j) = From(k) PROVE j = k
  BY <1>1, <1>9
<1> HIDE DEF From
<1>10. G[m] = <<>>
  BY <1>1, <1>4
<1>11. ASSUME NEW k \in Owner
       PROVE  Path(next', prev', G[k]) /\ Range(G[k]) \subseteq nodes'
  <2>1. CASE k = m
    BY <1>1, <1>10, <2>1, EmptyPath
  <2>2. CASE k # m
    BY <1>6, <1>8, <2>2 DEF Shape, Paths
  <2> QED
    BY <2>1, <2>2
<1>12. ASSUME NEW j \in Owner, NEW k \in Owner, NEW x \in Range(G[j]), x \in Range(G[k])
       PROVE  j = k
  <2>1. j # m /\ k # m
    BY <1>1, <1>10, <1>12
  <2>2. From(j) = From(k)
    BY <1>7, <1>8, <1>12, <2>1
  <2> QED
    BY <1>9, <2>1, <2>2
<1>13. Paths(next', prev', G)
  BY <1>5, <1>11, <1>12 DEF Paths
<1>14. ASSUME NEW k \in List
       PROVE  head'[k] = FirstOf(G[k]) /\ tail'[k] = LastOf(G[k]) /\ size'[k] = Len(G[k])
  <2>1. /\ head' = [head EXCEPT ![l] = head[m], ![m] = NULL]
        /\ tail' = [tail EXCEPT ![l] = tail[m], ![m] = NULL]
        /\ size' = [size EXCEPT ![l] = size[m], ![m] = 0]
    BY DEF HandOver
  <2>2. /\ head'[k] = IF k = m THEN NULL ELSE IF k = l THEN head[m] ELSE head[k]
        /\ tail'[k] = IF k = m THEN NULL ELSE IF k = l THEN tail[m] ELSE tail[k]
        /\ size'[k] = IF k = m THEN 0 ELSE IF k = l THEN size[m] ELSE size[k]
    BY <1>1, <2>1 DEF Types
  <2>3. \A j \in List : head[j] = FirstOf(F[j]) /\ tail[j] = LastOf(F[j]) /\ size[j] = Len(F[j])
    BY DEF Shape, Ends
  <2>4. FirstOf(<<>>) = NULL /\ LastOf(<<>>) = NULL /\ Len(<<>>) = 0
    BY EmptySeq DEF FirstOf, LastOf
  <2>5. k \in Owner /\ k # Lost
    BY LostIsNone DEF Owner
  <2> QED
    BY <1>1, <1>4, <2>2, <2>3, <2>4, <2>5
<1>15. \A k \in List \ built' : G[k] = <<>>
  <2>1. ASSUME NEW k \in List \ built' PROVE G[k] = <<>>
    <3>1. k \in List \ built /\ k # l /\ k # m /\ k # Lost /\ k \in Owner
      BY LostIsNone DEF Owner
    <3> QED
      BY <1>4, <3>1 DEF Shape
  <2> QED
    BY <2>1
<1>16. Shape(G)'
  BY <1>11, <1>13, <1>14, <1>15 DEF Shape, Ends
<1>17. Types'
  <2>1. head' \in [List -> Node \cup {NULL}] /\ tail' \in [List -> Node \cup {NULL}]
    <3>1. /\ head' = [head EXCEPT ![l] = head[m], ![m] = NULL]
          /\ tail' = [tail EXCEPT ![l] = tail[m], ![m] = NULL]
      BY DEF HandOver
    <3> QED
      BY <1>1, <3>1 DEF Types
  <2>2. size' \in [List -> Int]
    <3>1. size' = [size EXCEPT ![l] = size[m], ![m] = 0]
      BY DEF HandOver
    <3> QED
      BY <1>1, <3>1 DEF Types
  <2> QED
    BY <1>6, <2>1, <2>2 DEF Types
<1>18. Walking(G)'
  <2>1. ASSUME NEW x \in due PROVE Ahead(G, x)'
    <3>1. PICK k \in Owner :
            IF walk = "reverse" THEN Before(F[k], x, iter) ELSE Before(F[k], iter, x)
      BY DEF Walking, Ahead
    <3>2. iter \in Range(F[k])
      BY <1>2, <3>1, RangeIs DEF Before
    <3>3. PICK j \in Owner : G[j] = F[k]
      <4>1. CASE k = m /\ l # m
        <5>1. G[l] = F[k]
          BY <1>1, <1>4, <4>1
        <5> QED
          BY <1>1, <5>1
      <4>2. CASE k = l
        <5>1. G[Lost] = F[k]
          BY <1>1, <1>4, <3>2, <4>2
        <5> QED
          BY <1>1, <5>1
      <4>3. CASE k # l /\ k # m
        <5>1. iter \notin Range(F[l])
          BY <1>1, <1>7, <3>2, <4>3
        <5> QED
          BY <1>4, <4>3, <5>1
      <4> QED
        BY <4>1, <4>2, <4>3
    <3> QED
      BY <1>6, <3>1, <3>3 DEF Ahead
  <2> QED
    BY <1>6, <2>1 DEF Walking
<1> QED
  BY <1>16, <1>17, <1>18

LEMMA Construction ==
  ASSUME Types, NEW F, Shape(F), Walking(F), NEW l \in List, Construct(l)
  PROVE  Types' /\ Shape(F)' /\ Walking(F)'
<1>1. /\ next' = next /\ prev' = prev /\ nodes' = nodes /\ iter' = iter /\ walk' = walk /\ due' = due
      /\ l \notin built /\ built' = built \cup {l}
      /\ head' = [head EXCEPT ![l] = NULL] /\ tail' = [tail EXCEPT ![l] = NULL]
      /\ size' = [size EXCEPT ![l] = 0]
  BY DEF Construct, links, iterator
<1>2. F[l] = <<>>
  BY <1>1 DEF Shape
<1>3. FirstOf(F[l]) = NULL /\ LastOf(F[l]) = NULL /\ Len(F[l]) = 0
  BY <1>2, EmptySeq DEF FirstOf, LastOf
<1>4. Ends(head', tail', size', F)
  BY <1>1, <1>3 DEF Shape, Ends, Types
<1>5. Shape(F)'
  BY <1>1, <1>4 DEF Shape
<1>6. Walking(F)'
  BY <1>1 DEF Walking, Ahead
<1> QED
  BY <1>1, <1>5, <1>6 DEF Types

----------------------------------------------------------------------------
(* Iterators.                                                              *)

LEMMA Beginning ==
  ASSUME Types, NEW F, Shape(F), NEW l \in built, begin(l) \/ rbegin(l)
  PROVE  Types' /\ Shape(F)' /\ Walking(F)'
<1> DEFINE s == F[l]
<1>1. /\ l \in Owner /\ s \in Seq(Node) /\ Len(s) \in Nat
      /\ Range(s) = {s[i] : i \in 1 .. Len(s)}
      /\ head[l] = FirstOf(s) /\ tail[l] = LastOf(s) /\ OnList(l) = Range(s)
  BY PathOf
<1>2. /\ s = <<>> => head[l] = NULL /\ tail[l] = NULL /\ Len(s) = 0
      /\ s # <<>> => /\ head[l] = s[1] /\ tail[l] = s[Len(s)] /\ head[l] # NULL /\ tail[l] # NULL
                     /\ 1 \in 1 .. Len(s) /\ Len(s) \in 1 .. Len(s)
  BY <1>1, EndsOf
<1>3. /\ UNCHANGED <<links, lists>>
      /\ due' = OnList(l) \ {iter'}
      /\ \/ iter' = head[l] /\ walk' = "forward"
         \/ iter' = tail[l] /\ walk' = "reverse"
  BY DEF begin, rbegin, StartAt
<1> HIDE DEF s
<1>4. Types' /\ Shape(F)'
  BY <1>3 DEF Types, Shape, links, lists
<1>5. CASE s = <<>>
  <2>1. due' = {}
    BY <1>1, <1>2, <1>3, <1>5
  <2> QED
    BY <1>4, <2>1 DEF Walking
<1>6. CASE s # <<>>
  <2>1. ASSUME NEW x \in due' PROVE Ahead(F, x)'
    <3>1. PICK i \in 1 .. Len(s) : x = s[i] /\ x # iter'
      BY <1>1, <1>3
    <3>2. CASE iter' = head[l] /\ walk' = "forward"
      <4>1. 1 < i
        BY <1>1, <1>2, <1>6, <3>1, <3>2
      <4>2. Before(s, iter', x)
        BY <1>2, <1>6, <3>1, <3>2, <4>1 DEF Before
      <4> QED
        BY <1>1, <3>2, <4>2 DEF Ahead, s
    <3>3. CASE iter' = tail[l] /\ walk' = "reverse"
      <4>1. i < Len(s)
        BY <1>1, <1>2, <1>6, <3>1, <3>3
      <4>2. Before(s, x, iter')
        BY <1>2, <1>6, <3>1, <3>3, <4>1 DEF Before
      <4> QED
        BY <1>1, <3>3, <4>2 DEF Ahead, s
    <3> QED
      BY <1>3, <3>2, <3>3
  <2>2. iter' # NULL
    BY <1>2, <1>3, <1>6
  <2> QED
    BY <1>4, <2>1, <2>2 DEF Walking
<1> QED
  BY <1>5, <1>6

LEMMA Advancing ==
  ASSUME Types, NEW F, Shape(F), Walking(F), Advance
  PROVE  Types' /\ Shape(F)' /\ Walking(F)'
<1>1. /\ UNCHANGED <<links, lists>> /\ walk' = walk /\ due' = due \ {iter'}
      /\ iter' = IF walk = "reverse" THEN prev[iter] ELSE next[iter]
  BY DEF Advance, Following
<1>2. Types' /\ Shape(F)'
  BY <1>1 DEF Types, Shape, links, lists
<1>3. ASSUME NEW x \in due
      PROVE  iter' # NULL /\ (x # iter' => Ahead(F, x)')
  <2>1. PICK k \in Owner :
            IF walk = "reverse" THEN Before(F[k], x, iter) ELSE Before(F[k], iter, x)
    BY DEF Walking, Ahead
  <2> DEFINE s == F[k]
  <2>2. Path(next, prev, s)
    BY DEF Shape, Paths
  <2>3. /\ s \in Seq(Node) /\ Len(s) \in Nat
        /\ \A i \in 1 .. Len(s) : /\ s[i] # NULL
                                  /\ next[s[i]] = IF i = Len(s) THEN NULL ELSE s[i + 1]
                                  /\ prev[s[i]] = IF i = 1 THEN NULL ELSE s[i - 1]
    BY <2>2, LinkedListAssumption DEF Path
  <2> HIDE DEF s
  <2>4. CASE walk = "reverse"
    <3>1. PICK a, b \in 1 .. Len(s) : a < b /\ s[a] = x /\ s[b] = iter
      BY <2>1, <2>4 DEF Before, s
    <3>2. PICK c \in 1 .. Len(s) : c = b - 1 /\ b # 1
      BY <2>3, <3>1
    <3>3. iter' = s[c]
      BY <1>1, <2>3, <2>4, <3>1, <3>2
    <3>4. ASSUME x # iter' PROVE Before(s, x, iter')
      <4>1. a < c
        BY <3>1, <3>2, <3>3, <3>4
      <4> QED
        BY <3>1, <3>3, <4>1 DEF Before
    <3> QED
      BY <1>1, <2>3, <2>4, <3>3, <3>4 DEF Ahead, s
  <2>5. CASE walk # "reverse"
    <3>1. PICK a, b \in 1 .. Len(s) : a < b /\ s[a] = iter /\ s[b] = x
      BY <2>1, <2>5 DEF Before, s
    <3>2. PICK c \in 1 .. Len(s) : c = a + 1 /\ a # Len(s)
      BY <2>3, <3>1
    <3>3. iter' = s[c]
      BY <1>1, <2>3, <2>5, <3>1, <3>2
    <3>4. ASSUME x # iter' PROVE Before(s, iter', x)
      <4>1. c < b
        BY <3>1, <3>2, <3>3, <3>4
      <4> QED
        BY <3>1, <3>3, <4>1 DEF Before
    <3> QED
      BY <1>1, <2>3, <2>5, <3>3, <3>4 DEF Ahead, s
  <2> QED
    BY <2>4, <2>5
<1>4. Walking(F)'
  BY <1>1, <1>3 DEF Walking
<1> QED
  BY <1>2, <1>4

----------------------------------------------------------------------------
(* Texts and the memory. Sound is the invariant of the memory, and each    *)
(* operator of Strings keeps it; the lemmas also say what the strings then *)
(* hold, and that no buffer is left without an owner that had one.         *)

LEMMA WithoutIs ==
  ASSUME NEW S, NEW s \in Seq(S), NEW c
  PROVE  Without(s, c) \in Seq(S) /\ Len(Without(s, c)) <= Len(s)
<1> DEFINE kept == {k \in DOMAIN s : s[k] # c}
           N == Cardinality(kept)
           UpTo(k) == {m \in kept : m <= k}
           rank == [k \in kept |-> Cardinality(UpTo(k))]
<1>1. Len(s) \in Nat /\ DOMAIN s = 1 .. Len(s)
  OBVIOUS
<1>2. IsFiniteSet(kept) /\ N \in Nat /\ N <= Len(s)
  <2>1. PICK n \in Nat : n = Len(s)
    BY <1>1
  <2>2. IsFiniteSet(1 .. n) /\ Cardinality(1 .. n) = n
    BY FS_Interval
  <2>3. kept \in SUBSET (1 .. n)
    BY <1>1, <2>1
  <2> HIDE DEF kept
  <2>4. IsFiniteSet(kept) /\ Cardinality(kept) <= Cardinality(1 .. n)
    BY <2>2, <2>3, FS_Subset
  <2> QED
    BY <2>1, <2>2, <2>4, FS_CardinalityType
<1>3. \A k \in kept : k \in Nat
  BY <1>1
<1>4. ASSUME NEW k \in kept
      PROVE  IsFiniteSet(UpTo(k)) /\ Cardinality(UpTo(k)) \in 1 .. N
  <2>1. UpTo(k) \in SUBSET kept /\ k \in UpTo(k)
    BY <1>3
  <2> HIDE DEF UpTo, kept
  <2>2. IsFiniteSet(UpTo(k)) /\ Cardinality(UpTo(k)) <= N
    BY <1>2, <2>1, FS_Subset
  <2>3. Cardinality(UpTo(k)) \in Nat
    BY <2>2, FS_CardinalityType
  <2>4. Cardinality(UpTo(k)) # 0
    BY <2>1, <2>2, FS_EmptySet
  <2> QED
    BY <1>2, <2>2, <2>3, <2>4
<1>5. ASSUME NEW j \in kept, NEW k \in kept, j < k
      PROVE  Cardinality(UpTo(j)) # Cardinality(UpTo(k))
  <2>1. UpTo(j) \in SUBSET UpTo(k) /\ k \in UpTo(k) /\ k \notin UpTo(j)
    BY <1>3, <1>5
  <2>2. IsFiniteSet(UpTo(k))
    BY <1>4
  <2> HIDE DEF UpTo, kept
  <2>3. Cardinality(UpTo(k)) = Cardinality(UpTo(j)) => UpTo(k) = UpTo(j)
    BY <2>1, <2>2, FS_Subset
  <2> QED
    BY <2>1, <2>3
<1> HIDE DEF UpTo
<1>6. rank \in Injection(kept, 1 .. N)
  <2>1. rank \in [kept -> 1 .. N]
    BY <1>4
  <2>2. ASSUME NEW j \in kept, NEW k \in kept, rank[j] = rank[k] PROVE j = k
    <3>1. Cardinality(UpTo(j)) = Cardinality(UpTo(k))
      BY <2>2
    <3>2. ~(j < k) /\ ~(k < j)
      BY <1>5, <3>1
    <3>3. j \in Nat /\ k \in Nat
      BY <1>3
    <3> QED
      BY <3>2, <3>3
  <2> HIDE DEF rank, kept
  <2> QED
    BY <2>1, <2>2 DEF Injection, IsInjective
<1>7. rank \in Surjection(kept, 1 .. N)
  <2>1. PICK n \in Nat : n = N
    BY <1>2
  <2>2. IsFiniteSet(1 .. n) /\ Cardinality(1 .. n) = n
    BY <2>1, FS_Interval
  <2> HIDE DEF rank, kept
  <2> QED
    BY <1>6, <2>1, <2>2, FS_Injection
<1>8. ASSUME NEW n \in 1 .. N
      PROVE  \E k \in kept : Cardinality(UpTo(k)) = n
  <2>1. \E k \in kept : rank[k] = n
    <3> HIDE DEF rank, kept
    <3> QED
      BY <1>7 DEF Surjection
  <2> QED
    BY <2>1
<1> DEFINE At(n) == CHOOSE k \in kept : Cardinality(UpTo(k)) = n
<1>9. ASSUME NEW n \in 1 .. N PROVE s[At(n)] \in S
  <2>1. At(n) \in kept
    <3> HIDE DEF kept
    <3> QED
      BY <1>8
  <2> QED
    BY <1>1, <2>1
<1>10. Without(s, c) = [n \in 1 .. N |-> s[At(n)]]
  BY DEF Without, UpTo
<1> HIDE DEF At, kept, N
<1>11. [n \in 1 .. N |-> s[At(n)]] \in Seq(S) /\ Len([n \in 1 .. N |-> s[At(n)]]) = N
  BY <1>2, <1>9
<1> QED
  BY <1>2, <1>10, <1>11

AnyText == Seq(Letters)

LEMMA GivenTexts ==
  ASSUME NEW t \in Given
  PROVE  t \in AnyText /\ Len(t) \in Nat
<1>1. t \in Seq(Range(t)) /\ Range(t) \subseteq Letters
  BY StringsAssumption DEF Letters
<1> QED
  BY <1>1, SeqMonotonic DEF AnyText

LEMMA EmptyText == <<>> \in AnyText /\ Len(<<>>) = 0
  BY EmptySeq DEF AnyText

Sound(m) ==
  /\ m.heap \in [Buffer -> [text : AnyText, cap : Nat]]
  /\ m.str \in [Place -> Buffer \cup {NULL}]
  /\ \A p \in Place : m.str[p] # NULL => Len(m.heap[m.str[p]].text) < m.heap[m.str[p]].cap
  /\ \A p, q \in Place : m.str[p] = m.str[q] => p = q \/ m.str[p] = NULL

\* The buffers that were given out and that no string points to.
Lone(m) == {b \in Buffer : m.heap[b] # Freed /\ \A p \in Place : m.str[p] # b}

LEMMA Facts ==
  ASSUME NEW m, Sound(m), NEW p \in Place
  PROVE  /\ Text(m, p) \in AnyText /\ Len(Text(m, p)) \in Nat
         /\ m.str[p] = NULL => Text(m, p) = <<>>
         /\ m.str[p] # NULL => /\ m.str[p] \in Buffer /\ m.heap[m.str[p]] # Freed
                               /\ Text(m, p) = m.heap[m.str[p]].text
                               /\ m.heap[m.str[p]].cap \in Nat
                               /\ m.heap[m.str[p]].cap > Len(Text(m, p))
<1>1. m.str[p] # NULL =>
        /\ m.str[p] \in Buffer /\ m.heap[m.str[p]].text \in AnyText /\ m.heap[m.str[p]].cap \in Nat
        /\ Len(m.heap[m.str[p]].text) < m.heap[m.str[p]].cap
  BY DEF Sound
<1>2. Text(m, p) = IF m.str[p] = NULL THEN <<>> ELSE m.heap[m.str[p]].text
  BY DEF Text
<1>3. Text(m, p) \in AnyText
  BY <1>1, <1>2, EmptyText
<1>4. Len(Text(m, p)) \in Nat
  BY <1>3 DEF AnyText
<1>5. m.str[p] # NULL => m.heap[m.str[p]] # Freed
  <2> SUFFICES ASSUME m.str[p] # NULL, m.heap[m.str[p]] = Freed PROVE FALSE
    OBVIOUS
  <2>1. m.heap[m.str[p]].cap = 0
    BY DEF Freed
  <2> QED
    BY <1>1, <1>2, <1>4, <2>1
<1> QED
  BY <1>1, <1>2, <1>3, <1>4, <1>5

Fits(t, n) == Len(t) <= n

LEMMA Made ==
  ASSUME NEW m, Sound(m), NEW v \in Place, NEW b \in Buffer, m.heap[b] = Freed,
         NEW t \in AnyText, NEW n \in Nat, Fits(t, n), NEW m2, m2 = Make(m, v, b, t, n)
  PROVE  /\ Sound(m2)
         /\ \A p \in Place : Text(m2, p) = IF p = v THEN t ELSE Text(m, p)
         /\ \A p \in Place : p # v => m2.str[p] = m.str[p]
         /\ m.str[v] = NULL => Lone(m2) \subseteq Lone(m)
<1>1. /\ m2.heap = [m.heap EXCEPT ![b] = [text |-> t, cap |-> n + 1]]
      /\ m2.str = [m.str EXCEPT ![v] = b]
  BY DEF Make
<1>2. /\ m.heap \in [Buffer -> [text : AnyText, cap : Nat]]
      /\ m.str \in [Place -> Buffer \cup {NULL}]
  BY DEF Sound
<1>3. b # NULL /\ Len(t) \in Nat
  BY StringsAssumption DEF AnyText
<1>4. \A p \in Place : m.str[p] # b
  BY Facts, <1>3
<1>5. /\ \A x \in Buffer : m2.heap[x] = IF x = b THEN [text |-> t, cap |-> n + 1] ELSE m.heap[x]
      /\ \A p \in Place : m2.str[p] = IF p = v THEN b ELSE m.str[p]
  BY <1>1, <1>2
<1>6. m2.heap \in [Buffer -> [text : AnyText, cap : Nat]]
  <2>1. [text |-> t, cap |-> n + 1] \in [text : AnyText, cap : Nat]
    OBVIOUS
  <2> QED
    BY <1>1, <1>2, <2>1
<1>7. m2.str \in [Place -> Buffer \cup {NULL}]
  BY <1>1, <1>2
<1>8. ASSUME NEW p \in Place, m2.str[p] # NULL
      PROVE  Len(m2.heap[m2.str[p]].text) < m2.heap[m2.str[p]].cap
  <2>1. CASE p = v
    <3>1. m2.heap[m2.str[p]] = [text |-> t, cap |-> n + 1]
      BY <1>5, <2>1
    <3>2. m2.heap[m2.str[p]].text = t /\ m2.heap[m2.str[p]].cap = n + 1
      BY <3>1
    <3> QED
      BY <1>3, <3>2 DEF Fits
  <2>2. CASE p # v
    <3>1. m2.str[p] = m.str[p] /\ m.str[p] \in Buffer /\ m2.heap[m2.str[p]] = m.heap[m.str[p]]
      BY <1>2, <1>4, <1>5, <1>8, <2>2
    <3> QED
      BY <1>8, <3>1 DEF Sound
  <2> QED
    BY <2>1, <2>2
<1>9. ASSUME NEW p \in Place, NEW q \in Place, m2.str[p] = m2.str[q]
      PROVE  p = q \/ m2.str[p] = NULL
  <2>1. CASE p = v \/ q = v
    BY <1>4, <1>5, <1>9, <2>1
  <2>2. CASE p # v /\ q # v
    BY <1>5, <1>9, <2>2 DEF Sound
  <2> QED
    BY <2>1, <2>2
<1>10. Sound(m2)
  BY <1>6, <1>7, <1>8, <1>9 DEF Sound
<1>11. ASSUME NEW p \in Place PROVE Text(m2, p) = IF p = v THEN t ELSE Text(m, p)
  <2>1. CASE p = v
    <3>1. m2.heap[m2.str[p]] = [text |-> t, cap |-> n + 1] /\ m2.str[p] # NULL
      BY <1>3, <1>5, <2>1
    <3>2. m2.heap[m2.str[p]].text = t
      BY <3>1
    <3> QED
      BY <2>1, <3>1, <3>2 DEF Text
  <2>2. CASE p # v
    <3>1. m2.str[p] = m.str[p] /\ (m.str[p] # NULL => m2.heap[m2.str[p]] = m.heap[m.str[p]])
      BY <1>2, <1>4, <1>5, <2>2
    <3> QED
      BY <2>2, <3>1 DEF Text
  <2> QED
    BY <2>1, <2>2
<1>12. ASSUME m.str[v] = NULL, NEW x \in Lone(m2) PROVE x \in Lone(m)
  <2>1. x \in Buffer /\ m2.heap[x] # Freed /\ \A p \in Place : m2.str[p] # x
    BY DEF Lone
  <2>2. x # b
    BY <1>5, <2>1
  <2>3. m.heap[x] # Freed
    BY <1>5, <2>1, <2>2
  <2>4. x # NULL
    BY <2>1, StringsAssumption
  <2>5. \A p \in Place : m.str[p] # x
    BY <1>5, <1>12, <2>1, <2>4
  <2> QED
    BY <2>1, <2>3, <2>5 DEF Lone
<1> QED
  BY <1>5, <1>10, <1>11, <1>12

LEMMA Destructed ==
  ASSUME NEW m, Sound(m), NEW gone, gone \subseteq Place, NEW m2, m2 = Destruct(m, gone)
  PROVE  /\ Sound(m2)
         /\ \A p \in Place : Text(m2, p) = IF p \in gone THEN <<>> ELSE Text(m, p)
         /\ \A p \in Place : m2.str[p] = IF p \in gone THEN NULL ELSE m.str[p]
         /\ Lone(m2) \subseteq Lone(m)
         /\ \A b \in Buffer : m.heap[b] = Freed => m2.heap[b] = Freed
<1>1. /\ m2.heap = [b \in Buffer |-> IF \E p \in gone : m.str[p] = b THEN Freed ELSE m.heap[b]]
      /\ m2.str = [p \in Place |-> IF p \in gone THEN NULL ELSE m.str[p]]
  BY DEF Destruct
<1>2. /\ m.heap \in [Buffer -> [text : AnyText, cap : Nat]]
      /\ m.str \in [Place -> Buffer \cup {NULL}]
  BY DEF Sound
<1>3. Freed \in [text : AnyText, cap : Nat]
  BY EmptyText DEF Freed
<1>4. /\ \A b \in Buffer : m2.heap[b] = IF \E p \in gone : m.str[p] = b THEN Freed ELSE m.heap[b]
      /\ \A p \in Place : m2.str[p] = IF p \in gone THEN NULL ELSE m.str[p]
  BY <1>1
<1>5. m2.heap \in [Buffer -> [text : AnyText, cap : Nat]]
  BY <1>1, <1>2, <1>3
<1>6. m2.str \in [Place -> Buffer \cup {NULL}]
  BY <1>1, <1>2
<1>7. ASSUME NEW p \in Place, p \notin gone, m.str[p] # NULL
      PROVE  m2.str[p] = m.str[p] /\ m.str[p] \in Buffer /\ m2.heap[m2.str[p]] = m.heap[m.str[p]]
  <2>1. m2.str[p] = m.str[p] /\ m.str[p] \in Buffer
    BY <1>2, <1>4, <1>7
  <2>2. \A q \in gone : m.str[q] # m.str[p]
    BY <1>7 DEF Sound
  <2> QED
    BY <1>4, <2>1, <2>2
<1>8. ASSUME NEW p \in Place, m2.str[p] # NULL
      PROVE  Len(m2.heap[m2.str[p]].text) < m2.heap[m2.str[p]].cap
  <2>1. p \notin gone /\ m.str[p] # NULL
    BY <1>4, <1>8
  <2> QED
    BY <1>7, <2>1 DEF Sound
<1>9. ASSUME NEW p \in Place, NEW q \in Place, m2.str[p] = m2.str[q]
      PROVE  p = q \/ m2.str[p] = NULL
  BY <1>4, <1>9 DEF Sound
<1>10. Sound(m2)
  BY <1>5, <1>6, <1>8, <1>9 DEF Sound
<1>11. ASSUME NEW p \in Place PROVE Text(m2, p) = IF p \in gone THEN <<>> ELSE Text(m, p)
  <2>1. CASE p \in gone
    BY <1>4, <2>1 DEF Text
  <2>2. CASE p \notin gone
    BY <1>4, <1>7, <2>2 DEF Text
  <2> QED
    BY <2>1, <2>2
<1>12. ASSUME NEW x \in Lone(m2) PROVE x \in Lone(m)
  <2>1. x \in Buffer /\ m2.heap[x] # Freed /\ \A p \in Place : m2.str[p] # x
    BY DEF Lone
  <2>2. m.heap[x] # Freed /\ \A p \in gone : m.str[p] # x
    BY <1>4, <2>1
  <2>3. \A p \in Place : m.str[p] # x
    BY <1>4, <2>1, <2>2
  <2> QED
    BY <2>1, <2>2, <2>3 DEF Lone
<1>13. \A b \in Buffer : m.heap[b] = Freed => m2.heap[b] = Freed
  BY <1>4
<1> QED
  BY <1>4, <1>10, <1>11, <1>12, <1>13

LEMMA Moved ==
  ASSUME NEW m, Sound(m), NEW p \in Place, NEW q \in Place, p # q, m.str[p] = NULL,
         NEW m2, m2 = MoveConstruct(m, p, q)
  PROVE  /\ Sound(m2)
         /\ \A x \in Place : Text(m2, x) = IF x = p THEN Text(m, q)
                                           ELSE IF x = q THEN <<>> ELSE Text(m, x)
         /\ \A x \in Place : m2.str[x] = IF x = q THEN NULL
                                         ELSE IF x = p THEN m.str[q] ELSE m.str[x]
         /\ Lone(m2) \subseteq Lone(m)
<1>1. m2.heap = m.heap /\ m2.str = [m.str EXCEPT ![p] = m.str[q], ![q] = NULL]
  BY DEF MoveConstruct
<1>2. /\ m.heap \in [Buffer -> [text : AnyText, cap : Nat]]
      /\ m.str \in [Place -> Buffer \cup {NULL}]
  BY DEF Sound
<1>3. \A x \in Place : m2.str[x] = IF x = q THEN NULL ELSE IF x = p THEN m.str[q] ELSE m.str[x]
  BY <1>1, <1>2
<1>4. m2.str \in [Place -> Buffer \cup {NULL}]
  BY <1>1, <1>2
<1>5. ASSUME NEW x \in Place, m2.str[x] # NULL
      PROVE  Len(m2.heap[m2.str[x]].text) < m2.heap[m2.str[x]].cap
  <2>1. PICK y \in Place : m2.str[x] = m.str[y]
    BY <1>3, <1>5
  <2> QED
    BY <1>1, <1>5, <2>1 DEF Sound
<1>6. ASSUME NEW x \in Place, NEW y \in Place, m2.str[x] = m2.str[y]
      PROVE  x = y \/ m2.str[x] = NULL
  BY <1>3, <1>6 DEF Sound
<1>7. Sound(m2)
  BY <1>1, <1>2, <1>4, <1>5, <1>6 DEF Sound
<1>8. \A x \in Place : Text(m2, x) = IF x = p THEN Text(m, q)
                                     ELSE IF x = q THEN <<>> ELSE Text(m, x)
  BY <1>1, <1>3 DEF Text
<1>9. ASSUME NEW x \in Lone(m2) PROVE x \in Lone(m)
  <2>1. x \in Buffer /\ m.heap[x] # Freed /\ \A y \in Place : m2.str[y] # x
    BY <1>1 DEF Lone
  <2>2. x # NULL
    BY <2>1, StringsAssumption
  <2>3. m.str[q] # x
    BY <1>3, <2>1
  <2>4. \A y \in Place : m.str[y] # x
    BY <1>3, <2>1, <2>2, <2>3
  <2> QED
    BY <2>1, <2>4 DEF Lone
<1> QED
  BY <1>3, <1>7, <1>8, <1>9

LEMMA MoveAssigned ==
  ASSUME NEW m, Sound(m), NEW p \in Place, NEW q \in Place, p # q,
         NEW m2, m2 = MoveAssign(m, p, q)
  PROVE  /\ Sound(m2)
         /\ \A x \in Place : Text(m2, x) = IF x = p THEN Text(m, q)
                                           ELSE IF x = q THEN <<>> ELSE Text(m, x)
         /\ \A x \in Place : m2.str[x] = IF x = q THEN NULL
                                         ELSE IF x = p THEN m.str[q] ELSE m.str[x]
         /\ Lone(m2) \subseteq Lone(m)
<1> DEFINE d == Destruct(m, {p})
<1>1. /\ Sound(d)
      /\ \A x \in Place : Text(d, x) = IF x \in {p} THEN <<>> ELSE Text(m, x)
      /\ \A x \in Place : d.str[x] = IF x \in {p} THEN NULL ELSE m.str[x]
      /\ Lone(d) \subseteq Lone(m)
  BY Destructed
<1>2. m2 = MoveConstruct(d, p, q)
  BY DEF MoveAssign
<1> HIDE DEF d
<1>3. d.str[p] = NULL
  BY <1>1
<1>4. /\ Sound(m2)
      /\ \A x \in Place : Text(m2, x) = IF x = p THEN Text(d, q)
                                        ELSE IF x = q THEN <<>> ELSE Text(d, x)
      /\ \A x \in Place : m2.str[x] = IF x = q THEN NULL
                                      ELSE IF x = p THEN d.str[q] ELSE d.str[x]
      /\ Lone(m2) \subseteq Lone(d)
  BY <1>1, <1>2, <1>3, Moved
<1> QED
  BY <1>1, <1>4

\* A new string in place of the one at v, in another buffer.
LEMMA Renewed ==
  ASSUME NEW m, Sound(m), NEW v \in Place, NEW b \in Buffer, m.heap[b] = Freed,
         NEW t \in AnyText, NEW n \in Nat, Fits(t, n),
         NEW m2, m2 = Make(Destruct(m, {v}), v, b, t, n)
  PROVE  /\ Sound(m2)
         /\ \A p \in Place : Text(m2, p) = IF p = v THEN t ELSE Text(m, p)
         /\ \A p \in Place : p # v => m2.str[p] = m.str[p]
         /\ Lone(m2) \subseteq Lone(m)
<1> DEFINE d == Destruct(m, {v})
<1>1. /\ Sound(d)
      /\ \A x \in Place : Text(d, x) = IF x \in {v} THEN <<>> ELSE Text(m, x)
      /\ \A x \in Place : d.str[x] = IF x \in {v} THEN NULL ELSE m.str[x]
      /\ Lone(d) \subseteq Lone(m)
      /\ d.heap[b] = Freed
  BY Destructed
<1>2. m2 = Make(d, v, b, t, n)
  OBVIOUS
<1> HIDE DEF d
<1>3. d.str[v] = NULL /\ Sound(d) /\ d.heap[b] = Freed
  BY <1>1
<1>4. /\ Sound(m2)
      /\ \A p \in Place : Text(m2, p) = IF p = v THEN t ELSE Text(d, p)
      /\ \A p \in Place : p # v => m2.str[p] = d.str[p]
      /\ Lone(m2) \subseteq Lone(d)
  BY ONLY v \in Place, b \in Buffer, t \in AnyText, n \in Nat, Fits(t, n), <1>2, <1>3, Made
<1> QED
  BY <1>1, <1>4

\* Another text in the buffer of the string at v.
LEMMA Rewritten ==
  ASSUME NEW m, Sound(m), NEW v \in Place, m.str[v] # NULL, NEW t \in AnyText,
         Len(t) < m.heap[m.str[v]].cap,
         NEW m2, m2.heap = [m.heap EXCEPT ![m.str[v]].text = t], m2.str = m.str
  PROVE  /\ Sound(m2)
         /\ \A p \in Place : Text(m2, p) = IF p = v THEN t ELSE Text(m, p)
         /\ \A p \in Place : m2.str[p] = m.str[p]
         /\ Lone(m2) \subseteq Lone(m)
<1>1. /\ m.heap \in [Buffer -> [text : AnyText, cap : Nat]]
      /\ m.str \in [Place -> Buffer \cup {NULL}]
      /\ m.str[v] \in Buffer
  BY DEF Sound
<1>2. m.heap[m.str[v]] \in [text : AnyText, cap : Nat]
  BY <1>1
<1>3. PICK r \in [text : AnyText, cap : Nat] :
        r = [m.heap[m.str[v]] EXCEPT !.text = t] /\ r.text = t /\ r.cap = m.heap[m.str[v]].cap
  BY <1>2
<1>4. m2.heap = [m.heap EXCEPT ![m.str[v]] = r]
  BY <1>3
<1>5. \A b \in Buffer : m2.heap[b] = IF b = m.str[v] THEN r ELSE m.heap[b]
  BY <1>1, <1>4
<1>6. m2.heap \in [Buffer -> [text : AnyText, cap : Nat]]
  BY <1>1, <1>4
<1>7. ASSUME NEW p \in Place, p # v, m.str[p] # NULL
      PROVE  m.str[p] \in Buffer /\ m.str[p] # m.str[v] /\ m2.heap[m.str[p]] = m.heap[m.str[p]]
  <2>1. m.str[p] \in Buffer /\ m.str[p] # m.str[v]
    BY <1>7 DEF Sound
  <2> QED
    BY <1>5, <2>1
<1>8. m2.heap[m.str[v]] = r
  BY <1>1, <1>5
<1>9. ASSUME NEW p \in Place, m2.str[p] # NULL
      PROVE  Len(m2.heap[m2.str[p]].text) < m2.heap[m2.str[p]].cap
  <2>1. CASE p = v
    BY <1>3, <1>8, <2>1
  <2>2. CASE p # v
    BY <1>7, <1>9, <2>2 DEF Sound
  <2> QED
    BY <2>1, <2>2
<1>10. Sound(m2)
  BY <1>1, <1>6, <1>9 DEF Sound
<1>11. ASSUME NEW p \in Place PROVE Text(m2, p) = IF p = v THEN t ELSE Text(m, p)
  <2>1. CASE p = v
    BY <1>3, <1>8, <2>1 DEF Text
  <2>2. CASE p # v
    BY <1>7, <2>2 DEF Text
  <2> QED
    BY <2>1, <2>2
<1>12. ASSUME NEW x \in Lone(m2) PROVE x \in Lone(m)
  <2>1. x \in Buffer /\ m2.heap[x] # Freed /\ \A p \in Place : m.str[p] # x
    BY DEF Lone
  <2> QED
    BY <1>5, <2>1 DEF Lone
<1> QED
  BY <1>10, <1>11, <1>12

----------------------------------------------------------------------------
(* What the steps do to the strings.                                       *)

\* The string at v says t from now on, and the others what they said.
Writes(v, t) ==
  /\ \A p \in Place : Text(memory', p) = IF p = v THEN t ELSE Text(memory, p)
  /\ \A p \in Place : p # v => str'[p] = str[p]

\* The string at v says what the one at q said, which is empty now.
Takes(v, q) ==
  /\ v # q
  /\ \A p \in Place : Text(memory', p) = IF p = v THEN Text(memory, q)
                                         ELSE IF p = q THEN <<>> ELSE Text(memory, p)
  /\ \A p \in Place : p # v /\ p # q => str'[p] = str[p]

\* The strings at the places in gone are empty now.
Clears(gone) ==
  /\ \A p \in Place : Text(memory', p) = IF p \in gone THEN <<>> ELSE Text(memory, p)
  /\ \A p \in Place : str'[p] = IF p \in gone THEN NULL ELSE str[p]

\* Nothing loses its owner.
NoneLost == Lone(memory') \subseteq Lone(memory)

LEMMA RememberMake ==
  ASSUME NEW m, NEW v, NEW b, NEW t, NEW n, Remember(Make(m, v, b, t, n))
  PROVE  memory' = Make(m, v, b, t, n)
BY DEF Remember, Make, memory

LEMMA FreeBuffer ==
  ASSUME NEW b \in Free
  PROVE  b \in Buffer /\ memory.heap[b] = Freed
BY DEF Free, memory

\* v = copy of q, made in b.
LEMMA Copies ==
  ASSUME Sound(memory), NEW v \in Place, NEW q \in Place, NEW b \in Free,
         Remember(CopyConstruct(memory, v, q, b))
  PROVE  /\ Sound(memory') /\ Writes(v, Text(memory, q))
         /\ str[v] = NULL => NoneLost
<1>1. b \in Buffer /\ memory.heap[b] = Freed
  BY FreeBuffer
<1>2. PICK t \in AnyText : t = Text(memory, q) /\ Len(t) \in Nat
  BY Facts
<1>3. PICK n \in Nat : n = Len(t) /\ Fits(t, n)
  BY <1>2 DEF Fits
<1>4. memory' = Make(memory, v, b, t, n)
  BY <1>2, <1>3, RememberMake DEF CopyConstruct
<1>5. /\ Sound(memory')
      /\ \A p \in Place : Text(memory', p) = IF p = v THEN t ELSE Text(memory, p)
      /\ \A p \in Place : p # v => memory'.str[p] = memory.str[p]
      /\ memory.str[v] = NULL => Lone(memory') \subseteq Lone(memory)
  BY ONLY Sound(memory), v \in Place, t \in AnyText, n \in Nat, <1>1, <1>3, <1>4, Made
<1>6. memory'.str = str' /\ memory.str = str
  BY DEF memory
<1> QED
  BY <1>2, <1>5, <1>6 DEF Writes, NoneLost

LEMMA Renews ==
  ASSUME Sound(memory), NEW v \in Place, NEW b \in Free, NEW t \in AnyText, NEW n \in Nat,
         Fits(t, n), Remember(Make(Destruct(memory, {v}), v, b, t, n))
  PROVE  Sound(memory') /\ Writes(v, t) /\ NoneLost
<1>1. b \in Buffer /\ memory.heap[b] = Freed
  BY FreeBuffer
<1>2. memory' = Make(Destruct(memory, {v}), v, b, t, n)
  BY RememberMake
<1>3. /\ Sound(memory')
      /\ \A p \in Place : Text(memory', p) = IF p = v THEN t ELSE Text(memory, p)
      /\ \A p \in Place : p # v => memory'.str[p] = memory.str[p]
      /\ Lone(memory') \subseteq Lone(memory)
  BY ONLY Sound(memory), v \in Place, t \in AnyText, n \in Nat, Fits(t, n), <1>1, <1>2, Renewed
<1>4. memory'.str = str' /\ memory.str = str
  BY DEF memory
<1> QED
  BY <1>3, <1>4 DEF Writes, NoneLost

LEMMA Rewrites ==
  ASSUME Sound(memory), NEW v \in Place, Readable(v), NEW t \in AnyText,
         Len(t) < heap[str[v]].cap,
         heap' = [heap EXCEPT ![str[v]].text = t], str' = str
  PROVE  Sound(memory') /\ Writes(v, t) /\ NoneLost
<1>1. memory'.heap = heap' /\ memory.heap = heap /\ memory'.str = str' /\ memory.str = str
  BY DEF memory
<1>2. /\ memory.str[v] # NULL /\ Len(t) < memory.heap[memory.str[v]].cap
      /\ memory'.heap = [memory.heap EXCEPT ![memory.str[v]].text = t]
      /\ memory'.str = memory.str
  BY <1>1 DEF Readable
<1>3. /\ Sound(memory')
      /\ \A p \in Place : Text(memory', p) = IF p = v THEN t ELSE Text(memory, p)
      /\ \A p \in Place : memory'.str[p] = memory.str[p]
      /\ Lone(memory') \subseteq Lone(memory)
  BY ONLY Sound(memory), v \in Place, t \in AnyText, <1>2, Rewritten
<1> QED
  BY <1>1, <1>3 DEF Writes, NoneLost

LEMMA TakesOver ==
  ASSUME Sound(memory), NEW v \in Place, NEW q \in Place, v # q,
         Remember(MoveAssign(memory, v, q))
  PROVE  Sound(memory') /\ Takes(v, q) /\ NoneLost
<1>1. memory' = MoveAssign(memory, v, q)
  BY DEF Remember, MoveAssign, MoveConstruct, memory
<1>2. /\ Sound(memory')
      /\ \A x \in Place : Text(memory', x) = IF x = v THEN Text(memory, q)
                                             ELSE IF x = q THEN <<>> ELSE Text(memory, x)
      /\ \A x \in Place : memory'.str[x] = IF x = q THEN NULL
                                           ELSE IF x = v THEN memory.str[q] ELSE memory.str[x]
      /\ Lone(memory') \subseteq Lone(memory)
  BY ONLY Sound(memory), v \in Place, q \in Place, v # q, <1>1, MoveAssigned
<1>3. memory'.str = str' /\ memory.str = str
  BY DEF memory
<1> QED
  BY <1>2, <1>3 DEF Takes, NoneLost

LEMMA MovesIn ==
  ASSUME Sound(memory), NEW v \in Place, NEW q \in Place, v # q, str[v] = NULL,
         Remember(MoveConstruct(memory, v, q))
  PROVE  Sound(memory') /\ Takes(v, q) /\ NoneLost
<1>1. memory' = MoveConstruct(memory, v, q)
  BY DEF Remember, MoveConstruct, memory
<1>2. memory'.str = str' /\ memory.str = str
  BY DEF memory
<1>3. /\ Sound(memory')
      /\ \A x \in Place : Text(memory', x) = IF x = v THEN Text(memory, q)
                                             ELSE IF x = q THEN <<>> ELSE Text(memory, x)
      /\ \A x \in Place : memory'.str[x] = IF x = q THEN NULL
                                           ELSE IF x = v THEN memory.str[q] ELSE memory.str[x]
      /\ Lone(memory') \subseteq Lone(memory)
  <2>1. memory.str[v] = NULL
    BY <1>2
  <2> QED
    BY ONLY Sound(memory), v \in Place, q \in Place, v # q, <1>1, <2>1, Moved
<1> QED
  BY <1>2, <1>3 DEF Takes, NoneLost

LEMMA Empties ==
  ASSUME Sound(memory), NEW gone, gone \subseteq Place, Remember(Destruct(memory, gone))
  PROVE  Sound(memory') /\ Clears(gone) /\ NoneLost
<1>1. memory' = Destruct(memory, gone)
  BY DEF Remember, Destruct, memory
<1>2. /\ Sound(memory')
      /\ \A p \in Place : Text(memory', p) = IF p \in gone THEN <<>> ELSE Text(memory, p)
      /\ \A p \in Place : memory'.str[p] = IF p \in gone THEN NULL ELSE memory.str[p]
      /\ Lone(memory') \subseteq Lone(memory)
  BY ONLY Sound(memory), gone \subseteq Place, <1>1, Destructed
<1>3. memory'.str = str' /\ memory.str = str
  BY DEF memory
<1> QED
  BY <1>2, <1>3 DEF Clears, NoneLost

\* The value of q is moved to v, and the string that is left at q destructed.
LEMMA TakesAll ==
  ASSUME Sound(memory), NEW v \in Place, NEW q \in Place, v # q,
         Remember(Destruct(MoveAssign(memory, v, q), {q}))
  PROVE  Sound(memory') /\ Takes(v, q) /\ str'[q] = NULL /\ NoneLost
<1> DEFINE m == MoveAssign(memory, v, q)
<1>1. /\ Sound(m)
      /\ \A x \in Place : Text(m, x) = IF x = v THEN Text(memory, q)
                                       ELSE IF x = q THEN <<>> ELSE Text(memory, x)
      /\ \A x \in Place : m.str[x] = IF x = q THEN NULL
                                     ELSE IF x = v THEN memory.str[q] ELSE memory.str[x]
      /\ Lone(m) \subseteq Lone(memory)
  BY ONLY Sound(memory), v \in Place, q \in Place, v # q, MoveAssigned
<1> HIDE DEF m
<1>2. memory' = Destruct(m, {q})
  BY DEF Remember, Destruct, memory, m
<1>3. {q} \subseteq Place /\ Sound(m)
  BY <1>1
<1>4. /\ Sound(memory')
      /\ \A p \in Place : Text(memory', p) = IF p \in {q} THEN <<>> ELSE Text(m, p)
      /\ \A p \in Place : memory'.str[p] = IF p \in {q} THEN NULL ELSE m.str[p]
      /\ Lone(memory') \subseteq Lone(m)
  BY ONLY <1>2, <1>3, Destructed
<1>5. memory'.str = str' /\ memory.str = str
  BY DEF memory
<1>6. \A p \in Place : Text(memory', p) = IF p = v THEN Text(memory, q)
                                          ELSE IF p = q THEN <<>> ELSE Text(memory, p)
  BY <1>1, <1>4
<1>7. (\A p \in Place : p # v /\ p # q => str'[p] = str[p]) /\ str'[q] = NULL
  BY <1>1, <1>4, <1>5
<1> QED
  BY <1>1, <1>4, <1>6, <1>7 DEF Takes, NoneLost

----------------------------------------------------------------------------
(* A call on a variable.                                                   *)

\* What the texts of v can become with strings at the places in sources about.
Writable(sources, v, t) ==
  \/ t \in Given \/ t = <<>>
  \/ \E q \in sources : t = Text(memory, q) \/ t = Joined(v, q)
  \/ \E c \in Letters : t = Without(Text(memory, v), c)

LEMMA JoinedText ==
  ASSUME Sound(memory), NEW v \in Place, NEW q \in Place
  PROVE  Joined(v, q) \in AnyText /\ Len(Joined(v, q)) \in Nat
<1>1. Text(memory, v) \in Seq(Letters) /\ Text(memory, q) \in Seq(Letters)
  BY Facts DEF AnyText
<1>2. Joined(v, q) \in Seq(Letters)
  BY <1>1, ConcatProperties DEF Joined
<1> QED
  BY <1>2 DEF AnyText

LEMMA JoinsAnew ==
  ASSUME Sound(memory), NEW v \in Place, NEW q \in Place, JoinAnew(v, q)
  PROVE  Sound(memory') /\ Writes(v, Joined(v, q)) /\ NoneLost
<1>1. PICK t \in AnyText : t = Joined(v, q) /\ Len(t) \in Nat
  BY JoinedText
<1>2. PICK n \in Nat : n = Len(t) /\ Fits(t, n)
  BY <1>1 DEF Fits
<1>3. PICK b \in Free : Remember(Make(Destruct(memory, {v}), v, b, t, n))
  BY <1>1, <1>2 DEF JoinAnew
<1>4. Sound(memory') /\ Writes(v, t) /\ NoneLost
  BY ONLY Sound(memory), v \in Place, t \in AnyText, n \in Nat, b \in Free, <1>2, <1>3, Renews
<1> QED
  BY <1>1, <1>4

LEMMA VariableCall ==
  ASSUME Sound(memory), NEW sources, sources \subseteq Place, StringStep(sources)
  PROVE  /\ Sound(memory')
         /\ \E v \in Variable :
               \/ \E t \in AnyText : Writable(sources, v, t) /\ Writes(v, t)
               \/ \E q \in sources : Takes(v, q)
         /\ NoneLost \/ \E v \in Variable, q \in Place : CopyAssign(v, q)
<1>1. PICK v \in Variable :
         \/ Assign(v)
         \/ \E q \in sources : CopyAssign(v, q) \/ TakeOver(v, q) \/ CatInPlace(v, q)
                              \/ CatAnew(v, q) \/ Plus(v, q)
         \/ \E c \in Letters : Sanitize(v, c)
  BY DEF StringStep
<1>2. v \in Place
  BY StringsAssumption
<1> DEFINE Done == \/ \E t \in AnyText : Writable(sources, v, t) /\ Writes(v, t)
                   \/ \E q \in sources : Takes(v, q)
           KeptBut == NoneLost \/ \E u \in Variable, q \in Place : CopyAssign(u, q)
<1>3. ASSUME Assign(v) PROVE Sound(memory') /\ Done /\ KeptBut
  <2>1. PICK b \in Free :
           \/ \E t \in Given : Remember(Make(Destruct(memory, {v}), v, b, t, Len(t)))
           \/ \E n \in 1 .. MaxLength : Remember(Make(Destruct(memory, {v}), v, b, <<>>, n))
    BY <1>3 DEF Assign
  <2>2. PICK t \in AnyText, n \in Nat :
           /\ Fits(t, n) /\ (t \in Given \/ t = <<>>)
           /\ Remember(Make(Destruct(memory, {v}), v, b, t, n))
    <3>1. CASE \E t \in Given : Remember(Make(Destruct(memory, {v}), v, b, t, Len(t)))
      <4>1. PICK t \in Given : Remember(Make(Destruct(memory, {v}), v, b, t, Len(t)))
        BY <3>1
      <4>2. t \in AnyText /\ Len(t) \in Nat
        BY GivenTexts
      <4>3. Fits(t, Len(t))
        BY <4>2 DEF Fits
      <4> QED
        BY <4>1, <4>2, <4>3
    <3>2. CASE \E n \in 1 .. MaxLength : Remember(Make(Destruct(memory, {v}), v, b, <<>>, n))
      <4>1. PICK n \in 1 .. MaxLength : Remember(Make(Destruct(memory, {v}), v, b, <<>>, n))
        BY <3>2
      <4>2. <<>> \in AnyText /\ Fits(<<>>, n) /\ n \in Nat
        BY EmptyText DEF Fits
      <4> QED
        BY <4>1, <4>2
    <3> QED
      BY <2>1, <3>1, <3>2
  <2>3. Sound(memory') /\ Writes(v, t) /\ NoneLost
    BY ONLY Sound(memory), t \in AnyText, n \in Nat, b \in Free, <1>2, <2>2, Renews
  <2>4. Writable(sources, v, t)
    BY <2>2 DEF Writable
  <2> QED
    BY <2>3, <2>4
<1>4. ASSUME NEW q \in sources, CopyAssign(v, q)
      PROVE  Sound(memory') /\ Done /\ KeptBut
  <2>1. PICK b \in Free : Remember(CopyConstruct(memory, v, q, b))
    BY <1>4 DEF CopyAssign
  <2>2. q \in Place
    OBVIOUS
  <2>3. Sound(memory') /\ Writes(v, Text(memory, q))
    BY <1>2, <2>1, <2>2, Copies
  <2>4. Writable(sources, v, Text(memory, q)) /\ Text(memory, q) \in AnyText
    BY <2>2, Facts DEF Writable
  <2> QED
    BY <1>4, <2>2, <2>3, <2>4
<1>5. ASSUME NEW q \in sources, TakeOver(v, q)
      PROVE  Sound(memory') /\ Done /\ KeptBut
  <2>1. q \in Place /\ v # q /\ Remember(MoveAssign(memory, v, q))
    BY <1>5 DEF TakeOver
  <2>2. Sound(memory') /\ Takes(v, q) /\ NoneLost
    BY <1>2, <2>1, TakesOver
  <2> QED
    BY <2>2
<1>6. ASSUME NEW q \in sources, CatInPlace(v, q)
      PROVE  Sound(memory') /\ Done /\ KeptBut
  <2>1. PICK t \in AnyText : t = Joined(v, q) /\ Len(t) \in Nat
    BY <1>2, JoinedText
  <2>2. Readable(v) /\ heap' = [heap EXCEPT ![str[v]].text = t] /\ str' = str
    BY <1>6, <2>1 DEF CatInPlace
  <2>3. Len(t) < heap[str[v]].cap
    <3>1. heap[str[v]].cap \in Nat /\ heap[str[v]].cap > Len(t)
      BY <1>2, <1>6, <2>1, <2>2, Facts DEF CatInPlace, Readable, memory
    <3> QED
      BY <2>1, <3>1
  <2>4. Sound(memory') /\ Writes(v, t) /\ NoneLost
    BY <1>2, <2>2, <2>3, Rewrites
  <2>5. Writable(sources, v, t)
    BY <2>1 DEF Writable
  <2> QED
    BY <2>4, <2>5
<1>7. ASSUME NEW q \in sources, CatAnew(v, q) \/ Plus(v, q)
      PROVE  Sound(memory') /\ Done /\ KeptBut
  <2>1. JoinAnew(v, q) /\ q \in Place
    BY <1>7 DEF CatAnew, Plus
  <2>2. Sound(memory') /\ Writes(v, Joined(v, q)) /\ NoneLost
    BY <1>2, <2>1, JoinsAnew
  <2>3. Writable(sources, v, Joined(v, q)) /\ Joined(v, q) \in AnyText
    BY <1>2, <2>1, JoinedText DEF Writable
  <2> QED
    BY <2>2, <2>3
<1>8. ASSUME NEW c \in Letters, Sanitize(v, c)
      PROVE  Sound(memory') /\ Done /\ KeptBut
  <2>1. Readable(v) /\ str' = str
    BY <1>8 DEF Sanitize
  <2>2. /\ Text(memory, v) = heap[str[v]].text /\ str[v] \in Buffer
        /\ heap[str[v]].cap \in Nat /\ heap[str[v]].cap > Len(Text(memory, v))
        /\ Text(memory, v) \in AnyText /\ Len(Text(memory, v)) \in Nat
    BY <1>2, <2>1, Facts DEF Readable, memory
  <2>3. PICK t \in AnyText : t = Without(Text(memory, v), c) /\ Len(t) <= Len(Text(memory, v))
    BY <2>2, WithoutIs DEF AnyText
  <2>4. heap' = [heap EXCEPT ![str[v]].text = t]
    BY <1>8, <2>2, <2>3 DEF Sanitize
  <2>5. Len(t) \in Nat
    BY DEF AnyText
  <2>6. Len(t) < heap[str[v]].cap
    BY <2>2, <2>3, <2>5
  <2>7. Sound(memory') /\ Writes(v, t) /\ NoneLost
    BY <1>2, <2>1, <2>4, <2>6, Rewrites
  <2>8. Writable(sources, v, t)
    BY <2>3 DEF Writable
  <2> QED
    BY <2>7, <2>8
<1> HIDE DEF Done, KeptBut
<1>9. Sound(memory') /\ Done /\ KeptBut
  BY <1>1, <1>3, <1>4, <1>5, <1>6, <1>7, <1>8
<1> QED
  BY <1>9 DEF Done, KeptBut

----------------------------------------------------------------------------
(* The texts along a path.                                                 *)

Told(m, s) == [i \in DOMAIN s |-> Text(m, s[i])]

LEMMA ToldIs ==
  ASSUME NEW m, Sound(m), NEW s \in Seq(Node)
  PROVE  /\ Told(m, s) \in Seq(AnyText) /\ Len(Told(m, s)) = Len(s) /\ Len(s) \in Nat
         /\ \A i \in 1 .. Len(s) : Told(m, s)[i] = Text(m, s[i])
<1>1. DOMAIN s = 1 .. Len(s) /\ Len(s) \in Nat /\ \A i \in 1 .. Len(s) : s[i] \in Node
  OBVIOUS
<1>2. \A i \in 1 .. Len(s) : Text(m, s[i]) \in AnyText
  BY <1>1, Facts, LinkedListAssumption
<1>3. Told(m, s) = [i \in 1 .. Len(s) |-> Text(m, s[i])]
  BY <1>1 DEF Told
<1>4. Told(m, s) \in [1 .. Len(s) -> AnyText]
  BY <1>2, <1>3
<1>5. Told(m, s) \in Seq(AnyText) /\ Len(Told(m, s)) = Len(s)
  BY <1>1, <1>4
<1> QED
  BY <1>1, <1>3, <1>5

\* The texts of the nodes on s but for those in gone stay what they are.
Still(m, m2, s, gone) == \A x \in Range(s) : x \notin gone => Text(m2, x) = Text(m, x)

LEMMA StillAt ==
  ASSUME NEW m, NEW m2, NEW s \in Seq(Node), NEW gone, Still(m, m2, s, gone)
  PROVE  \A i \in 1 .. Len(s) : s[i] \notin gone => Text(m2, s[i]) = Text(m, s[i])
BY RangeIs DEF Still

LEMMA ToldSame ==
  ASSUME NEW m, NEW m2, NEW s \in Seq(Node), Still(m, m2, s, {})
  PROVE  Told(m2, s) = Told(m, s)
<1>1. DOMAIN s = 1 .. Len(s)
  OBVIOUS
<1>2. \A i \in DOMAIN s : Text(m2, s[i]) = Text(m, s[i])
  BY <1>1, StillAt
<1> QED
  BY <1>2 DEF Told

LEMMA ToldInserted ==
  ASSUME NEW m, Sound(m), NEW m2, Sound(m2), NEW s \in Seq(Node), NEW p \in 0 .. Len(s),
         NEW n \in Node, Still(m, m2, s, {})
  PROVE  Told(m2, InsertAt(s, p + 1, n)) = InsertAt(Told(m, s), p + 1, Text(m2, n))
<1> DEFINE t == InsertAt(s, p + 1, n)
           a == Told(m, s)
           b == Told(m2, t)
<1>0. \A i \in 1 .. Len(s) : Text(m2, s[i]) = Text(m, s[i])
  BY StillAt
<1>1. /\ t \in Seq(Node) /\ Len(t) = Len(s) + 1
      /\ \A q \in 1 .. Len(s) + 1 :
           t[q] = IF q <= p THEN s[q] ELSE IF q = p + 1 THEN n ELSE s[q - 1]
  BY InsertedAfter
<1>2. /\ a \in Seq(AnyText) /\ Len(a) = Len(s) /\ Len(s) \in Nat
      /\ \A i \in 1 .. Len(s) : a[i] = Text(m, s[i])
  BY ToldIs
<1> HIDE DEF t
<1>3. b \in Seq(AnyText) /\ Len(b) = Len(t) /\ \A i \in 1 .. Len(t) : b[i] = Text(m2, t[i])
  BY <1>1, ToldIs
<1>4. PICK e \in AnyText : e = Text(m2, n)
  BY Facts, LinkedListAssumption
<1> HIDE DEF a, b
<1> DEFINE c == InsertAt(a, p + 1, e)
<1>5. p \in 0 .. Len(a) /\ a \in Seq(AnyText)
  BY <1>2
<1>6. /\ c \in Seq(AnyText) /\ Len(c) = Len(a) + 1
      /\ \A q \in 1 .. Len(a) + 1 :
           c[q] = IF q <= p THEN a[q] ELSE IF q = p + 1 THEN e ELSE a[q - 1]
  BY ONLY <1>5, e \in AnyText, InsertedAfter
<1> HIDE DEF c
<1>7. ASSUME NEW q \in 1 .. Len(b) PROVE b[q] = c[q]
  <2>1. q \in 1 .. Len(s) + 1 /\ p \in Nat /\ p <= Len(s)
    BY <1>1, <1>2, <1>3
  <2>2. CASE q <= p
    <3>1. q \in 1 .. Len(s) /\ t[q] = s[q] /\ c[q] = a[q]
      BY <1>1, <1>2, <1>6, <2>1, <2>2
    <3>2. Text(m2, s[q]) = Text(m, s[q])
      BY <1>0, <3>1
    <3> QED
      BY <1>1, <1>2, <1>3, <2>1, <3>1, <3>2
  <2>3. CASE q = p + 1
    BY <1>1, <1>2, <1>3, <1>4, <1>6, <2>1, <2>3
  <2>4. CASE q > p + 1
    <3>1. q - 1 \in 1 .. Len(s) /\ t[q] = s[q - 1] /\ c[q] = a[q - 1]
      BY <1>1, <1>2, <1>6, <2>1, <2>4
    <3>2. Text(m2, s[q - 1]) = Text(m, s[q - 1])
      BY <1>0, <3>1
    <3> QED
      BY <1>1, <1>2, <1>3, <2>1, <3>1, <3>2
  <2> QED
    BY <2>1, <2>2, <2>3, <2>4
<1>8. b = c
  BY <1>1, <1>2, <1>3, <1>6, <1>7, SeqEqual
<1> QED
  BY <1>4, <1>8 DEF a, b, c, t

LEMMA ToldRemoved ==
  ASSUME NEW m, Sound(m), NEW m2, Sound(m2), NEW s \in Seq(Node), NEW p \in 1 .. Len(s),
         Still(m, m2, s, {s[p]}), \A i, j \in 1 .. Len(s) : s[i] = s[j] => i = j
  PROVE  Told(m2, RemoveAt(s, p)) = RemoveAt(Told(m, s), p)
<1> DEFINE t == RemoveAt(s, p)
           a == Told(m, s)
           b == Told(m2, t)
           c == RemoveAt(a, p)
<1>0. \A i \in 1 .. Len(s) : s[i] # s[p] => Text(m2, s[i]) = Text(m, s[i])
  <2>1. \A i \in 1 .. Len(s) : s[i] \notin {s[p]} => Text(m2, s[i]) = Text(m, s[i])
    BY ONLY s \in Seq(Node), Still(m, m2, s, {s[p]}), StillAt
  <2> QED
    BY <2>1
<1>1. /\ t \in Seq(Node) /\ Len(t) = Len(s) - 1
      /\ \A q \in 1 .. Len(s) - 1 : t[q] = IF q < p THEN s[q] ELSE s[q + 1]
  BY RemovedFrom
<1>2. /\ a \in Seq(AnyText) /\ Len(a) = Len(s) /\ Len(s) \in Nat
      /\ \A i \in 1 .. Len(s) : a[i] = Text(m, s[i])
  BY ToldIs
<1> HIDE DEF t
<1>3. b \in Seq(AnyText) /\ Len(b) = Len(t) /\ \A i \in 1 .. Len(t) : b[i] = Text(m2, t[i])
  BY <1>1, ToldIs
<1> HIDE DEF a, b
<1>4. p \in 1 .. Len(a)
  BY <1>2
<1>5. /\ c \in Seq(AnyText) /\ Len(c) = Len(a) - 1
      /\ \A q \in 1 .. Len(a) - 1 : c[q] = IF q < p THEN a[q] ELSE a[q + 1]
  BY ONLY <1>2, <1>4, RemovedFrom DEF c
<1> HIDE DEF c
<1>6. ASSUME NEW q \in 1 .. Len(b) PROVE b[q] = c[q]
  <2>1. q \in 1 .. Len(s) - 1 /\ q \in 1 .. Len(s) /\ q + 1 \in 1 .. Len(s) /\ p \in Nat
    BY <1>1, <1>2, <1>3
  <2>2. PICK i \in 1 .. Len(s) : i # p /\ t[q] = s[i] /\ c[q] = a[i]
    <3>1. CASE q < p
      BY <1>1, <1>2, <1>5, <2>1, <3>1
    <3>2. CASE ~(q < p)
      <4>1. q + 1 # p /\ t[q] = s[q + 1] /\ c[q] = a[q + 1]
        BY <1>1, <1>2, <1>5, <2>1, <3>2
      <4> QED
        BY <2>1, <4>1
    <3> QED
      BY <3>1, <3>2
  <2>3. s[i] # s[p]
    BY <2>2
  <2>4. Text(m2, s[i]) = Text(m, s[i])
    BY <1>0, <2>3
  <2> QED
    BY <1>1, <1>2, <1>3, <2>1, <2>2, <2>4
<1>7. b = c
  BY <1>1, <1>2, <1>3, <1>5, <1>6, SeqEqual
<1> QED
  BY <1>7 DEF a, b, c, t

LEMMA ToldEmptied ==
  ASSUME NEW m, Sound(m), NEW m2, Sound(m2), NEW s \in Seq(Node), NEW p \in 1 .. Len(s),
         Still(m, m2, s, {s[p]}), \A i, j \in 1 .. Len(s) : s[i] = s[j] => i = j,
         Text(m2, s[p]) = <<>>
  PROVE  Told(m2, s) = ReplaceAt(Told(m, s), p, <<>>)
<1> DEFINE a == Told(m, s)
           b == Told(m2, s)
<1>0. \A i \in 1 .. Len(s) : s[i] # s[p] => Text(m2, s[i]) = Text(m, s[i])
  <2>1. \A i \in 1 .. Len(s) : s[i] \notin {s[p]} => Text(m2, s[i]) = Text(m, s[i])
    BY ONLY s \in Seq(Node), Still(m, m2, s, {s[p]}), StillAt
  <2> QED
    BY <2>1
<1>1. /\ a \in Seq(AnyText) /\ Len(a) = Len(s) /\ Len(s) \in Nat
      /\ \A i \in 1 .. Len(s) : a[i] = Text(m, s[i])
  BY ToldIs
<1>2. b \in Seq(AnyText) /\ Len(b) = Len(s) /\ \A i \in 1 .. Len(s) : b[i] = Text(m2, s[i])
  BY ToldIs
<1> HIDE DEF a, b
<1>3. a \in [1 .. Len(s) -> AnyText] /\ b \in [1 .. Len(s) -> AnyText]
  BY <1>1, <1>2
<1>4. ASSUME NEW i \in 1 .. Len(s), i # p PROVE b[i] = a[i]
  <2>1. s[i] # s[p]
    BY <1>4
  <2>2. Text(m2, s[i]) = Text(m, s[i])
    BY <1>0, <2>1
  <2> QED
    BY <1>1, <1>2, <2>2
<1>5. b[p] = <<>>
  BY <1>2
<1>6. b = [a EXCEPT ![p] = <<>>]
  BY <1>3, <1>4, <1>5
<1> QED
  BY <1>6 DEF a, b, ReplaceAt

----------------------------------------------------------------------------
(* The invariant, of the pointers and of the strings.                      *)

\* Where no node is, no string is.
Bare == \A n \in Node \ nodes : str[n] = NULL

Held(F) == Types /\ Sound(memory) /\ Bare /\ Shape(F) /\ Walking(F)

ListInv == \E F : Held(F)

LEMMA PathFacts ==
  ASSUME Types, NEW F, Shape(F), NEW k \in List
  PROVE  /\ F[k] \in Seq(Node) /\ Len(F[k]) \in Nat
         /\ \A i, j \in 1 .. Len(F[k]) : F[k][i] = F[k][j] => i = j
         /\ \A i \in 1 .. Len(F[k]) : F[k][i] \in Range(F[k])
         /\ \A x \in Range(F[k]) : x \in nodes /\ x \in Node /\ x \in Place /\ x \notin Variable
         /\ \A x \in Range(F[k]) : \E i \in 1 .. Len(F[k]) : x = F[k][i]
         /\ \A j \in List : \A x \in Range(F[k]) : x \in Range(F[j]) => j = k
<1>1. k \in Owner /\ List \subseteq Owner
  BY DEF Owner
<1>2. F[k] \in Seq(Node) /\ Path(next, prev, F[k]) /\ Range(F[k]) \subseteq nodes
  BY <1>1 DEF Shape, Paths
<1>3. \A j \in List : \A x \in Range(F[k]) : x \in Range(F[j]) => j = k
  BY <1>1 DEF Shape, Paths
<1>4. Range(F[k]) = {F[k][i] : i \in 1 .. Len(F[k])} /\ Len(F[k]) \in Nat
  BY <1>2, RangeIs
<1>5. \A x \in Range(F[k]) : x \in nodes /\ x \in Node /\ x \in Place /\ x \notin Variable
  BY <1>2, LinkedListAssumption DEF Types
<1>6. \A i, j \in 1 .. Len(F[k]) : F[k][i] = F[k][j] => i = j
  BY <1>2 DEF Path
<1> QED
  BY <1>2, <1>3, <1>4, <1>5, <1>6

LEMMA SourcesNow ==
  ASSUME Types, NEW F, Shape(F)
  PROVE  \A p : p \in Sources <=> p \in Variable \/ \E k \in built : p \in Range(F[k])
<1>1. \A k \in built : OnList(k) = Range(F[k])
  BY SeenNow DEF Types
<1> QED
  BY <1>1 DEF Sources

LEMMA SourcesNext ==
  ASSUME Types', NEW F, Shape(F)'
  PROVE  \A p : p \in Sources' <=> p \in Variable \/ \E k \in built' : p \in Range(F[k])
<1>1. \A k \in built' : OnList(k)' = Range(F[k])
  BY SeenNext DEF Types
<1> QED
  BY <1>1 DEF Sources

\* What is on a list stays on one until it is freed, and new nodes are on one.
Keeps(F, G) ==
  /\ \A x \in nodes' : x \notin nodes => \E j \in built' : x \in Range(G[j])
  /\ \A k \in built : \A x \in Range(F[k]) : x \in nodes' => \E j \in built' : x \in Range(G[j])

LEMMA NodesKept ==
  ASSUME Types, NEW F, Shape(F), Types', NEW G, Shape(G)', Keeps(F, G)
  PROVE  LeakedNodes' \subseteq LeakedNodes
<1>1. SUFFICES ASSUME NEW x \in nodes', x \notin Sources'
               PROVE  x \in nodes /\ x \notin Sources
  BY DEF LeakedNodes
<1>2. x \notin Variable /\ \A j \in built' : x \notin Range(G[j])
  BY <1>1, SourcesNext
<1>3. x \in nodes
  BY <1>2 DEF Keeps
<1>4. \A k \in built : x \notin Range(F[k])
  BY <1>2 DEF Keeps
<1> QED
  BY <1>2, <1>3, <1>4, SourcesNow

\* A source is a variable or an element of a list.
LEMMA SourceIs ==
  ASSUME Types, NEW F, Shape(F), NEW p \in Sources
  PROVE  /\ p \in Place
         /\ p \in Variable \/ \E k \in built : \E i \in 1 .. Len(F[k]) : p = F[k][i]
         /\ p \notin Variable => p \in nodes
<1>1. p \in Variable \/ \E k \in built : p \in Range(F[k])
  BY SourcesNow
<1>2. CASE p \in Variable
  BY <1>2, LinkedListAssumption
<1>3. ASSUME NEW k \in built, p \in Range(F[k])
      PROVE  p \in Place /\ p \in nodes /\ \E i \in 1 .. Len(F[k]) : p = F[k][i]
  BY <1>3, PathFacts DEF Types
<1> QED
  BY <1>1, <1>2, <1>3

----------------------------------------------------------------------------
(* The lists of values that a state shows.                                 *)

LEMMA TextsNow ==
  ASSUME Types, NEW F, Shape(F)
  PROVE  ListTexts = [l \in List |-> Told(memory, F[l])]
<1>1. ASSUME NEW l \in List
      PROVE  (IF l \in built THEN TextsOf(Forward(l)) ELSE <<>>) = Told(memory, F[l])
  <2>1. Forward(l) = F[l]
    BY SeenNow
  <2>2. CASE l \in built
    BY <2>1, <2>2 DEF TextsOf, Told
  <2>3. CASE l \notin built
    <3>1. F[l] = <<>>
      BY <2>3 DEF Shape
    <3>2. DOMAIN <<>> = {}
      BY EmptySeq
    <3>3. Told(memory, F[l]) = <<>>
      BY <3>1, <3>2 DEF Told
    <3> QED
      BY <2>3, <3>3
  <2> QED
    BY <2>2, <2>3
<1> QED
  BY <1>1 DEF ListTexts

LEMMA TextsNext ==
  ASSUME Types', NEW F, Shape(F)'
  PROVE  ListTexts' = [l \in List |-> Told(memory', F[l])]
<1>1. ASSUME NEW l \in List
      PROVE  (IF l \in built' THEN TextsOf(Forward(l))' ELSE <<>>) = Told(memory', F[l])
  <2>1. Forward(l)' = F[l]
    BY SeenNext
  <2>2. CASE l \in built'
    BY <2>1, <2>2 DEF TextsOf, Told
  <2>3. CASE l \notin built'
    <3>1. F[l] = <<>>
      BY <2>3 DEF Shape
    <3>2. DOMAIN <<>> = {}
      BY EmptySeq
    <3>3. Told(memory', F[l]) = <<>>
      BY <3>1, <3>2 DEF Told
    <3> QED
      BY <2>3, <3>3
  <2> QED
    BY <2>2, <2>3
<1> QED
  BY <1>1 DEF ListTexts

LEMMA ElementIs ==
  ASSUME Types, Sound(memory), NEW F, Shape(F), NEW k \in built, NEW i \in 1 .. Len(F[k])
  PROVE  /\ <<k, i>> \in Lists!Element
         /\ Lists!TextOf(<<k, i>>) = Text(memory, F[k][i])
<1>1. k \in List
  BY DEF Types
<1>2. ListTexts[k] = Told(memory, F[k])
  BY <1>1, TextsNow
<1>3. /\ Told(memory, F[k]) \in Seq(AnyText) /\ Len(Told(memory, F[k])) = Len(F[k])
      /\ Told(memory, F[k])[i] = Text(memory, F[k][i])
  BY <1>1, PathFacts, ToldIs
<1>4. DOMAIN ListTexts[k] = 1 .. Len(F[k])
  BY <1>2, <1>3
<1>5. <<k, i>> \in {<<k, j>> : j \in DOMAIN ListTexts[k]}
  BY <1>4
<1>6. <<k, i>> \in Lists!Element
  BY <1>5 DEF Lists!Element
<1>7. Lists!TextOf(<<k, i>>) = ListTexts[k][i]
  BY DEF Lists!TextOf
<1> QED
  BY <1>2, <1>3, <1>6, <1>7

LEMMA SourceText ==
  ASSUME Types, Sound(memory), NEW F, Shape(F), NEW p \in Sources
  PROVE  Text(memory, p) \in Lists!Texts
<1>1. CASE p \in Variable
  <2>1. Text(memory, p) = VariableTexts[p]
    BY <1>1 DEF VariableTexts
  <2> QED
    BY <1>1, <2>1 DEF Lists!Texts
<1>2. CASE p \notin Variable
  <2>1. PICK k \in built : \E i \in 1 .. Len(F[k]) : p = F[k][i]
    BY <1>2, SourceIs
  <2>2. PICK i \in 1 .. Len(F[k]) : p = F[k][i]
    BY <2>1
  <2>3. <<k, i>> \in Lists!Element /\ Lists!TextOf(<<k, i>>) = Text(memory, p)
    BY <2>2, ElementIs
  <2> QED
    BY <2>3 DEF Lists!Texts
<1> QED
  BY <1>1, <1>2

----------------------------------------------------------------------------
(* Insertions.                                                             *)

LEMMA Inserting ==
  ASSUME NEW F, Held(F), NEW l \in built, NEW n \in Node \ nodes, NEW q \in 0 .. Len(F[l]),
         Linking(F, l, q, n), Sound(memory'), \A x \in Node \ nodes : x # n => str'[x] = str[x],
         NEW G, G = Put(F, l, q, n)
  PROVE  /\ Held(G)' /\ built' = built /\ l \in List
         /\ LeakedNodes' \subseteq LeakedNodes
         /\ G[l] = InsertAt(F[l], q + 1, n)
         /\ \A k \in List : k # l => G[k] = F[k]
<1>1. Types /\ Sound(memory) /\ Bare /\ Shape(F) /\ Walking(F)
  BY DEF Held
<1>2. Types' /\ Shape(G)' /\ Walking(G)'
  BY <1>1, Insertion
<1>3. l \in List /\ l \in Owner /\ List \subseteq Owner
  BY <1>1 DEF Types, Owner
<1>4. F \in [Owner -> Seq(Node)]
  BY <1>1 DEF Shape, Paths
<1>5. G[l] = InsertAt(F[l], q + 1, n) /\ \A k \in List : k # l => G[k] = F[k]
  BY <1>3, <1>4 DEF Put
<1>6. nodes' = nodes \cup {n} /\ built' = built
  BY DEF Linking
<1>7. Bare'
  BY <1>1, <1>6 DEF Bare
<1>8. Range(G[l]) = Range(F[l]) \cup {n}
  BY <1>3, <1>4, <1>5, InsertedRange
<1>9. Keeps(F, G)
  <2>1. ASSUME NEW k \in built, NEW x \in Range(F[k]) PROVE x \in Range(G[k])
    BY <1>1, <1>5, <1>8, <2>1 DEF Types
  <2> QED
    BY <1>6, <1>8, <2>1 DEF Keeps
<1>10. LeakedNodes' \subseteq LeakedNodes
  BY <1>1, <1>2, <1>9, NodesKept
<1> QED
  BY <1>2, <1>3, <1>5, <1>6, <1>7, <1>10 DEF Held

\* What a step leaves as it was, as values.
LEMMA Aside ==
  ASSUME NEW F, Held(F), NEW G, Held(G)', NEW k \in List, G[k] = F[k],
         Still(memory, memory', F[k], {})
  PROVE  ListTexts'[k] = ListTexts[k]
<1>1. ListTexts[k] = Told(memory, F[k]) /\ ListTexts'[k] = Told(memory', G[k])
  BY TextsNow, TextsNext DEF Held
<1>2. F[k] \in Seq(Node)
  BY PathFacts DEF Held
<1> QED
  BY <1>1, <1>2, ToldSame

\* The lists as values are one for each list.
LEMMA ListsAre ==
  /\ ListTexts = [l \in List |-> ListTexts[l]]
  /\ ListTexts' = [l \in List |-> ListTexts'[l]]
BY DEF ListTexts

\* A copy is inserted, of what p says.
LEMMA CopyIn ==
  ASSUME NEW F, Held(F), NEW l \in built, NEW n \in Node \ nodes, NEW q \in 0 .. Len(F[l]),
         NEW p \in Sources, \E b \in Free : Remember(CopyConstruct(memory, n, p, b)),
         Linking(F, l, q, n)
  PROVE  ListInv' /\ LeakedNodes' \subseteq LeakedNodes /\ NoneLost /\ Lists!Next
<1>1. Types /\ Sound(memory) /\ Bare /\ Shape(F) /\ Walking(F)
  BY DEF Held
<1>2. n \in Place /\ n \notin Variable /\ str[n] = NULL
  BY <1>1, LinkedListAssumption DEF Bare
<1>3. p \in Place
  BY <1>1, SourceIs
<1>4. PICK t : t = Text(memory, p)
  OBVIOUS
<1>5. Sound(memory') /\ Writes(n, t) /\ NoneLost
  BY <1>1, <1>2, <1>3, <1>4, Copies
<1>6. PICK G : G = Put(F, l, q, n)
  OBVIOUS
<1>7. /\ Held(G)' /\ built' = built /\ l \in List
      /\ LeakedNodes' \subseteq LeakedNodes
      /\ G[l] = InsertAt(F[l], q + 1, n)
      /\ \A k \in List : k # l => G[k] = F[k]
  <2>1. \A x \in Node \ nodes : x # n => str'[x] = str[x]
    BY <1>5, LinkedListAssumption DEF Writes
  <2> QED
    BY <1>5, <1>6, <2>1, Inserting
<1>8. \A k \in List : Still(memory, memory', F[k], {})
  <2>1. ASSUME NEW k \in List, NEW x \in Range(F[k]) PROVE x \in Place /\ x # n
    BY <1>1, PathFacts
  <2> QED
    BY <1>5, <2>1 DEF Still, Writes
<1>9. \A k \in List : k # l => ListTexts'[k] = ListTexts[k]
  BY <1>7, <1>8, Aside
<1>10. ListTexts'[l] = InsertAt(ListTexts[l], q + 1, t)
  <2>1. ListTexts[l] = Told(memory, F[l]) /\ ListTexts'[l] = Told(memory', G[l])
    BY <1>1, <1>7, TextsNow, TextsNext DEF Held
  <2>2. Text(memory', n) = t
    BY <1>2, <1>5 DEF Writes
  <2>3. F[l] \in Seq(Node)
    BY <1>1, <1>7, PathFacts
  <2>4. Told(memory', InsertAt(F[l], q + 1, n)) = InsertAt(Told(memory, F[l]), q + 1, t)
    BY <1>1, <1>5, <1>7, <1>8, <2>2, <2>3, ToldInserted
  <2> QED
    BY <1>7, <2>1, <2>4
<1>11. q + 1 \in 1 .. Len(ListTexts[l]) + 1
  <2>1. ListTexts[l] = Told(memory, F[l]) /\ F[l] \in Seq(Node)
    BY <1>1, <1>7, TextsNow, PathFacts
  <2>2. Len(Told(memory, F[l])) = Len(F[l]) /\ Len(F[l]) \in Nat
    BY <1>1, <2>1, ToldIs
  <2> QED
    BY <2>1, <2>2
<1>12. UNCHANGED VariableTexts
  <2>1. \A v \in Variable : v \in Place /\ v # n
    BY <1>2, LinkedListAssumption
  <2> QED
    BY <1>5, <2>1 DEF Writes, VariableTexts
<1>13. ListTexts' = [ListTexts EXCEPT ![l] = InsertAt(@, q + 1, t)]
  BY <1>7, <1>9, <1>10, ListsAre
<1>14. Lists!InsertCopy(l, q + 1, t)
  BY <1>7, <1>12, <1>13 DEF Lists!InsertCopy, Lists!InsertAt, InsertAt
<1>15. t \in Lists!Texts
  BY <1>1, <1>4, SourceText
<1>16. Lists!Next
  BY <1>11, <1>14, <1>15 DEF Lists!Next
<1>17. ListInv'
  BY <1>7 DEF ListInv
<1> QED
  BY <1>5, <1>7, <1>16, <1>17

\* An element is moved from, and the other elements stay.
LEMMA EmptiedIs ==
  ASSUME NEW F, Held(F), Sound(memory'), NEW k \in built, NEW i \in 1 .. Len(F[k]),
         NEW x, x = F[k][i], \A j \in List : Still(memory, memory', F[j], {x}),
         Text(memory', x) = <<>>
  PROVE  \A j \in List : Told(memory', F[j]) = Lists!Emptied(<<k, i>>)[j]
<1>1. Types /\ Sound(memory) /\ Shape(F)
  BY DEF Held
<1>2. k \in List
  BY <1>1 DEF Types
<1>3. SUFFICES ASSUME NEW j \in List
               PROVE  Told(memory', F[j]) = Lists!Emptied(<<k, i>>)[j]
  OBVIOUS
<1>4. /\ F[j] \in Seq(Node) /\ Len(F[j]) \in Nat
      /\ \A a, b \in 1 .. Len(F[j]) : F[j][a] = F[j][b] => a = b
  BY <1>1, PathFacts
<1>5. ListTexts[j] = Told(memory, F[j])
  BY <1>1, TextsNow
<1>6. Lists!Emptied(<<k, i>>)[j] = IF j = k THEN ReplaceAt(ListTexts[j], i, <<>>) ELSE ListTexts[j]
  BY DEF Lists!Emptied, Lists!ReplaceAt, ReplaceAt
<1>7. CASE j = k
  <2>1. Still(memory, memory', F[j], {F[j][i]}) /\ Text(memory', F[j][i]) = <<>> /\ i \in 1 .. Len(F[j])
    BY <1>7
  <2>2. Told(memory', F[j]) = ReplaceAt(Told(memory, F[j]), i, <<>>)
    BY <1>1, <1>4, <2>1, ToldEmptied
  <2> QED
    BY <1>5, <1>6, <1>7, <2>2
<1>8. CASE j # k
  <2>1. x \notin Range(F[j])
    BY <1>1, <1>2, <1>8, PathFacts
  <2>2. Still(memory, memory', F[j], {})
    BY <2>1 DEF Still
  <2>3. Told(memory', F[j]) = Told(memory, F[j])
    BY <1>4, <2>2, ToldSame
  <2> QED
    BY <1>5, <1>6, <1>8, <2>3
<1> QED
  BY <1>7, <1>8

LEMMA InsertedLast ==
  ASSUME NEW S, NEW s \in Seq(S), NEW e \in S
  PROVE  InsertAt(s, Len(s) + 1, e) = Append(s, e)
<1>1. PICK p \in 0 .. Len(s) : p = Len(s)
  OBVIOUS
<1> DEFINE t == InsertAt(s, p + 1, e)
           u == Append(s, e)
<1>2. /\ t \in Seq(S) /\ Len(t) = Len(s) + 1
      /\ \A q \in 1 .. Len(s) + 1 :
           t[q] = IF q <= p THEN s[q] ELSE IF q = p + 1 THEN e ELSE s[q - 1]
  BY ONLY s \in Seq(S), e \in S, p \in 0 .. Len(s), InsertedAfter
<1>3. /\ u \in Seq(S) /\ Len(u) = p + 1
      /\ \A q \in 1 .. p + 1 : u[q] = IF q <= p THEN s[q] ELSE e
  BY <1>1
<1> HIDE DEF t, u
<1>4. \A q \in 1 .. Len(t) : t[q] = u[q]
  BY <1>1, <1>2, <1>3
<1>5. t = u
  <2>1. t \in Seq(S) /\ u \in Seq(S) /\ Len(t) = Len(u)
    BY <1>1, <1>2, <1>3
  <2> QED
    BY ONLY <2>1, <1>4, SeqEqual
<1> QED
  BY <1>1, <1>5 DEF t, u

\* A node with the text of n comes last.
LEMMA ToldLast ==
  ASSUME NEW m, Sound(m), NEW s \in Seq(Node), NEW n \in Node
  PROVE  Told(m, InsertAt(s, Len(s) + 1, n)) = Append(Told(m, s), Text(m, n))
<1>1. Still(m, m, s, {})
  BY DEF Still
<1>2. Len(s) \in 0 .. Len(s)
  OBVIOUS
<1>3. Told(m, InsertAt(s, Len(s) + 1, n)) = InsertAt(Told(m, s), Len(s) + 1, Text(m, n))
  BY <1>1, <1>2, ToldInserted
<1>4. Told(m, s) \in Seq(AnyText) /\ Len(Told(m, s)) = Len(s)
  BY ToldIs
<1>5. Text(m, n) \in AnyText
  BY Facts, LinkedListAssumption
<1>6. InsertAt(Told(m, s), Len(Told(m, s)) + 1, Text(m, n)) = Append(Told(m, s), Text(m, n))
  BY <1>4, <1>5, InsertedLast
<1> QED
  BY <1>3, <1>4, <1>6

\* The value of p is moved into a new last node.
LEMMA MovedIn ==
  ASSUME NEW F, Held(F), NEW l \in built, NEW n \in Node \ nodes, NEW p \in Sources,
         appendMove(l, n, p)
  PROVE  ListInv' /\ LeakedNodes' \subseteq LeakedNodes /\ NoneLost /\ Lists!Next
<1>1. Types /\ Sound(memory) /\ Bare /\ Shape(F) /\ Walking(F)
  BY DEF Held
<1>2. n \in Place /\ n \notin Variable /\ str[n] = NULL
  BY <1>1, LinkedListAssumption DEF Bare
<1>3. p \in Place /\ p # n /\ p \notin Node \ nodes
  BY <1>1, <1>2, SourceIs, LinkedListAssumption
<1>4. PICK t : t = Text(memory, p)
  OBVIOUS
<1>5. Sound(memory') /\ Takes(n, p) /\ NoneLost
  BY <1>1, <1>2, <1>3, MovesIn DEF appendMove
<1>6. PICK G : G = Put(F, l, Len(F[l]), n)
  OBVIOUS
<1>7. /\ Held(G)' /\ built' = built /\ l \in List
      /\ LeakedNodes' \subseteq LeakedNodes
      /\ G[l] = InsertAt(F[l], Len(F[l]) + 1, n)
      /\ \A k \in List : k # l => G[k] = F[k]
  <2>1. \A x \in Node \ nodes : x # n => str'[x] = str[x]
    BY <1>3, <1>5, LinkedListAssumption DEF Takes
  <2>2. Linking(F, l, Len(F[l]), n)
    BY <1>1, LinkLastLinks DEF appendMove
  <2>3. Len(F[l]) \in 0 .. Len(F[l])
    BY <1>1, PathOf
  <2> QED
    BY <1>5, <1>6, <2>1, <2>2, <2>3, Inserting
<1>8. \A k \in List : \A x \in Range(F[k]) : x \in Place /\ x # n /\ x \notin Variable
  BY <1>1, PathFacts
<1>9. \A k \in List : Still(memory, memory', F[k], {p})
  BY <1>5, <1>8 DEF Still, Takes
<1>10. Text(memory', n) = t /\ Text(memory', p) = <<>>
  BY <1>2, <1>3, <1>4, <1>5 DEF Takes
<1>11. /\ ListTexts'[l] = Append(Told(memory', F[l]), t)
       /\ \A k \in List : k # l => ListTexts'[k] = Told(memory', F[k])
  <2>1. F[l] \in Seq(Node)
    BY <1>1, <1>7, PathFacts
  <2>2. Told(memory', InsertAt(F[l], Len(F[l]) + 1, n)) = Append(Told(memory', F[l]), t)
    BY <1>5, <1>10, <2>1, ToldLast
  <2>3. ListTexts' = [k \in List |-> Told(memory', G[k])]
    BY <1>7, TextsNext DEF Held
  <2> QED
    BY <1>7, <2>2, <2>3
<1>12. Lists!Next
  <2>1. CASE p \in Variable
    <3>1. \A k \in List : Still(memory, memory', F[k], {})
      BY <1>8, <1>9, <2>1 DEF Still
    <3>2. \A k \in List : Told(memory', F[k]) = ListTexts[k]
      BY <1>1, <3>1, PathFacts, TextsNow, ToldSame
    <3>3. ListTexts' = [ListTexts EXCEPT ![l] = Append(@, t)]
      BY <1>7, <1>11, <3>2, ListsAre
    <3>4. VariableTexts[p] = t /\ VariableTexts' = [VariableTexts EXCEPT ![p] = <<>>]
      <4>1. \A v \in Variable : v \in Place /\ v # n
        BY <1>2, LinkedListAssumption
      <4>2. \A v \in Variable : Text(memory', v) = IF v = p THEN <<>> ELSE Text(memory, v)
        BY <1>5, <4>1 DEF Takes
      <4> QED
        BY <1>4, <2>1, <4>2 DEF VariableTexts
    <3>5. Lists!AppendVariable(l, p)
      BY <1>7, <3>3, <3>4 DEF Lists!AppendVariable
    <3> QED
      BY <1>7, <2>1, <3>5 DEF Lists!Next
  <2>2. CASE p \notin Variable
    <3>1. PICK k \in built : \E i \in 1 .. Len(F[k]) : p = F[k][i]
      BY <1>1, <2>2, SourceIs
    <3>2. PICK i \in 1 .. Len(F[k]) : p = F[k][i]
      BY <3>1
    <3>3. <<k, i>> \in Lists!Element /\ Lists!TextOf(<<k, i>>) = t
      BY <1>1, <1>4, <3>2, ElementIs
    <3>4. \A j \in List : Told(memory', F[j]) = Lists!Emptied(<<k, i>>)[j]
      BY <1>5, <1>9, <1>10, <3>2, EmptiedIs
    <3>5. ListTexts' = [j \in List |-> IF j = l THEN Append(Lists!Emptied(<<k, i>>)[j], t)
                                                ELSE Lists!Emptied(<<k, i>>)[j]]
      BY <1>7, <1>11, <3>4, ListsAre
    <3>6. UNCHANGED VariableTexts
      <4>1. \A v \in Variable : v \in Place /\ v # n /\ v # p
        BY <1>2, <2>2, LinkedListAssumption
      <4> QED
        BY <1>5, <4>1 DEF Takes, VariableTexts
    <3>7. Lists!AppendElement(l, <<k, i>>)
      BY <1>7, <3>3, <3>5, <3>6 DEF Lists!AppendElement
    <3> QED
      BY <1>7, <3>3, <3>7 DEF Lists!Next
  <2> QED
    BY <2>1, <2>2
<1>13. ListInv'
  BY <1>7 DEF ListInv
<1> QED
  BY <1>5, <1>7, <1>12, <1>13

----------------------------------------------------------------------------
(* Removals.                                                               *)

LEMMA Removing ==
  ASSUME NEW F, Held(F), NEW l \in built, NEW q \in 1 .. Len(F[l]), NEW node, node = F[l][q],
         Unlink(l, node), Sound(memory'), str'[node] = NULL,
         \A x \in Node \ nodes : str'[x] = str[x], NEW G, G = Cut(F, l, q)
  PROVE  /\ Held(G)' /\ built' = built /\ l \in List
         /\ LeakedNodes' \subseteq LeakedNodes
         /\ G[l] = RemoveAt(F[l], q)
         /\ \A k \in List : k # l => G[k] = F[k]
<1>1. Types /\ Sound(memory) /\ Bare /\ Shape(F) /\ Walking(F)
  BY DEF Held
<1>2. Types' /\ Shape(G)' /\ Walking(G)'
  BY <1>1, Removal
<1>3. l \in List /\ l \in Owner
  BY <1>1 DEF Types, Owner
<1>4. F \in [Owner -> Seq(Node)] /\ List \subseteq Owner
  BY <1>1 DEF Shape, Paths, Owner
<1>5. G[l] = RemoveAt(F[l], q) /\ \A k \in List : k # l => G[k] = F[k]
  BY <1>3, <1>4 DEF Cut
<1>6. nodes' = nodes \ {node} /\ built' = built
  BY DEF Unlink
<1>7. Bare'
  BY <1>1, <1>6 DEF Bare
<1>8. Range(G[l]) = Range(F[l]) \ {node}
  <2>1. F[l] \in Seq(Node) /\ \A i, j \in 1 .. Len(F[l]) : F[l][i] = F[l][j] => i = j
    BY <1>1, <1>3, PathFacts
  <2> QED
    BY <1>5, <2>1, RemovedRange
<1>9. Keeps(F, G)
  <2>1. ASSUME NEW k \in built, NEW x \in Range(F[k]), x # node PROVE x \in Range(G[k])
    BY <1>1, <1>5, <1>8, <2>1 DEF Types
  <2> QED
    BY <1>6, <2>1 DEF Keeps
<1>10. LeakedNodes' \subseteq LeakedNodes
  BY <1>1, <1>2, <1>9, NodesKept
<1> QED
  BY <1>2, <1>3, <1>5, <1>6, <1>7, <1>10 DEF Held

\* The paths in G are those in F but for place q of the path of l.
Shorter(F, G, l, q) == G[l] = RemoveAt(F[l], q) /\ \A k \in List : k # l => G[k] = F[k]

AllStill(F, gone) == \A k \in List : Still(memory, memory', F[k], gone)

\* The lists as values after a removal; the text of the removed node is no matter.
LEMMA ShorterLists ==
  ASSUME NEW F, Held(F), NEW l \in List, NEW q \in 1 .. Len(F[l]), NEW G, Held(G)',
         Shorter(F, G, l, q), NEW x, x = F[l][q], AllStill(F, {x})
  PROVE  ListTexts' = [ListTexts EXCEPT ![l] = RemoveAt(@, q)]
<1>0. /\ G[l] = RemoveAt(F[l], q) /\ \A k \in List : k # l => G[k] = F[k]
      /\ \A k \in List : Still(memory, memory', F[k], {x})
  BY DEF Shorter, AllStill
<1>1. Types /\ Sound(memory) /\ Shape(F) /\ Sound(memory')
  BY DEF Held
<1>2. /\ F[l] \in Seq(Node) /\ F[l][q] \in Range(F[l])
      /\ \A i, j \in 1 .. Len(F[l]) : F[l][i] = F[l][j] => i = j
  BY <1>1, PathFacts
<1>3. ListTexts[l] = Told(memory, F[l]) /\ ListTexts'[l] = Told(memory', G[l])
  BY <1>1, TextsNow, TextsNext DEF Held
<1>4. Told(memory', RemoveAt(F[l], q)) = RemoveAt(Told(memory, F[l]), q)
  <2>1. Still(memory, memory', F[l], {F[l][q]})
    BY <1>0
  <2> QED
    BY <1>1, <1>2, <2>1, ToldRemoved
<1>5. ASSUME NEW k \in List, k # l PROVE ListTexts'[k] = ListTexts[k]
  <2>1. F[l][q] \notin Range(F[k])
    BY <1>1, <1>2, <1>5, PathFacts
  <2>2. Still(memory, memory', F[k], {})
    BY <1>0, <2>1 DEF Still
  <2> QED
    BY <1>0, <1>5, <2>2, Aside
<1> QED
  BY <1>0, <1>3, <1>4, <1>5, ListsAre

LEMMA RemovedOne ==
  ASSUME NEW F, Held(F), NEW l \in built, NEW node \in OnList(l), remove(l, node)
  PROVE  ListInv' /\ LeakedNodes' \subseteq LeakedNodes /\ NoneLost /\ Lists!Next
<1>1. Types /\ Sound(memory) /\ Bare /\ Shape(F) /\ Walking(F)
  BY DEF Held
<1>2. l \in List
  BY <1>1 DEF Types
<1>3. PICK q \in 1 .. Len(F[l]) : node = F[l][q]
  BY <1>1, <1>2, SeenNow, PathFacts
<1>4. node \in Place /\ node \in nodes /\ node \notin Variable
  BY <1>1, <1>2, <1>3, PathFacts
<1>5. Remember(Destruct(memory, {node})) /\ Unlink(l, node)
  BY DEF remove
<1>6. Sound(memory') /\ Clears({node}) /\ NoneLost
  BY <1>1, <1>4, <1>5, Empties
<1>7. PICK G : G = Cut(F, l, q)
  OBVIOUS
<1>8. /\ Held(G)' /\ built' = built
      /\ LeakedNodes' \subseteq LeakedNodes
      /\ G[l] = RemoveAt(F[l], q)
      /\ \A k \in List : k # l => G[k] = F[k]
  <2>1. str'[node] = NULL /\ \A x \in Node \ nodes : str'[x] = str[x]
    BY <1>4, <1>6, LinkedListAssumption DEF Clears
  <2> QED
    BY <1>3, <1>5, <1>6, <1>7, <2>1, Removing
<1>9. \A k \in List : Still(memory, memory', F[k], {node})
  BY <1>1, <1>6, PathFacts DEF Still, Clears
<1>10. ListTexts' = [ListTexts EXCEPT ![l] = RemoveAt(@, q)]
  <2>1. Shorter(F, G, l, q) /\ AllStill(F, {node})
    BY <1>8, <1>9 DEF Shorter, AllStill
  <2> QED
    BY ONLY Held(F), q \in 1 .. Len(F[l]), <1>2, <1>3, <1>8, <2>1, ShorterLists
<1>11. UNCHANGED VariableTexts
  <2>1. \A v \in Variable : v \in Place /\ v # node
    BY <1>4, LinkedListAssumption
  <2> QED
    BY <1>6, <2>1 DEF Clears, VariableTexts
<1>12. <<l, q>> \in Lists!Element
  BY <1>1, ElementIs
<1>13. Lists!Erase(<<l, q>>)
  BY <1>8, <1>10, <1>11 DEF Lists!Erase, Lists!RemoveAt, RemoveAt
<1>14. Lists!Next
  BY <1>12, <1>13 DEF Lists!Next
<1>15. ListInv'
  BY <1>8 DEF ListInv
<1> QED
  BY <1>6, <1>8, <1>14, <1>15

LEMMA RemovedFirst ==
  ASSUME NEW S, NEW s \in Seq(S), s # <<>>
  PROVE  RemoveAt(s, 1) = Tail(s)
<1>1. 1 \in 1 .. Len(s) /\ Len(s) \in Nat
  OBVIOUS
<1>2. PICK t \in Seq(S) : /\ t = RemoveAt(s, 1) /\ Len(t) = Len(s) - 1
                          /\ \A q \in 1 .. Len(s) - 1 : t[q] = IF q < 1 THEN s[q] ELSE s[q + 1]
  BY <1>1, RemovedFrom
<1>3. PICK u \in Seq(S) : /\ u = Tail(s) /\ Len(u) = Len(s) - 1
                          /\ \A q \in 1 .. Len(s) - 1 : u[q] = s[q + 1]
  <2>1. Tail(s) \in Seq(S) /\ Len(Tail(s)) = Len(s) - 1
    BY HeadTailProperties
  <2>2. \A q \in 1 .. Len(Tail(s)) : Tail(s)[q] = s[q + 1]
    BY HeadTailProperties
  <2> QED
    BY <2>1, <2>2
<1>4. Len(t) = Len(u) /\ \A q \in 1 .. Len(t) : t[q] = u[q]
  BY <1>1, <1>2, <1>3
<1>5. t = u
  BY <1>4, SeqEqual
<1> QED
  BY <1>2, <1>3, <1>5

LEMMA Dequeued ==
  ASSUME NEW F, Held(F), NEW l \in built, NEW v \in Variable, dequeue(l, v)
  PROVE  ListInv' /\ LeakedNodes' \subseteq LeakedNodes /\ NoneLost /\ Lists!Next
<1>1. Types /\ Sound(memory) /\ Bare /\ Shape(F) /\ Walking(F)
  BY DEF Held
<1>2. l \in List
  BY <1>1 DEF Types
<1>3. PICK node : node = head[l]
  OBVIOUS
<1>4. /\ node # NULL /\ Unlink(l, node)
      /\ Remember(Destruct(MoveAssign(memory, v, node), {node}))
  BY <1>3 DEF dequeue
<1>5. 1 \in 1 .. Len(F[l]) /\ node = F[l][1]
  <2>1. F[l] \in Seq(Node) /\ node = FirstOf(F[l])
    BY <1>1, <1>3, PathOf
  <2> QED
    BY <1>4, <2>1, EndsOf
<1>6. node \in Place /\ node \in nodes /\ node \notin Variable /\ v \in Place /\ v # node
  BY <1>1, <1>2, <1>5, PathFacts, LinkedListAssumption
<1>7. Sound(memory') /\ Takes(v, node) /\ str'[node] = NULL /\ NoneLost
  BY <1>1, <1>4, <1>6, TakesAll
<1>8. PICK G : G = Cut(F, l, 1)
  OBVIOUS
<1>9. /\ Held(G)' /\ built' = built
      /\ LeakedNodes' \subseteq LeakedNodes
      /\ G[l] = RemoveAt(F[l], 1)
      /\ \A k \in List : k # l => G[k] = F[k]
  <2>1. \A x \in Node \ nodes : str'[x] = str[x]
    BY <1>6, <1>7, LinkedListAssumption DEF Takes
  <2> QED
    BY <1>4, <1>5, <1>7, <1>8, <2>1, Removing
<1>10. \A k \in List : Still(memory, memory', F[k], {node})
  <2>1. ASSUME NEW k \in List, NEW x \in Range(F[k]) PROVE x \in Place /\ x # v
    BY <1>1, PathFacts
  <2> QED
    BY <1>7, <2>1 DEF Still, Takes
<1>11. ListTexts' = [ListTexts EXCEPT ![l] = RemoveAt(@, 1)]
  <2>1. Shorter(F, G, l, 1) /\ AllStill(F, {node})
    BY <1>9, <1>10 DEF Shorter, AllStill
  <2> QED
    BY ONLY Held(F), <1>2, <1>5, <1>9, <2>1, ShorterLists
<1>12. /\ ListTexts[l] \in Seq(AnyText) /\ ListTexts[l] # <<>>
       /\ ListTexts[l][1] = Text(memory, node)
  <2>1. ListTexts[l] = Told(memory, F[l]) /\ F[l] \in Seq(Node)
    BY <1>1, <1>2, TextsNow, PathFacts
  <2>2. /\ Told(memory, F[l]) \in Seq(AnyText) /\ Len(Told(memory, F[l])) = Len(F[l])
        /\ Told(memory, F[l])[1] = Text(memory, F[l][1])
    BY <1>1, <1>5, <2>1, ToldIs
  <2>3. Len(Told(memory, F[l])) # 0
    BY <1>5, <2>1, <2>2
  <2> QED
    BY <1>5, <2>1, <2>2, <2>3, EmptySeq
<1>13. ListTexts' = [ListTexts EXCEPT ![l] = Tail(@)]
  BY <1>11, <1>12, RemovedFirst
<1>14. VariableTexts' = [VariableTexts EXCEPT ![v] = Head(ListTexts[l])]
  <2>1. Head(ListTexts[l]) = Text(memory, node)
    BY <1>12
  <2>2. \A u \in Variable : u \in Place /\ u # node
    BY <1>6, LinkedListAssumption
  <2>3. \A u \in Variable : Text(memory', u) = IF u = v THEN Text(memory, node) ELSE Text(memory, u)
    BY <1>7, <2>2 DEF Takes
  <2> QED
    BY <2>1, <2>3 DEF VariableTexts
<1>15. Lists!Dequeue(l, v)
  BY <1>9, <1>12, <1>13, <1>14 DEF Lists!Dequeue
<1>16. Lists!Next
  BY <1>2, <1>15 DEF Lists!Next
<1>17. ListInv'
  BY <1>9 DEF ListInv
<1> QED
  BY <1>7, <1>9, <1>16, <1>17

----------------------------------------------------------------------------
(* Whole lists.                                                            *)

LEMMA Destroyed ==
  ASSUME NEW F, Held(F), NEW l \in List, Destroy(l)
  PROVE  ListInv' /\ LeakedNodes' \subseteq LeakedNodes /\ NoneLost /\ Lists!Next
<1>1. Types /\ Sound(memory) /\ Bare /\ Shape(F) /\ Walking(F)
  BY DEF Held
<1>2. PICK gone : gone = Range(F[l])
  OBVIOUS
<1>3. /\ l \in built /\ built' = built \ {l}
      /\ Remember(Destruct(memory, gone)) /\ nodes' = nodes \ gone
  BY <1>1, <1>2, SeenNow DEF Destroy
<1>4. \A x \in gone : x \in Node /\ x \in Place /\ x \notin Variable
  BY <1>1, <1>2, PathFacts
<1>5. Sound(memory') /\ Clears(gone) /\ NoneLost
  BY <1>1, <1>3, <1>4, Empties
<1>6. PICK G : G = Drop(F, l)
  OBVIOUS
<1>7. Types' /\ Shape(G)' /\ Walking(G)'
  BY <1>1, <1>3, <1>6, Destruction
<1>8. G[l] = <<>> /\ \A k \in List : k # l => G[k] = F[k]
  <2>1. F \in [Owner -> Seq(Node)] /\ List \subseteq Owner
    BY <1>1 DEF Shape, Paths, Owner
  <2> QED
    BY <1>6, <2>1 DEF Drop
<1>9. Bare'
  <2>1. \A x \in Node : str'[x] = IF x \in gone THEN NULL ELSE str[x]
    BY <1>5, LinkedListAssumption DEF Clears
  <2> QED
    BY <1>1, <1>3, <2>1 DEF Bare
<1>10. Held(G)'
  BY <1>5, <1>7, <1>9 DEF Held
<1>11. Keeps(F, G)
  <2>1. ASSUME NEW k \in built, NEW x \in Range(F[k]), x \in nodes'
        PROVE  k \in built' /\ x \in Range(G[k])
    <3>1. k # l /\ k \in List
      BY <1>1, <1>2, <1>3, <2>1 DEF Types
    <3> QED
      BY <1>3, <1>8, <2>1, <3>1
  <2> QED
    BY <1>3, <2>1 DEF Keeps
<1>12. LeakedNodes' \subseteq LeakedNodes
  BY <1>1, <1>7, <1>11, NodesKept
<1>13. ASSUME NEW k \in List, k # l PROVE ListTexts'[k] = ListTexts[k]
  <2>1. ASSUME NEW x \in Range(F[k]) PROVE x \in Place /\ x \notin gone
    BY <1>1, <1>2, <1>13, PathFacts
  <2>2. Still(memory, memory', F[k], {})
    BY <1>5, <2>1 DEF Still, Clears
  <2> QED
    BY <1>8, <1>10, <1>13, <2>2, Aside
<1>14. ListTexts'[l] = <<>>
  <2>1. ListTexts'[l] = Told(memory', <<>>)
    BY <1>7, <1>8, TextsNext
  <2>2. DOMAIN <<>> = {}
    BY EmptySeq
  <2> QED
    BY <2>1, <2>2 DEF Told
<1>15. ListTexts' = [ListTexts EXCEPT ![l] = <<>>]
  BY <1>13, <1>14, ListsAre
<1>16. UNCHANGED VariableTexts
  <2>1. \A v \in Variable : v \in Place /\ v \notin gone
    BY <1>4, LinkedListAssumption
  <2> QED
    BY <1>5, <2>1 DEF Clears, VariableTexts
<1>17. Lists!Destroy(l)
  BY <1>3, <1>15, <1>16 DEF Lists!Destroy
<1>18. Lists!Next
  BY <1>17 DEF Lists!Next
<1>19. ListInv'
  BY <1>10 DEF ListInv
<1> QED
  BY <1>5, <1>12, <1>18, <1>19

\* The strings are left alone.
LEMMA StringsStay ==
  ASSUME Sound(memory), UNCHANGED strings
  PROVE  memory' = memory /\ Sound(memory') /\ NoneLost /\ UNCHANGED VariableTexts
<1>1. heap' = heap /\ str' = str
  BY DEF strings
<1>2. memory' = memory
  BY <1>1 DEF memory
<1>3. NoneLost
  BY <1>2 DEF NoneLost
<1> QED
  BY <1>2, <1>3 DEF VariableTexts

\* A list that is assigned to leaves the nodes it had behind, if it had any.
LEMMA HandedOver ==
  ASSUME NEW F, Held(F), NEW l \in List, NEW m \in List, m \in built, HandOver(l, m),
         built' = built \cup {l}
  PROVE  /\ ListInv' /\ NoneLost /\ Lists!Next
         /\ l \notin built => LeakedNodes' \subseteq LeakedNodes
<1>1. Types /\ Sound(memory) /\ Bare /\ Shape(F) /\ Walking(F)
  BY DEF Held
<1>2. UNCHANGED strings /\ nodes' = nodes /\ str' = str
  BY DEF HandOver, links, strings
<1>3. memory' = memory /\ Sound(memory') /\ NoneLost /\ UNCHANGED VariableTexts
  BY <1>1, <1>2, StringsStay
<1>4. PICK G : G = Handed(F, l, m)
  OBVIOUS
<1>5. Types' /\ Shape(G)' /\ Walking(G)'
  BY <1>1, <1>4, HandingOver
<1>6. \A k \in List : G[k] = IF k = m THEN <<>> ELSE IF k = l THEN F[m] ELSE F[k]
  BY <1>4, LostIsNone DEF Handed, Owner
<1>7. Bare'
  BY <1>1, <1>2 DEF Bare
<1>8. Held(G)'
  BY <1>3, <1>5, <1>7 DEF Held
<1>9. ASSUME l \notin built PROVE LeakedNodes' \subseteq LeakedNodes
  <2>1. l # m
    BY <1>9
  <2>2. ASSUME NEW k \in built, NEW x \in Range(F[k]) PROVE \E j \in built' : x \in Range(G[j])
    <3>1. k \in List /\ k # l
      BY <1>1, <1>9 DEF Types
    <3>2. CASE k = m
      <4>1. G[l] = F[k] /\ l \in built'
        BY <1>6, <2>1, <3>2
      <4> QED
        BY <2>2, <4>1
    <3>3. CASE k # m
      <4>1. G[k] = F[k] /\ k \in built'
        BY <1>6, <3>1, <3>3
      <4> QED
        BY <2>2, <4>1
    <3> QED
      BY <3>2, <3>3
  <2>3. Keeps(F, G)
    BY <1>2, <2>2 DEF Keeps
  <2> QED
    BY <1>1, <1>5, <2>3, NodesKept
<1>10. /\ \A k \in List : ListTexts'[k] = Told(memory, G[k])
       /\ \A k \in List : ListTexts[k] = Told(memory, F[k])
  BY <1>1, <1>3, <1>5, TextsNow, TextsNext
<1>11. Told(memory, <<>>) = <<>>
  <2>1. DOMAIN <<>> = {}
    BY EmptySeq
  <2> QED
    BY <2>1 DEF Told
<1>12. ListTexts' = [ListTexts EXCEPT ![l] = ListTexts[m], ![m] = <<>>]
  <2>1. \A k \in List : ListTexts'[k] = IF k = m THEN <<>> ELSE IF k = l THEN ListTexts[m]
                                        ELSE ListTexts[k]
    BY <1>6, <1>10, <1>11
  <2> QED
    BY <2>1, ListsAre
<1>13. Lists!MoveList(l, m)
  BY <1>3, <1>12 DEF Lists!MoveList
<1>14. Lists!Next
  BY <1>13 DEF Lists!Next
<1>15. ListInv'
  BY <1>8 DEF ListInv
<1> QED
  BY <1>3, <1>9, <1>14, <1>15

----------------------------------------------------------------------------
(* Steps that leave the paths alone.                                       *)

LEMMA Constructed ==
  ASSUME NEW F, Held(F), NEW l \in List, Construct(l)
  PROVE  ListInv' /\ LeakedNodes' \subseteq LeakedNodes /\ NoneLost /\ Lists!Next
<1>1. Types /\ Sound(memory) /\ Bare /\ Shape(F) /\ Walking(F)
  BY DEF Held
<1>2. /\ UNCHANGED strings /\ nodes' = nodes /\ str' = str
      /\ l \notin built /\ built' = built \cup {l}
  BY DEF Construct, links, strings
<1>3. memory' = memory /\ Sound(memory') /\ NoneLost /\ UNCHANGED VariableTexts
  BY <1>1, <1>2, StringsStay
<1>4. Types' /\ Shape(F)' /\ Walking(F)'
  BY <1>1, Construction
<1>5. Bare'
  BY <1>1, <1>2 DEF Bare
<1>6. Held(F)'
  BY <1>3, <1>4, <1>5 DEF Held
<1>7. Keeps(F, F)
  BY <1>2 DEF Keeps
<1>8. LeakedNodes' \subseteq LeakedNodes
  BY <1>1, <1>4, <1>7, NodesKept
<1>9. UNCHANGED ListTexts
  BY <1>1, <1>3, <1>4, TextsNow, TextsNext
<1>10. Lists!Construct(l)
  BY <1>2, <1>3, <1>9 DEF Lists!Construct
<1>11. Lists!Next
  BY <1>10 DEF Lists!Next
<1>12. ListInv'
  BY <1>6 DEF ListInv
<1> QED
  BY <1>3, <1>8, <1>11, <1>12

LEMMA IteratorMoved ==
  ASSUME NEW F, Held(F), Types', Shape(F)', Walking(F)', UNCHANGED <<strings, links, lists>>
  PROVE  ListInv' /\ LeakedNodes' \subseteq LeakedNodes /\ NoneLost /\ UNCHANGED Lists!vars
<1>1. Types /\ Sound(memory) /\ Bare /\ Shape(F)
  BY DEF Held
<1>2. UNCHANGED strings /\ nodes' = nodes /\ str' = str /\ built' = built
  BY DEF links, strings, lists
<1>3. memory' = memory /\ Sound(memory') /\ NoneLost /\ UNCHANGED VariableTexts
  BY <1>1, <1>2, StringsStay
<1>4. Bare'
  BY <1>1, <1>2 DEF Bare
<1>5. Held(F)'
  BY <1>3, <1>4 DEF Held
<1>6. Keeps(F, F)
  BY <1>2 DEF Keeps
<1>7. LeakedNodes' \subseteq LeakedNodes
  BY <1>1, <1>6, NodesKept
<1>8. UNCHANGED ListTexts
  BY <1>1, <1>3, TextsNow, TextsNext
<1>9. UNCHANGED Lists!vars
  BY <1>2, <1>3, <1>8 DEF Lists!vars
<1>10. ListInv'
  BY <1>5 DEF ListInv
<1> QED
  BY <1>3, <1>7, <1>9, <1>10

\* Operators are the same ones in either module.
LEMMA SameWithout ==
  ASSUME NEW s, NEW c
  PROVE  Lists!Without(s, c) = Without(s, c)
BY Zenon DEF Lists!Without, Without, Lists!Cardinality, Cardinality

LEMMA SameRange ==
  ASSUME NEW s
  PROVE  Lists!Range(s) = Range(s)
BY DEF Lists!Range, Range

\* What a call on a variable writes to it is among the results for values.
LEMMA ResultIs ==
  ASSUME NEW F, Held(F), NEW v \in Variable, NEW t, Writable(Sources, v, t)
  PROVE  t \in Lists!Results(v)
<1>1. Types /\ Sound(memory) /\ Shape(F)
  BY DEF Held
<1>2. VariableTexts[v] = Text(memory, v)
  BY DEF VariableTexts
<1>3. CASE t \in Given \/ t = <<>>
  BY <1>3 DEF Lists!Results
<1>4. ASSUME NEW q \in Sources, t = Text(memory, q) \/ t = Joined(v, q)
      PROVE  t \in Lists!Results(v)
  <2>1. Text(memory, q) \in Lists!Texts
    BY <1>1, SourceText
  <2>2. Joined(v, q) = VariableTexts[v] \o Text(memory, q)
    BY <1>2 DEF Joined
  <2> QED
    BY <1>4, <2>1, <2>2 DEF Lists!Results
<1>5. ASSUME NEW c \in Letters, t = Without(Text(memory, v), c)
      PROVE  t \in Lists!Results(v)
  <2>1. c \in UNION {Lists!Range(u) : u \in Given}
    BY SameRange DEF Letters
  <2>2. t = Lists!Without(VariableTexts[v], c)
    BY <1>2, <1>5, SameWithout
  <2>3. t \in {Lists!Without(VariableTexts[v], d) : d \in UNION {Lists!Range(u) : u \in Given}}
    BY <2>1, <2>2
  <2> QED
    BY <2>3 DEF Lists!Results
<1> QED
  BY <1>3, <1>4, <1>5 DEF Writable

LEMMA PathsStay ==
  ASSUME NEW F, Types, Shape(F), Walking(F), UNCHANGED <<links, lists, iterator>>
  PROVE  Types' /\ Shape(F)' /\ Walking(F)' /\ nodes' = nodes /\ built' = built
<1>1. /\ nodes' = nodes /\ next' = next /\ prev' = prev
      /\ head' = head /\ tail' = tail /\ size' = size /\ built' = built
      /\ iter' = iter /\ walk' = walk /\ due' = due
  BY DEF links, lists, iterator
<1>2. Types'
  BY <1>1 DEF Types
<1>3. Shape(F)'
  BY <1>1 DEF Shape
<1>4. Walking(F)'
  BY <1>1 DEF Walking, Ahead
<1> QED
  BY <1>1, <1>2, <1>3, <1>4

LEMMA VariableChanged ==
  ASSUME NEW F, Held(F), VariableStep
  PROVE  /\ ListInv' /\ LeakedNodes' \subseteq LeakedNodes /\ Lists!Next
         /\ NoneLost \/ \E v \in Variable, q \in Place : CopyAssign(v, q)
<1>1. Types /\ Sound(memory) /\ Bare /\ Shape(F) /\ Walking(F)
  BY DEF Held
<1>2. Types' /\ Shape(F)' /\ Walking(F)' /\ nodes' = nodes /\ built' = built
  BY <1>1, PathsStay DEF VariableStep
<1>3. Sources \subseteq Place
  BY <1>1, SourceIs
<1>4. StringStep(Sources)
  BY DEF VariableStep
<1>5. /\ Sound(memory')
      /\ \E v \in Variable :
            \/ \E t \in AnyText : Writable(Sources, v, t) /\ Writes(v, t)
            \/ \E q \in Sources : Takes(v, q)
      /\ NoneLost \/ \E v \in Variable, q \in Place : CopyAssign(v, q)
  BY <1>1, <1>3, <1>4, VariableCall
<1>6. Keeps(F, F)
  BY <1>2 DEF Keeps
<1>7. LeakedNodes' \subseteq LeakedNodes
  BY <1>1, <1>2, <1>6, NodesKept
<1>8. \A v \in Variable : v \in Place /\ v \notin Node
  BY LinkedListAssumption
<1>9. \A k \in List : \A x \in Range(F[k]) : x \in Place /\ x \notin Variable
  BY <1>1, PathFacts
<1>10. Node \subseteq Place
  BY LinkedListAssumption
<1>11. \A k \in List : ListTexts'[k] = Told(memory', F[k]) /\ ListTexts[k] = Told(memory, F[k])
  BY <1>1, <1>2, TextsNow, TextsNext
<1>12. PICK v \in Variable :
          \/ \E t \in AnyText : Writable(Sources, v, t) /\ Writes(v, t)
          \/ \E q \in Sources : Takes(v, q)
  BY <1>5
<1>13. ASSUME NEW t, Writable(Sources, v, t), Writes(v, t)
       PROVE  Bare' /\ Lists!Next
  <2>1. Bare'
    BY <1>1, <1>2, <1>8, <1>10, <1>13 DEF Bare, Writes
  <2>2. \A k \in List : Still(memory, memory', F[k], {})
    BY <1>9, <1>13 DEF Still, Writes
  <2>3. \A k \in List : ListTexts'[k] = ListTexts[k]
    BY <1>1, <1>11, <2>2, PathFacts, ToldSame
  <2>4. UNCHANGED ListTexts
    BY <2>3, ListsAre
  <2>5. VariableTexts' = [VariableTexts EXCEPT ![v] = t]
    BY <1>8, <1>13 DEF Writes, VariableTexts
  <2>6. t \in Lists!Results(v)
    BY <1>13, ResultIs
  <2>7. Lists!Write(v)
    BY <1>2, <2>4, <2>5, <2>6 DEF Lists!Write
  <2> QED
    BY <2>1, <2>7 DEF Lists!Next
<1>14. ASSUME NEW q \in Sources, Takes(v, q)
       PROVE  Bare' /\ Lists!Next
  <2>1. q \in Place /\ q # v /\ q \notin Node \ nodes
    <3>1. q \in Place /\ (q \notin Variable => q \in nodes)
      BY <1>1, SourceIs
    <3> QED
      BY <1>8, <1>14, <3>1 DEF Takes
  <2>2. Bare'
    BY <1>1, <1>2, <1>8, <1>10, <1>14, <2>1 DEF Bare, Takes
  <2>3. \A k \in List : Still(memory, memory', F[k], {q})
    BY <1>9, <1>14 DEF Still, Takes
  <2>4. /\ Text(memory', v) = Text(memory, q) /\ Text(memory', q) = <<>>
        /\ \A u \in Variable : u # v /\ u # q => Text(memory', u) = Text(memory, u)
    BY <1>8, <1>14, <2>1 DEF Takes
  <2>5. CASE q \in Variable
    <3>1. \A k \in List : Still(memory, memory', F[k], {})
      BY <1>9, <2>3, <2>5 DEF Still
    <3>2. \A k \in List : ListTexts'[k] = ListTexts[k]
      BY <1>1, <1>11, <3>1, PathFacts, ToldSame
    <3>3. UNCHANGED ListTexts
      BY <3>2, ListsAre
    <3>4. VariableTexts' = [VariableTexts EXCEPT ![v] = VariableTexts[q], ![q] = <<>>]
      BY <2>1, <2>4, <2>5 DEF VariableTexts
    <3>5. Lists!MoveVariable(v, q) /\ q \in Variable \ {v}
      BY <1>2, <2>1, <2>5, <3>3, <3>4 DEF Lists!MoveVariable
    <3> QED
      BY <2>2, <3>5 DEF Lists!Next
  <2>6. CASE q \notin Variable
    <3>1. PICK k \in built : \E i \in 1 .. Len(F[k]) : q = F[k][i]
      BY <1>1, <2>6, SourceIs
    <3>2. PICK i \in 1 .. Len(F[k]) : q = F[k][i]
      BY <3>1
    <3>3. <<k, i>> \in Lists!Element /\ Lists!TextOf(<<k, i>>) = Text(memory, q)
      BY <1>1, <3>2, ElementIs
    <3>4. \A j \in List : Told(memory', F[j]) = Lists!Emptied(<<k, i>>)[j]
      BY <1>5, <2>3, <2>4, <3>2, EmptiedIs
    <3>5. ListTexts' = Lists!Emptied(<<k, i>>)
      <4>1. Lists!Emptied(<<k, i>>) = [j \in List |-> Lists!Emptied(<<k, i>>)[j]]
        BY DEF Lists!Emptied
      <4>2. ListTexts' = [j \in List |-> Told(memory', F[j])]
        BY <1>2, TextsNext
      <4> QED
        BY <3>4, <4>1, <4>2
    <3>6. VariableTexts' = [VariableTexts EXCEPT ![v] = Text(memory, q)]
      BY <2>4, <2>6 DEF VariableTexts
    <3>7. Lists!Take(v, <<k, i>>)
      BY <1>2, <3>3, <3>5, <3>6 DEF Lists!Take
    <3> QED
      BY <2>2, <3>3, <3>7 DEF Lists!Next
  <2> QED
    BY <2>5, <2>6
<1>15. Bare' /\ Lists!Next
  BY <1>12, <1>13, <1>14
<1>16. Held(F)'
  BY <1>2, <1>5, <1>15 DEF Held
<1>17. ListInv'
  BY <1>16 DEF ListInv
<1> QED
  BY <1>5, <1>7, <1>15, <1>17

----------------------------------------------------------------------------
(* All steps.                                                              *)

LEMMA ElementStepped ==
  ASSUME NEW F, Held(F), ElementStep
  PROVE  /\ ListInv' /\ LeakedNodes' \subseteq LeakedNodes /\ NoneLost
         /\ Lists!Next \/ UNCHANGED Lists!vars
<1> DEFINE Done == /\ ListInv' /\ LeakedNodes' \subseteq LeakedNodes /\ NoneLost
                   /\ Lists!Next \/ UNCHANGED Lists!vars
<1>1. Types /\ Shape(F) /\ Walking(F)
  BY DEF Held
<1>2. PICK l \in built :
         \/ \E n \in Node \ nodes, p \in Sources :
               \/ appendCopy(l, n, p)
               \/ appendMove(l, n, p)
               \/ \E at \in OnList(l) : appendAfter(l, at, n, p) \/ prepend(l, at, n, p)
         \/ \E node \in OnList(l) : remove(l, node)
         \/ \E v \in Variable : dequeue(l, v)
         \/ begin(l)
         \/ rbegin(l)
  BY DEF ElementStep
<1>3. l \in List /\ OnList(l) = Range(F[l]) /\ Len(F[l]) \in Nat
  BY <1>1, PathOf
<1>4. ASSUME NEW n \in Node \ nodes, NEW p \in Sources, appendCopy(l, n, p)
      PROVE  Done
  <2>1. LinkLast(l, n) /\ \E b \in Free : Remember(CopyConstruct(memory, n, p, b))
    BY <1>4 DEF appendCopy
  <2>2. Linking(F, l, Len(F[l]), n) /\ Len(F[l]) \in 0 .. Len(F[l])
    BY <1>1, <1>3, <2>1, LinkLastLinks
  <2> QED
    BY <2>1, <2>2, CopyIn
<1>5. ASSUME NEW n \in Node \ nodes, NEW p \in Sources, appendMove(l, n, p)
      PROVE  Done
  BY <1>5, MovedIn
<1>6. ASSUME NEW n \in Node \ nodes, NEW p \in Sources, NEW at \in OnList(l),
             appendAfter(l, at, n, p) \/ prepend(l, at, n, p)
      PROVE  Done
  <2>1. PICK q \in 1 .. Len(F[l]) : at = F[l][q]
    BY <1>1, <1>3, PathFacts
  <2>2. \E b \in Free : Remember(CopyConstruct(memory, n, p, b))
    BY <1>6 DEF appendAfter, prepend
  <2>3. CASE appendAfter(l, at, n, p)
    <3>1. Linking(F, l, q, n) /\ q \in 0 .. Len(F[l])
      BY <1>1, <2>1, <2>3, AppendAfterLinks
    <3> QED
      BY <2>2, <3>1, CopyIn
  <2>4. CASE prepend(l, at, n, p)
    <3>1. Linking(F, l, q - 1, n)
      BY <1>1, <2>1, <2>4, PrependLinks
    <3>2. q - 1 \in 0 .. Len(F[l])
      BY <1>3
    <3> QED
      BY <2>2, <3>1, <3>2, CopyIn
  <2> QED
    BY <1>6, <2>3, <2>4
<1>7. ASSUME NEW node \in OnList(l), remove(l, node) PROVE Done
  BY <1>7, RemovedOne
<1>8. ASSUME NEW v \in Variable, dequeue(l, v) PROVE Done
  BY <1>8, Dequeued
<1>9. ASSUME begin(l) \/ rbegin(l) PROVE Done
  <2>1. Types' /\ Shape(F)' /\ Walking(F)'
    BY <1>1, <1>9, Beginning
  <2>2. UNCHANGED <<strings, links, lists>>
    BY <1>9 DEF begin, rbegin, StartAt
  <2> QED
    BY <2>1, <2>2, IteratorMoved
<1> HIDE DEF Done
<1>10. Done
  BY <1>2, <1>4, <1>5, <1>6, <1>7, <1>8, <1>9
<1> QED
  BY <1>10 DEF Done

\* What every step of the program does.
LEMMA StepTaken ==
  ASSUME ListInv, Next
  PROVE  /\ ListInv'
         /\ Lists!Next \/ UNCHANGED Lists!vars
         /\ LeakedNodes' \subseteq LeakedNodes \/ \E l, m \in List : MoveAssignList(l, m)
         /\ NoneLost \/ \E v \in Variable, q \in Place : CopyAssign(v, q)
<1> DEFINE Done == /\ ListInv'
                   /\ Lists!Next \/ UNCHANGED Lists!vars
                   /\ LeakedNodes' \subseteq LeakedNodes \/ \E l, m \in List : MoveAssignList(l, m)
                   /\ NoneLost \/ \E v \in Variable, q \in Place : CopyAssign(v, q)
<1>1. PICK F : Held(F)
  BY DEF ListInv
<1>2. Types /\ Shape(F) /\ Walking(F)
  BY <1>1 DEF Held
<1>3. ASSUME ElementStep PROVE Done
  BY <1>1, <1>3, ElementStepped
<1>4. ASSUME NEW l \in List, Construct(l) PROVE Done
  BY <1>1, <1>4, Constructed
<1>5. ASSUME NEW l \in List, Destroy(l) PROVE Done
  BY <1>1, <1>5, Destroyed
<1>6. ASSUME NEW l \in List, NEW m \in List, MoveConstructList(l, m) PROVE Done
  <2>1. l \notin built /\ m \in built /\ HandOver(l, m) /\ built' = built \cup {l}
    BY <1>6 DEF MoveConstructList
  <2> QED
    BY <1>1, <2>1, HandedOver
<1>7. ASSUME NEW l \in List, NEW m \in List, MoveAssignList(l, m) PROVE Done
  <2>1. m \in built /\ HandOver(l, m) /\ built' = built \cup {l}
    BY <1>7 DEF MoveAssignList
  <2>2. ListInv' /\ NoneLost /\ Lists!Next
    BY <1>1, <2>1, HandedOver
  <2> QED
    BY <1>7, <2>2
<1>8. ASSUME Advance PROVE Done
  <2>1. Types' /\ Shape(F)' /\ Walking(F)'
    BY <1>2, <1>8, Advancing
  <2>2. UNCHANGED <<strings, links, lists>>
    BY <1>8 DEF Advance
  <2> QED
    BY <1>1, <2>1, <2>2, IteratorMoved
<1>9. ASSUME VariableStep PROVE Done
  BY <1>1, <1>9, VariableChanged
<1> HIDE DEF Done
<1>10. Done
  BY <1>3, <1>4, <1>5, <1>6, <1>7, <1>8, <1>9 DEF Next
<1> QED
  BY <1>10 DEF Done

LEMMA Stuttered ==
  ASSUME ListInv, UNCHANGED vars
  PROVE  /\ ListInv' /\ UNCHANGED Lists!vars
         /\ LeakedNodes' = LeakedNodes /\ LeakedBuffers' = LeakedBuffers
<1>1. PICK F : Held(F)
  BY DEF ListInv
<1>2. UNCHANGED <<strings, links, lists>> /\ UNCHANGED <<links, lists, iterator>>
  BY DEF vars
<1>3. Types' /\ Shape(F)' /\ Walking(F)'
  BY <1>1, <1>2, PathsStay DEF Held
<1>4. ListInv' /\ UNCHANGED Lists!vars
  BY <1>1, <1>2, <1>3, IteratorMoved
<1>5. LeakedBuffers' = LeakedBuffers
  BY <1>2 DEF LeakedBuffers, Owned, strings
<1>6. LeakedNodes' = LeakedNodes
  <2>1. Types /\ Shape(F) /\ nodes' = nodes /\ built' = built
    BY <1>1, <1>2 DEF Held, links, lists
  <2>2. \A p : p \in Sources' <=> p \in Sources
    BY <1>3, <2>1, SourcesNow, SourcesNext
  <2> QED
    BY <2>1, <2>2 DEF LeakedNodes
<1> QED
  BY <1>4, <1>5, <1>6

LEMMA ListInit ==
  ASSUME Init
  PROVE  ListInv /\ Lists!Init
<1> DEFINE F == [k \in Owner |-> <<>>]
<1>1. /\ heap = [b \in Buffer |-> Freed] /\ str = [p \in Place |-> NULL]
      /\ nodes = {} /\ built = {}
      /\ next = [n \in Node |-> NULL] /\ prev = [n \in Node |-> NULL]
      /\ head = [l \in List |-> NULL] /\ tail = [l \in List |-> NULL]
      /\ size = [l \in List |-> 0]
      /\ iter = NULL /\ due = {}
  BY DEF Init, InitStrings
<1>2. Types
  BY <1>1 DEF Types
<1>3. Sound(memory)
  <2>1. Freed \in [text : AnyText, cap : Nat]
    BY EmptyText DEF Freed
  <2>2. memory.heap = heap /\ memory.str = str
    BY DEF memory
  <2> QED
    BY <1>1, <2>1, <2>2 DEF Sound
<1>4. Bare
  BY <1>1, LinkedListAssumption DEF Bare
<1>5. F \in [Owner -> Seq(Node)] /\ \A k \in Owner : F[k] = <<>>
  OBVIOUS
<1>6. Range(<<>>) = {}
  BY EmptySeq DEF Range
<1> HIDE DEF F
<1>7. Shape(F)
  <2>1. Paths(next, prev, F)
    BY <1>5, <1>6, EmptyPath DEF Paths
  <2>2. FirstOf(<<>>) = NULL /\ LastOf(<<>>) = NULL /\ Len(<<>>) = 0
    BY EmptySeq DEF FirstOf, LastOf
  <2>3. Ends(head, tail, size, F)
    BY <1>1, <1>5, <2>2 DEF Ends, Owner
  <2> QED
    BY <1>5, <1>6, <2>1, <2>3 DEF Shape, Owner
<1>8. Walking(F)
  BY <1>1 DEF Walking
<1>9. ListInv
  BY <1>2, <1>3, <1>4, <1>7, <1>8 DEF ListInv, Held
<1>10. ListTexts = [l \in List |-> <<>>]
  BY <1>1 DEF ListTexts
<1>11. VariableTexts = [v \in Variable |-> <<>>]
  <2>1. \A v \in Variable : Text(memory, v) = <<>>
    BY <1>1, LinkedListAssumption DEF Text, memory
  <2> QED
    BY <2>1 DEF VariableTexts
<1> QED
  BY <1>1, <1>9, <1>10, <1>11 DEF Lists!Init

----------------------------------------------------------------------------
(* The theorems.                                                           *)

\* The paths and the memory stay what ListInv says in every state the lists, the
\* queue and the strings in them get to.
THEOREM ListInvariant == Spec => []ListInv
<1>1. Init => ListInv
  BY ListInit
<1>2. ListInv /\ [Next]_vars => ListInv'
  BY StepTaken, Stuttered
<1> QED
  BY <1>1, <1>2, PTL DEF Spec

\* The buffer of a string is its own, is not freed and has room for the text and
\* its terminator, so that no buffer is given back twice or written past its end.
THEOREM BufferOwnedHolds == Spec => []BufferOwned
<1>1. ListInv => BufferOwned
  <2>1. SUFFICES ASSUME ListInv PROVE BufferOwned
    OBVIOUS
  <2>2. Sound(memory) /\ memory.str = str /\ memory.heap = heap
    BY <2>1 DEF ListInv, Held, memory
  <2>3. \A p, q \in Place : str[p] = str[q] => p = q \/ str[p] = NULL
    BY <2>2 DEF Sound
  <2>4. ASSUME NEW p \in Place, str[p] # NULL
        PROVE  heap[str[p]] # Freed /\ Len(heap[str[p]].text) < heap[str[p]].cap
    BY <2>2, <2>4, Facts DEF Sound
  <2> QED
    BY <2>3, <2>4 DEF BufferOwned
<1> QED
  BY <1>1, ListInvariant, PTL

\* The pointers of each list agree in both directions and with its size, its nodes
\* are allocated and no other list has them, however lists are changed, moved and
\* assigned, to themselves as well.
THEOREM LinkedHolds == Spec => []Linked
<1>1. ListInv => Linked
  <2>1. SUFFICES ASSUME NEW F, Held(F), NEW l \in built
                 PROVE  /\ Backward(l) = Reverse(Forward(l))
                        /\ IsInjective(Forward(l))
                        /\ size[l] = Len(Forward(l))
                        /\ OnList(l) \subseteq nodes
                        /\ \A m \in built \ {l} : OnList(l) \cap OnList(m) = {}
    BY DEF ListInv, Linked
  <2>2. Types /\ Shape(F) /\ built \subseteq List
    BY <2>1 DEF Held, Types
  <2>3. \A m \in built : /\ Forward(m) = F[m] /\ Backward(m) = Reverse(F[m])
                         /\ OnList(m) = Range(F[m])
    BY <2>2, SeenNow
  <2>4. /\ F[l] \in Seq(Node)
        /\ \A i, j \in 1 .. Len(F[l]) : F[l][i] = F[l][j] => i = j
        /\ Range(F[l]) \subseteq nodes
        /\ \A m \in List : \A x \in Range(F[l]) : x \in Range(F[m]) => m = l
    BY <2>2, PathFacts
  <2>5. IsInjective(F[l])
    BY <2>4 DEF IsInjective
  <2>6. size[l] = Len(F[l])
    BY <2>2, PathOf
  <2>7. \A m \in built \ {l} : OnList(l) \cap OnList(m) = {}
    BY <2>2, <2>3, <2>4
  <2> QED
    BY <2>3, <2>4, <2>5, <2>6, <2>7
<1> QED
  BY <1>1, ListInvariant, PTL

\* An iterator that comes to the end has met each node that was on its list when
\* it began and was not removed, though lists were changed or moved meanwhile.
THEOREM WalkMissesNothingHolds == Spec => []WalkMissesNothing
<1>1. ListInv => WalkMissesNothing
  BY DEF ListInv, Held, Walking, WalkMissesNothing
<1> QED
  BY <1>1, ListInvariant, PTL

LEMMA LeakedBuffersAre == LeakedBuffers = Lone(memory)
BY StringsAssumption DEF LeakedBuffers, Owned, Lone, memory

LEMMA LeakedBuffersNext == LeakedBuffers' = Lone(memory')
BY StringsAssumption DEF LeakedBuffers, Owned, Lone, memory

\* A node leaks in no step but the assignment of a list by move, and a buffer in
\* none but the assignment of a string by copy.
THEOREM OnlyAssignmentsLeakHolds == Spec => OnlyAssignmentsLeak
<1> DEFINE Leaks == /\ LeakedNodes' \ LeakedNodes # {} =>
                         \E l, m \in List : MoveAssignList(l, m)
                    /\ LeakedBuffers' \ LeakedBuffers # {} =>
                         \E v \in Variable, q \in Place : CopyAssign(v, q)
<1>1. ListInv /\ [Next]_vars => [Leaks]_vars
  <2>1. SUFFICES ASSUME ListInv, Next PROVE Leaks
    OBVIOUS
  <2>2. /\ LeakedNodes' \subseteq LeakedNodes \/ \E l, m \in List : MoveAssignList(l, m)
        /\ NoneLost \/ \E v \in Variable, q \in Place : CopyAssign(v, q)
    BY <2>1, StepTaken
  <2>3. NoneLost => LeakedBuffers' \ LeakedBuffers = {}
    BY LeakedBuffersAre, LeakedBuffersNext DEF NoneLost
  <2>4. LeakedNodes' \subseteq LeakedNodes => LeakedNodes' \ LeakedNodes = {}
    OBVIOUS
  <2> QED
    BY <2>2, <2>3, <2>4
<1> HIDE DEF Leaks
<1>2. Spec => [][Leaks]_vars
  BY <1>1, ListInvariant, PTL DEF Spec
<1> QED
  BY <1>2 DEF OnlyAssignmentsLeak, Leaks

\* The lists of nodes with strings in buffers implement the lists of values: every
\* call shows as one step of Lists, or as none.
THEOREM LinkedListImplementsLists == Spec => ImplementsLists
<1>1. Init => Lists!Init
  BY ListInit
<1>2. ListInv /\ [Next]_vars => [Lists!Next]_(Lists!vars)
  BY StepTaken, Stuttered
<1> QED
  BY <1>1, <1>2, ListInvariant, PTL DEF Spec, ImplementsLists, Lists!Spec

=============================================================================
