--------------------------- MODULE SkipListProofs ---------------------------
(***************************************************************************)
(* What is proved of SkipList, for every number of levels, set of keys and *)
(* tower: the levels stay sorted and nested, the descent never passes the  *)
(* key, and find finds the keys inserted and no other.                     *)
(*                                                                         *)
(* The invariant says of every level a descent has left, or is at, how the *)
(* place it remembers divides the keys: those up to it are smaller than    *)
(* the key sought, those after it are not.                                 *)
(***************************************************************************)
EXTENDS SkipList, SequenceTheorems, TLAPS

Ordered(s) == \A p, q \in DOMAIN s : p < q => s[p] < s[q]

\* Place p of the sequence s is the last that is smaller than k.
Divides(s, p, k) ==
  /\ p \in 0 .. Len(s)
  /\ \A q \in DOMAIN s : s[q] < k <=> q <= p

----------------------------------------------------------------------------
(* Inserting into a sequence.                                              *)

LEMMA InsertAtIs ==
  ASSUME NEW s, NEW p, NEW k
  PROVE  InsertAt(s, p, k) = (SubSeq(s, 1, p - 1) \o <<k>>) \o SubSeq(s, p, Len(s))
BY DEF InsertAt

\* A sequence with k inserted after place p.
LEMMA InsertedAfter ==
  ASSUME NEW s \in Seq(Nat), NEW p \in 0 .. Len(s), NEW k \in Nat
  PROVE  /\ InsertAt(s, p + 1, k) \in Seq(Nat)
         /\ Len(InsertAt(s, p + 1, k)) = Len(s) + 1
         /\ \A q \in 1 .. Len(s) + 1 :
              InsertAt(s, p + 1, k)[q] = IF q <= p THEN s[q] ELSE IF q = p + 1 THEN k ELSE s[q - 1]
<1> DEFINE a == SubSeq(s, 1, p)
           b == SubSeq(s, p + 1, Len(s))
           c == a \o <<k>>
           t == InsertAt(s, p + 1, k)
<1>1. a \in Seq(Nat) /\ Len(a) = p /\ \A i \in 1 .. p : a[i] = s[i]
  OBVIOUS
<1>2. b \in Seq(Nat) /\ Len(b) = Len(s) - p /\ \A i \in 1 .. Len(s) - p : b[i] = s[p + i]
  OBVIOUS
<1>3. t = c \o b
  <2>1. PICK r \in Nat : r = p + 1 /\ r - 1 = p
    OBVIOUS
  <2>2. InsertAt(s, r, k) = (SubSeq(s, 1, r - 1) \o <<k>>) \o SubSeq(s, r, Len(s))
    BY InsertAtIs
  <2> QED
    BY <2>1, <2>2
<1> HIDE DEF a, b, t
<1>4. c \in Seq(Nat) /\ Len(c) = p + 1 /\ \A i \in 1 .. p + 1 : c[i] = IF i <= p THEN s[i] ELSE k
  BY <1>1
<1> HIDE DEF c
<1>5. Len(c) + Len(b) = Len(s) + 1
  BY <1>2, <1>4
<1>6. c \o b \in Seq(Nat) /\ Len(c \o b) = Len(s) + 1
  BY <1>2, <1>4, <1>5, ConcatProperties
<1>7. ASSUME NEW q \in 1 .. Len(s) + 1
      PROVE  (c \o b)[q] = IF q <= p THEN s[q] ELSE IF q = p + 1 THEN k ELSE s[q - 1]
  <2> q \in 1 .. Len(c) + Len(b)
    BY <1>5
  <2>1. (c \o b)[q] = IF q <= Len(c) THEN c[q] ELSE b[q - Len(c)]
    BY <1>2, <1>4, ConcatProperties
  <2>2. CASE q <= p + 1
    BY <1>4, <2>1, <2>2
  <2>3. CASE q > p + 1
    <3>1. /\ q - (p + 1) \in 1 .. Len(s) - p
          /\ p + (q - (p + 1)) = q - 1
          /\ q - Len(c) = q - (p + 1)
      BY <1>4, <2>3
    <3>2. b[q - (p + 1)] = s[q - 1]
      BY <1>2, <3>1
    <3> QED
      BY <1>4, <2>1, <2>3, <3>1, <3>2
  <2>4. p \in Nat /\ q \in Nat
    OBVIOUS
  <2>5. q <= p + 1 \/ q > p + 1
    BY <2>4
  <2> QED
    BY <2>2, <2>3, <2>5
<1>8. /\ t \in Seq(Nat)
      /\ Len(t) = Len(s) + 1
      /\ \A q \in 1 .. Len(s) + 1 : t[q] = IF q <= p THEN s[q] ELSE IF q = p + 1 THEN k ELSE s[q - 1]
  BY <1>3, <1>6, <1>7
<1> QED
  BY <1>8, Zenon DEF t

\* Inserting a new key where it divides an ordered sequence keeps it ordered and
\* adds that key, once.
LEMMA InsertedInOrder ==
  ASSUME NEW s \in Seq(Nat), NEW p, NEW k \in Nat,
         Ordered(s), Divides(s, p, k), k \notin Elements(s)
  PROVE  /\ InsertAt(s, p + 1, k) \in Seq(Nat)
         /\ Len(InsertAt(s, p + 1, k)) = Len(s) + 1
         /\ Ordered(InsertAt(s, p + 1, k))
         /\ Elements(InsertAt(s, p + 1, k)) = Elements(s) \cup {k}
<1> DEFINE t == InsertAt(s, p + 1, k)
           m == Len(s)
<1>1. p \in 0 .. m /\ \A q \in 1 .. m : s[q] < k <=> q <= p
  BY DEF Divides
<1>2. /\ t \in Seq(Nat)
      /\ Len(t) = m + 1
      /\ \A q \in 1 .. m + 1 : t[q] = IF q <= p THEN s[q] ELSE IF q = p + 1 THEN k ELSE s[q - 1]
  BY <1>1, InsertedAfter, Zenon
<1>3. m \in Nat /\ p \in Nat /\ p <= m /\ DOMAIN s = 1 .. m
  BY <1>1
<1>4. DOMAIN t = 1 .. m + 1
  BY <1>2
<1>5. \A q \in 1 .. m : s[q] \in Nat /\ s[q] # k
  BY DEF Elements
<1>6. \A q, r \in 1 .. m : q < r => s[q] < s[r]
  BY DEF Ordered
<1> HIDE DEF t, m
<1>7. ASSUME NEW q \in 1 .. m + 1
      PROVE  \/ q \in 1 .. m /\ q <= p /\ t[q] = s[q] /\ t[q] < k
             \/ q = p + 1 /\ t[q] = k
             \/ q - 1 \in 1 .. m /\ q > p + 1 /\ t[q] = s[q - 1] /\ t[q] > k
  <2>1. t[q] = IF q <= p THEN s[q] ELSE IF q = p + 1 THEN k ELSE s[q - 1]
    BY <1>2
  <2>2. CASE q <= p
    BY <1>1, <1>3, <2>1, <2>2
  <2>3. CASE q = p + 1
    BY <1>3, <2>1, <2>3
  <2>4. CASE q > p + 1
    <3>1. q - 1 \in 1 .. m /\ t[q] = s[q - 1] /\ ~(q - 1 <= p)
      BY <1>3, <2>1, <2>4
    <3>2. ~(s[q - 1] < k) /\ s[q - 1] \in Nat /\ s[q - 1] # k
      BY <1>1, <1>5, <3>1
    <3> QED
      BY <2>4, <3>1, <3>2
  <2>5. q <= p \/ q = p + 1 \/ q > p + 1
    BY <1>3
  <2> QED
    BY <2>2, <2>3, <2>4, <2>5
<1>8. ASSUME NEW q \in 1 .. m + 1, NEW r \in 1 .. m + 1, q < r
      PROVE  t[q] < t[r]
  <2>1. CASE q \in 1 .. m /\ q <= p /\ t[q] = s[q] /\ t[q] < k
    <3>1. t[q] \in Nat
      BY <1>5, <2>1
    <3>2. CASE r \in 1 .. m /\ r <= p /\ t[r] = s[r]
      BY <1>6, <1>8, <2>1, <3>2
    <3>3. CASE t[r] = k
      BY <2>1, <3>3
    <3>4. CASE r - 1 \in 1 .. m /\ t[r] = s[r - 1] /\ t[r] > k
      BY <1>5, <2>1, <3>1, <3>4
    <3> QED
      BY <1>7, <3>2, <3>3, <3>4
  <2>2. CASE q = p + 1 /\ t[q] = k
    <3>1. r > p + 1
      BY <1>3, <1>8, <2>2
    <3>2. t[r] > k
      BY <1>3, <1>7, <3>1
    <3>3. r - 1 \in 1 .. m /\ t[r] = s[r - 1]
      BY <1>3, <1>7, <3>1
    <3> QED
      BY <1>5, <2>2, <3>2, <3>3
  <2>3. CASE q - 1 \in 1 .. m /\ q > p + 1 /\ t[q] = s[q - 1]
    <3>1. r > p + 1
      BY <1>3, <1>8, <2>3
    <3>2. r - 1 \in 1 .. m /\ t[r] = s[r - 1]
      BY <1>3, <1>7, <3>1
    <3>3. q - 1 < r - 1
      BY <1>3, <1>8
    <3> QED
      BY <1>6, <2>3, <3>2, <3>3
  <2> QED
    BY <1>7, <2>1, <2>2, <2>3
<1>9. Ordered(t)
  BY <1>4, <1>8 DEF Ordered
<1>10. Elements(t) \subseteq Elements(s) \cup {k}
  <2> SUFFICES ASSUME NEW q \in 1 .. m + 1
               PROVE  t[q] = k \/ \E r \in 1 .. m : t[q] = s[r]
    BY <1>3, <1>4 DEF Elements
  <2> QED
    BY <1>7
<1>11. Elements(s) \cup {k} \subseteq Elements(t)
  <2>1. p + 1 \in 1 .. m + 1 /\ t[p + 1] = k
    BY <1>2, <1>3
  <2>2. ASSUME NEW q \in 1 .. m
        PROVE  \E r \in 1 .. m + 1 : t[r] = s[q]
    <3>1. CASE q <= p
      <4>1. q \in 1 .. m + 1
        BY <1>3
      <4> QED
        BY <1>2, <3>1, <4>1
    <3>2. CASE q > p
      <4>1. q + 1 \in 1 .. m + 1 /\ (q + 1) - 1 = q /\ ~(q + 1 <= p) /\ q + 1 # p + 1
        BY <1>3, <3>2
      <4>2. t[q + 1] = s[q]
        BY <1>2, <4>1
      <4> QED
        BY <4>1, <4>2
    <3> QED
      BY <1>3, <3>1, <3>2
  <2> QED
    BY <1>3, <1>4, <2>1, <2>2 DEF Elements
<1> QED
  BY <1>2, <1>9, <1>10, <1>11 DEF t, m

----------------------------------------------------------------------------
(* The inductive invariant.                                                *)

Types ==
  /\ levels \in [Level -> Seq(Nat)]
  /\ pc \in {"idle", "find", "insert"}
  /\ data \in Nat
  /\ level \in Level
  /\ n \in Nat
  /\ descent_path \in [Level -> Nat]
  /\ Key \subseteq Nat /\ source \subseteq Nat /\ keys \subseteq Nat

\* A tower reaches from the lowest level up.
Towers ==
  /\ \A i \in Level : Ordered(levels[i])
  /\ \A i, j \in Level : i <= j => Elements(levels[j]) \subseteq Elements(levels[i])

\* What is there was inserted, and what was inserted and is not there is coming.
Held ==
  /\ Elements(levels[0]) \subseteq keys
  /\ \A k \in keys \ Elements(levels[0]) : k \in source \/ (pc = "insert" /\ k = data)
  /\ size \in {Len(levels[0]), Unset}

\* The place the descent is at is one of its level. It is at none only where the
\* level is empty, or after a find ran over the end of the lowest.
InPlace ==
  Searching =>
    /\ n \in 0 .. Len(levels[level])
    /\ n = 0 => levels[level] = <<>> \/ (pc = "find" /\ level = 0)
    /\ pc = "find" => source = {}

\* The descent has only smaller keys behind it.
SmallerBehind ==
  Searching /\ (pc = "insert" \/ data \in keys) =>
    \A p \in DOMAIN levels[level] : p < n \/ n = 0 => levels[level][p] < data

PathDivides ==
  pc = "insert" => \A i \in level + 1 .. L - 1 : Divides(levels[i], descent_path[i], data)

IInv == Types /\ Towers /\ Held /\ InPlace /\ SmallerBehind /\ PathDivides

LEMMA LevelIs == 0 \in Level /\ L - 1 \in Level /\ L \in Nat /\ Level \subseteq Nat
BY SkipListAssumption DEF Level

LEMMA InitInv == Init => IInv
<1> SUFFICES ASSUME Init PROVE IInv
  OBVIOUS
<1>1. \A i \in Level : levels[i] = <<>>
  BY DEF Init
<1>2. Types
  BY LevelIs, SkipListAssumption DEF Init, Types
<1>3. Towers
  BY <1>1 DEF Towers, Ordered, Elements
<1>4. Held
  BY <1>1, LevelIs DEF Init, Held, Elements
<1>5. InPlace /\ SmallerBehind /\ PathDivides
  BY DEF Init, Searching, InPlace, SmallerBehind, PathDivides
<1> QED
  BY <1>2, <1>3, <1>4, <1>5 DEF IInv

----------------------------------------------------------------------------
(* The descent.                                                            *)

\* At the head of a level nothing is behind.
LEMMA FirstIs ==
  ASSUME NEW i \in Level, levels \in [Level -> Seq(Nat)]
  PROVE  /\ First(i) \in 0 .. Len(levels[i])
         /\ First(i) = 0 => levels[i] = <<>>
         /\ First(i) <= 1
BY DEF First

\* One level below a place, the descent is at the same key, or at the head, and
\* all it has behind it is smaller than that key.
LEMMA BelowIs ==
  ASSUME Types, Towers, level # 0, NEW p \in 0 .. Len(levels[level])
  PROVE  /\ level - 1 \in Level
         /\ Below(p) \in 0 .. Len(levels[level - 1])
         /\ Below(p) = 0 => levels[level - 1] = <<>>
         /\ \A q \in DOMAIN levels[level - 1] :
              q < Below(p) => p # 0 /\ levels[level - 1][q] < levels[level][p]
<1>1. level - 1 \in Level /\ level \in Level /\ level - 1 <= level
  BY LevelIs DEF Types, Level
<1> DEFINE s == levels[level]
           u == levels[level - 1]
<1>2. s \in Seq(Nat) /\ u \in Seq(Nat) /\ levels \in [Level -> Seq(Nat)]
  BY <1>1 DEF Types
<1>3. CASE p = 0
  <2>1. Below(p) = First(level - 1)
    BY <1>3 DEF Below
  <2>2. First(level - 1) \in 0 .. Len(u) /\ First(level - 1) <= 1
        /\ (First(level - 1) = 0 => u = <<>>)
    BY <1>1, <1>2, FirstIs
  <2> QED
    BY <1>1, <1>2, <2>1, <2>2
<1>4. CASE p # 0
  <2>1. p \in DOMAIN s
    BY <1>2, <1>4
  <2>2. \E q \in DOMAIN u : u[q] = s[p]
    <3>1. Elements(s) \subseteq Elements(u)
      BY <1>1 DEF Towers
    <3> QED
      BY <2>1, <3>1 DEF Elements
  <2>3. Below(p) = CHOOSE q \in DOMAIN u : u[q] = s[p]
    BY <1>4 DEF Below
  <2>4. Below(p) \in DOMAIN u /\ u[Below(p)] = s[p]
    BY <2>2, <2>3
  <2>5. \A q \in DOMAIN u : q < Below(p) => u[q] < s[p]
    BY <1>1, <2>4 DEF Towers, Ordered
  <2>6. Below(p) \in 1 .. Len(u)
    BY <1>2, <2>4
  <2> QED
    BY <1>1, <1>2, <1>4, <2>5, <2>6
<1> QED
  BY <1>3, <1>4

\* A descent that leaves a level behind a place that divides it.
LEMMA DescendInv ==
  ASSUME IInv, Searching, level # 0, NEW p \in 0 .. Len(levels[level]), Descend(p),
         pc = "insert" \/ data \in keys => Divides(levels[level], p, data)
  PROVE  IInv'
<1> USE DEF IInv
<1>1. /\ UNCHANGED <<levels, size, keys, pc, data, source>>
      /\ level' = level - 1
      /\ n' = Below(p)
      /\ descent_path' = [descent_path EXCEPT ![level] = IF pc = "insert" THEN p ELSE @]
  BY DEF Descend, list
<1>2. /\ level - 1 \in Level /\ level \in Level
      /\ Below(p) \in 0 .. Len(levels[level - 1])
      /\ Below(p) = 0 => levels[level - 1] = <<>>
      /\ \A q \in DOMAIN levels[level - 1] :
           q < Below(p) => p # 0 /\ levels[level - 1][q] < levels[level][p]
  BY BelowIs DEF Types
<1>3. Types'
  <2>1. descent_path \in [Level -> Nat] /\ p \in Nat
    BY DEF Types
  <2>2. descent_path' \in [Level -> Nat]
    BY <1>1, <2>1
  <2> QED
    BY <1>1, <1>2, <2>2 DEF Types, Level
<1>4. Towers' /\ Held'
  BY <1>1 DEF Towers, Held
<1>5. InPlace'
  BY <1>1, <1>2 DEF InPlace, Searching
<1>6. SmallerBehind'
  <2> SUFFICES ASSUME pc = "insert" \/ data \in keys,
                      NEW q \in DOMAIN levels[level - 1], q < Below(p) \/ Below(p) = 0
               PROVE  levels[level - 1][q] < data
    BY <1>1 DEF SmallerBehind, Searching
  <2>1. levels[level - 1] \in Seq(Nat) /\ levels[level] \in Seq(Nat) /\ data \in Nat
    BY <1>2 DEF Types
  <2>2. levels[level - 1] # <<>>
    BY <2>1
  <2>3. p # 0 /\ levels[level - 1][q] < levels[level][p]
    BY <1>2, <2>2
  <2>4. p \in DOMAIN levels[level]
    BY <2>1, <2>3
  <2>5. levels[level][p] < data
    BY <2>1, <2>4 DEF Divides
  <2>6. levels[level - 1][q] \in Nat /\ levels[level][p] \in Nat
    BY <2>1, <2>4
  <2> QED
    BY <2>1, <2>3, <2>5, <2>6
<1>7. PathDivides'
  <2> SUFFICES ASSUME pc = "insert", NEW i \in level .. L - 1
               PROVE  Divides(levels[i], descent_path'[i], data)
    <3>1. (level - 1) + 1 = level
      BY <1>2, LevelIs
    <3> QED
      BY <1>1, <3>1 DEF PathDivides, Divides
  <2>1. descent_path \in [Level -> Nat] /\ i \in Level
    BY <1>2, LevelIs DEF Types, Level
  <2>2. CASE i = level
    <3>1. descent_path'[i] = p
      BY <1>1, <2>1, <2>2
    <3> QED
      BY <2>2, <3>1
  <2>3. CASE i # level
    <3>1. descent_path'[i] = descent_path[i]
      BY <1>1, <2>1, <2>3
    <3>2. i \in level + 1 .. L - 1
      BY <1>2, <2>3, LevelIs
    <3> QED
      BY <3>1, <3>2 DEF PathDivides
  <2> QED
    BY <2>2, <2>3
<1> QED
  BY <1>3, <1>4, <1>5, <1>6, <1>7

\* The place before the node at hand divides its level when that node is past the
\* key, or the node itself when it is before the key and the last.
LEMMA AtDivides ==
  ASSUME IInv, Searching, n # 0, pc = "insert" \/ data \in keys
  PROVE  /\ n \in DOMAIN levels[level]
         /\ At > data => Divides(levels[level], n - 1, data)
         /\ At < data /\ AtEnd => Divides(levels[level], n, data)
<1> DEFINE s == levels[level]
<1>1. s \in Seq(Nat) /\ n \in 1 .. Len(s) /\ data \in Nat /\ Ordered(s)
  BY DEF IInv, Types, InPlace, Towers
<1>2. \A q \in DOMAIN s : q < n => s[q] < data
  BY DEF IInv, SmallerBehind
<1>3. DOMAIN s = 1 .. Len(s) /\ \A q \in 1 .. Len(s) : s[q] \in Nat
  BY <1>1
<1>4. \A q \in 1 .. Len(s) : n < q => s[n] < s[q]
  BY <1>1, <1>3 DEF Ordered
<1> HIDE DEF s
<1>5. ASSUME s[n] > data
      PROVE  Divides(s, n - 1, data)
  <2>1. n - 1 \in 0 .. Len(s)
    BY <1>1
  <2>2. ASSUME NEW q \in 1 .. Len(s)
        PROVE  s[q] < data <=> q <= n - 1
    <3>1. CASE q < n
      BY <1>1, <1>2, <1>3, <3>1
    <3>2. CASE q = n
      BY <1>1, <1>3, <1>5, <3>2
    <3>3. CASE n < q
      BY <1>1, <1>3, <1>4, <1>5, <3>3
    <3> QED
      BY <1>1, <3>1, <3>2, <3>3
  <2> QED
    BY <1>3, <2>1, <2>2 DEF Divides
<1>6. ASSUME s[n] < data, n = Len(s)
      PROVE  Divides(s, n, data)
  BY <1>1, <1>2, <1>3, <1>6 DEF Divides
<1> QED
  BY <1>1, <1>3, <1>5, <1>6 DEF s, At, AtEnd

LEMMA DescentInv ==
  ASSUME IInv, SkipEmptyLevel \/ DescendBefore \/ DescendAtEnd
  PROVE  IInv'
<1>1. Searching /\ level # 0 /\ levels[level] \in Seq(Nat) /\ n \in 0 .. Len(levels[level])
  BY DEF IInv, Types, InPlace, SkipEmptyLevel, DescendBefore, DescendAtEnd
<1>2. CASE SkipEmptyLevel
  <2>1. n = 0 /\ Descend(0)
    BY <1>2 DEF SkipEmptyLevel
  <2>2. levels[level] = <<>>
    BY <1>1, <2>1 DEF IInv, InPlace
  <2>3. 0 \in 0 .. Len(levels[level]) /\ Divides(levels[level], 0, data)
    BY <2>2 DEF Divides
  <2> QED
    BY <1>1, <2>1, <2>3, DescendInv
<1>3. CASE DescendBefore
  <2>1. n # 0 /\ At > data /\ Descend(n - 1)
    BY <1>3 DEF DescendBefore
  <2>2. n - 1 \in 0 .. Len(levels[level])
    BY <1>1, <2>1
  <2>3. pc = "insert" \/ data \in keys => Divides(levels[level], n - 1, data)
    BY <1>1, <2>1, AtDivides
  <2> QED
    BY <1>1, <2>1, <2>2, <2>3, DescendInv
<1>4. CASE DescendAtEnd
  <2>1. n # 0 /\ At < data /\ AtEnd /\ Descend(n)
    BY <1>4 DEF DescendAtEnd
  <2>2. pc = "insert" \/ data \in keys => Divides(levels[level], n, data)
    BY <1>1, <2>1, AtDivides
  <2> QED
    BY <1>1, <2>1, <2>2, DescendInv
<1> QED
  BY <1>2, <1>3, <1>4

\* A key that was inserted is in the list by the time it is looked for.
LEMMA HeldWhenSought ==
  ASSUME IInv, pc = "find"
  PROVE  Elements(levels[0]) = keys
BY DEF IInv, Held, InPlace, Searching

LEMMA AdvanceInv == IInv /\ Advance => IInv'
<1> SUFFICES ASSUME IInv, Advance PROVE IInv'
  OBVIOUS
<1> USE DEF IInv
<1>1. /\ UNCHANGED <<levels, size, keys, pc, data, level, descent_path, source>>
      /\ n' = IF AtEnd THEN 0 ELSE n + 1
      /\ Searching /\ n # 0
      /\ \/ At < data /\ ~AtEnd
         \/ pc = "find" /\ level = 0 /\ At # data
  BY DEF Advance, list
<1>2. /\ levels[level] \in Seq(Nat) /\ n \in 1 .. Len(levels[level]) /\ data \in Nat
      /\ DOMAIN levels[level] = 1 .. Len(levels[level])
      /\ \A q \in 1 .. Len(levels[level]) : levels[level][q] \in Nat
  BY <1>1 DEF Types, InPlace
<1>3. n' \in 0 .. Len(levels[level]) /\ (n' = 0 => AtEnd)
  BY <1>1, <1>2 DEF AtEnd
<1>4. Types'
  BY <1>1, <1>2, <1>3 DEF Types
<1>5. Towers' /\ Held' /\ PathDivides'
  BY <1>1 DEF Towers, Held, PathDivides
<1>6. InPlace'
  BY <1>1, <1>3 DEF InPlace, Searching
<1>7. SmallerBehind'
  <2> SUFFICES ASSUME pc = "insert" \/ data \in keys
               PROVE  /\ n' = n + 1
                      /\ \A q \in 1 .. Len(levels[level]) : q <= n => levels[level][q] < data
    <3>1. n + 1 # 0 /\ n \in Nat
      BY <1>2
    <3> QED
      BY <1>1, <1>2, <3>1 DEF SmallerBehind, Searching
  <2>1. \A q \in 1 .. Len(levels[level]) : q < n => levels[level][q] < data
    BY <1>1, <1>2 DEF SmallerBehind
  <2>2. CASE At < data /\ ~AtEnd
    BY <1>1, <1>2, <2>1, <2>2 DEF At
  <2>3. CASE pc = "find" /\ level = 0 /\ At # data
    <3>1. data \in Elements(levels[level])
      BY <2>3, HeldWhenSought
    <3>2. PICK r \in 1 .. Len(levels[level]) : levels[level][r] = data
      BY <1>2, <3>1 DEF Elements
    <3>3. r > n
      <4>1. r # n /\ ~(r < n)
        BY <1>2, <2>1, <2>3, <3>2 DEF At
      <4> QED
        BY <1>2, <4>1
    <3>4. levels[level][n] < data
      BY <1>2, <3>2, <3>3 DEF Towers, Ordered, Types
    <3>5. ~AtEnd
      BY <1>2, <3>3 DEF AtEnd
    <3> QED
      BY <1>1, <1>2, <2>1, <3>4, <3>5
  <2> QED
    BY <1>1, <2>2, <2>3
<1> QED
  BY <1>4, <1>5, <1>6, <1>7

LEMMA ReturnTypes == Types /\ Return => level' \in Level /\ n' \in Nat /\ data' \in Nat /\ descent_path' \in [Level -> Nat]
BY LevelIs DEF Return

LEMMA FoundInv == IInv /\ (Found \/ NotFound) => IInv'
<1> SUFFICES ASSUME IInv, Found \/ NotFound PROVE IInv'
  OBVIOUS
<1> USE DEF IInv
<1>1. UNCHANGED <<levels, size, keys, source>> /\ Return /\ Searching /\ pc' = "idle"
  BY DEF Found, NotFound, Return, list, Searching
<1>2. Types'
  BY <1>1, ReturnTypes DEF Types
<1>3. Towers' /\ InPlace' /\ SmallerBehind' /\ PathDivides'
  BY <1>1 DEF Towers, InPlace, SmallerBehind, PathDivides, Searching
<1>4. pc = "insert" => data \in Elements(levels[0])
  <2> SUFFICES ASSUME pc = "insert"
               PROVE  data \in Elements(levels[0])
    OBVIOUS
  <2>1. Found /\ n # 0 /\ At = data
    BY DEF Found, NotFound
  <2>2. n \in DOMAIN levels[level]
    BY <1>1, <2>1 DEF Types, InPlace
  <2>3. Elements(levels[level]) \subseteq Elements(levels[0])
    BY LevelIs DEF Types, Towers, Level
  <2> QED
    BY <2>1, <2>2, <2>3 DEF At, Elements
<1>5. Held'
  BY <1>1, <1>4 DEF Held
<1> QED
  BY <1>2, <1>3, <1>5

----------------------------------------------------------------------------
(* The calls.                                                              *)

\* A descent starts at the head of the highest level, with nothing behind it.
LEMMA StartInv ==
  ASSUME IInv, NEW k \in Key, pc = "idle",
         \/ source = {} /\ pc' = "find" /\ source' = source
         \/ /\ pc' = "insert"
            /\ source' = source \ {k}
            /\ source # {} => k \in source,
         data' = k, level' = L - 1, n' = First(L - 1),
         UNCHANGED <<levels, size, keys, descent_path>>
  PROVE  IInv'
<1> USE DEF IInv
<1>1. /\ L - 1 \in Level
      /\ First(L - 1) \in 0 .. Len(levels[L - 1])
      /\ First(L - 1) = 0 => levels[L - 1] = <<>>
      /\ First(L - 1) <= 1
      /\ levels[L - 1] \in Seq(Nat)
  BY LevelIs, FirstIs DEF Types
<1>2. Types'
  <2>1. First(L - 1) \in Nat
    BY <1>1
  <2>2. source' \subseteq Nat /\ k \in Nat
    BY DEF Types
  <2> QED
    BY <1>1, <2>1, <2>2 DEF Types
<1>3. Towers'
  BY DEF Towers
<1>4. Held'
  BY DEF Held
<1>5. InPlace'
  BY <1>1 DEF InPlace, Searching
<1>6. SmallerBehind'
  <2> SUFFICES ASSUME NEW p \in DOMAIN levels[L - 1], p < First(L - 1) \/ First(L - 1) = 0
               PROVE  FALSE
    BY DEF SmallerBehind
  <2> QED
    BY <1>1
<1>7. PathDivides'
  BY LevelIs DEF PathDivides
<1> QED
  BY <1>2, <1>3, <1>4, <1>5, <1>6, <1>7

LEMMA CallsInv ==
  ASSUME IInv, NEW k \in Key, find(k) \/ insert(k)
  PROVE  IInv'
BY StartInv DEF find, insert, Free, Called, list

LEMMA CopyInv ==
  ASSUME IInv, NEW from \in SUBSET Key, CopyConstruct(from) \/ Assign(from)
  PROVE  IInv'
<1> USE DEF IInv
<1>1. /\ UNCHANGED <<pc, data, level, n, descent_path>>
      /\ pc = "idle" /\ source = {} /\ source' = from
      /\ from \subseteq Nat
  BY DEF CopyConstruct, Assign, Free, call, Types
<1>2. InPlace' /\ SmallerBehind' /\ PathDivides'
  BY <1>1 DEF InPlace, SmallerBehind, PathDivides, Searching
<1>3. CASE CopyConstruct(from)
  <2>1. /\ levels' = [i \in Level |-> <<>>]
        /\ size' = Unset /\ keys' = from
    BY <1>3 DEF CopyConstruct
  <2>2. Types'
    BY <1>1, <2>1 DEF Types
  <2>3. \A i \in Level : levels'[i] = <<>>
    BY <2>1
  <2>4. Towers'
    BY <2>3 DEF Towers, Ordered, Elements
  <2>5. Held'
    BY <1>1, <2>1, <2>3, LevelIs DEF Held, Elements
  <2> QED
    BY <1>2, <2>2, <2>4, <2>5
<1>4. CASE Assign(from)
  <2>1. UNCHANGED <<levels, size>> /\ keys' = keys \cup from
    BY <1>4 DEF Assign
  <2>2. Types' /\ Towers'
    BY <1>1, <2>1 DEF Types, Towers
  <2>3. Held'
    BY <1>1, <2>1 DEF Held
  <2> QED
    BY <1>2, <2>2, <2>3
<1> QED
  BY <1>3, <1>4

LEMMA InsertFirstInv ==
  ASSUME IInv, NEW k \in Key, InsertFirst(k)
  PROVE  IInv'
<1> USE DEF IInv
<1>1. /\ UNCHANGED <<pc, data, level, n, descent_path>>
      /\ pc = "idle" /\ source' = source \ {k} /\ keys' = keys \cup {k}
      /\ levels[0] = <<>>
      /\ size' = Larger
      /\ k \in Nat
  BY DEF InsertFirst, Called, call, Types
<1>2. PICK height \in Level :
        levels' = [i \in Level |-> IF i <= height THEN <<k>> ELSE levels[i]]
  BY DEF InsertFirst
<1>3. \A i \in Level : levels[i] = <<>>
  <2> TAKE i \in Level
  <2>1. Elements(levels[i]) \subseteq Elements(levels[0])
    BY LevelIs DEF Towers, Level
  <2>2. levels[i] \in Seq(Nat)
    BY DEF Types
  <2>3. Elements(levels[0]) = {}
    BY <1>1 DEF Elements
  <2>4. \A q \in DOMAIN levels[i] : levels[i][q] \in Elements(levels[i])
    BY DEF Elements
  <2>5. DOMAIN levels[i] = {}
    BY <2>1, <2>3, <2>4
  <2> QED
    BY <2>2, <2>5
<1>4. \A i \in Level : levels'[i] = IF i <= height THEN <<k>> ELSE <<>>
  BY <1>2, <1>3
<1>5. levels' \in [Level -> Seq(Nat)]
  <2>1. <<k>> \in Seq(Nat) /\ <<>> \in Seq(Nat)
    BY <1>1
  <2>2. \A i \in Level : (IF i <= height THEN <<k>> ELSE levels[i]) \in Seq(Nat)
    BY <1>3, <2>1
  <2> QED
    BY <1>2, <2>2
<1>6. Types'
  BY <1>1, <1>5 DEF Types
<1>7. Elements(<<k>>) = {k} /\ Elements(<<>>) = {} /\ Ordered(<<k>>) /\ Ordered(<<>>)
  BY DEF Elements, Ordered
<1>8. Towers'
  <2>1. \A i \in Level : Ordered(levels'[i])
    BY <1>4, <1>7
  <2>2. ASSUME NEW i \in Level, NEW j \in Level, i <= j
        PROVE  Elements(levels'[j]) \subseteq Elements(levels'[i])
    <3>1. CASE j <= height
      <4>1. i <= height
        BY <2>2, <3>1, LevelIs
      <4> QED
        BY <1>4, <3>1, <4>1
    <3>2. CASE ~(j <= height)
      BY <1>4, <1>7, <3>2
    <3> QED
      BY <3>1, <3>2
  <2> QED
    BY <2>1, <2>2 DEF Towers
<1>9. Held'
  <2>1. levels'[0] = <<k>> /\ 0 <= height
    BY <1>4, LevelIs DEF Level
  <2>2. Elements(levels'[0]) = {k} /\ Elements(levels[0]) = {} /\ Len(levels'[0]) = 1
    BY <1>1, <1>7, <2>1
  <2>3. size \in {0, Unset}
    BY <1>1 DEF Held
  <2>4. size' \in {1, Unset}
    BY <1>1, <2>3 DEF Larger
  <2> QED
    BY <1>1, <2>2, <2>4 DEF Held
<1>10. InPlace' /\ SmallerBehind' /\ PathDivides'
  BY <1>1 DEF InPlace, SmallerBehind, PathDivides, Searching
<1> QED
  BY <1>6, <1>8, <1>9, <1>10

----------------------------------------------------------------------------
(* The new tower.                                                          *)

LEMMA InsertWithPathInv == IInv /\ InsertWithPath => IInv'
<1> SUFFICES ASSUME IInv, InsertWithPath PROVE IInv'
  OBVIOUS
<1> USE DEF IInv
<1> DEFINE path == [descent_path EXCEPT ![0] = IF At > data THEN n - 1 ELSE n]
<1>1. /\ pc = "insert" /\ Searching /\ n # 0 /\ level = 0
      /\ At > data \/ AtEnd
      /\ At # data
      /\ size' = Larger /\ keys' = keys \cup {data} /\ source' = source
      /\ Return /\ pc' = "idle"
  BY DEF InsertWithPath, Searching, Return
<1>2. PICK height \in Level :
        levels' = [i \in Level |-> IF i <= height THEN InsertAt(levels[i], path[i] + 1, data)
                                                  ELSE levels[i]]
  BY DEF InsertWithPath
<1>3. levels \in [Level -> Seq(Nat)] /\ descent_path \in [Level -> Nat] /\ data \in Nat
  BY DEF Types
<1>4. \A i \in Level : Divides(levels[i], path[i], data)
  <2> TAKE i \in Level
  <2>1. CASE i = 0
    <3>1. path[0] = IF At > data THEN n - 1 ELSE n
      BY <1>3, LevelIs
    <3>2. n \in DOMAIN levels[0]
      BY <1>1, AtDivides
    <3>3. At \in Nat
      BY <1>1, <1>3, <3>2, LevelIs DEF At
    <3>4. At > data \/ (At < data /\ AtEnd)
      BY <1>1, <1>3, <3>3
    <3>5. At < data => ~(At > data)
      BY <1>3, <3>3
    <3> QED
      BY <1>1, <2>1, <3>1, <3>4, <3>5, AtDivides
  <2>2. CASE i # 0
    <3>1. path[i] = descent_path[i]
      BY <1>3, <2>2
    <3>2. i \in level + 1 .. L - 1
      BY <1>1, <2>2, LevelIs DEF Level
    <3> QED
      BY <1>1, <3>1, <3>2 DEF PathDivides
  <2> QED
    BY <2>1, <2>2
<1>5. data \notin Elements(levels[0])
  <2>1. Divides(levels[0], path[0], data)
    BY <1>4, LevelIs
  <2>2. path[0] = IF At > data THEN n - 1 ELSE n
    BY <1>3, LevelIs
  <2>3. n \in 1 .. Len(levels[0]) /\ levels[0] \in Seq(Nat) /\ Ordered(levels[0])
    BY <1>1, LevelIs DEF Types, InPlace, Towers
  <2> SUFFICES ASSUME NEW q \in 1 .. Len(levels[0]), levels[0][q] = data
               PROVE  FALSE
    BY <2>3 DEF Elements
  <2>4. ~(q <= path[0])
    BY <1>3, <2>1, <2>3 DEF Divides
  <2>5. levels[0][n] \in Nat /\ levels[0][n] # data
    BY <1>1, <2>3 DEF At
  <2>6. CASE At > data
    <3>1. q > n
      <4>1. q # n /\ ~(q <= n - 1)
        BY <2>2, <2>4, <2>5, <2>6
      <4> QED
        BY <2>3, <4>1
    <3>2. levels[0][n] < data
      BY <2>3, <3>1 DEF Ordered
    <3> QED
      BY <1>1, <1>3, <2>5, <2>6, <3>2 DEF At
  <2>7. CASE ~(At > data) /\ AtEnd
    BY <1>1, <2>2, <2>3, <2>4, <2>7 DEF AtEnd
  <2> QED
    BY <1>1, <2>6, <2>7
<1>6. \A i \in Level : data \notin Elements(levels[i])
  BY <1>5, LevelIs DEF Towers, Level
<1> DEFINE t(i) == InsertAt(levels[i], path[i] + 1, data)
<1>7. \A i \in Level : /\ t(i) \in Seq(Nat)
                       /\ Len(t(i)) = Len(levels[i]) + 1
                       /\ Ordered(t(i))
                       /\ Elements(t(i)) = Elements(levels[i]) \cup {data}
  <2> TAKE i \in Level
  <2>1. levels[i] \in Seq(Nat) /\ Ordered(levels[i]) /\ data \notin Elements(levels[i])
        /\ Divides(levels[i], path[i], data)
    BY <1>3, <1>4, <1>6 DEF Towers
  <2> HIDE DEF path
  <2> QED
    BY <1>3, <2>1, InsertedInOrder
<1> HIDE DEF path
<1>8. \A i \in Level : levels'[i] = IF i <= height THEN t(i) ELSE levels[i]
  BY <1>2
<1>9. levels' \in [Level -> Seq(Nat)]
  <2> HIDE DEF t
  <2>1. levels' = [i \in Level |-> IF i <= height THEN t(i) ELSE levels[i]]
    BY <1>2 DEF t
  <2> QED
    BY <1>3, <1>7, <2>1
<1> HIDE DEF t
<1>10. Types'
  <2>1. keys' \subseteq Nat
    BY <1>1, <1>3 DEF Types
  <2> QED
    BY <1>1, <1>9, <2>1, ReturnTypes DEF Types
<1>11. Towers'
  <2>1. \A i \in Level : Ordered(levels'[i])
    BY <1>7, <1>8 DEF Towers
  <2>2. ASSUME NEW i \in Level, NEW j \in Level, i <= j
        PROVE  Elements(levels'[j]) \subseteq Elements(levels'[i])
    <3>1. Elements(levels[j]) \subseteq Elements(levels[i])
      BY <2>2 DEF Towers
    <3>2. CASE j <= height
      <4>1. i <= height
        BY <2>2, <3>2, LevelIs
      <4> QED
        BY <1>7, <1>8, <3>1, <3>2, <4>1
    <3>3. CASE ~(j <= height)
      BY <1>7, <1>8, <3>1, <3>3
    <3> QED
      BY <3>2, <3>3
  <2> QED
    BY <2>1, <2>2 DEF Towers
<1>12. Held'
  <2>1. levels'[0] = t(0)
    BY <1>8, LevelIs DEF Level
  <2>2. /\ Elements(levels'[0]) = Elements(levels[0]) \cup {data}
        /\ Len(levels'[0]) = Len(levels[0]) + 1
    BY <1>7, <2>1, LevelIs
  <2>3. size' \in {Len(levels'[0]), Unset}
    BY <1>1, <2>2, SkipListAssumption DEF Held, Larger
  <2> QED
    BY <1>1, <2>2, <2>3 DEF Held
<1>13. InPlace' /\ SmallerBehind' /\ PathDivides'
  BY <1>1 DEF InPlace, SmallerBehind, PathDivides, Searching
<1> QED
  BY <1>10, <1>11, <1>12, <1>13

----------------------------------------------------------------------------
(* The theorems.                                                           *)

LEMMA InductiveStep == IInv /\ [Next]_vars => IInv'
<1> SUFFICES ASSUME IInv, [Next]_vars PROVE IInv'
  OBVIOUS
<1>1. CASE UNCHANGED vars
  BY <1>1 DEF IInv, Types, Towers, Held, InPlace, SmallerBehind, PathDivides, Searching,
              vars, list, call
<1>2. ASSUME NEW k \in Key, find(k) \/ insert(k) \/ InsertFirst(k)
      PROVE  IInv'
  BY <1>2, CallsInv, InsertFirstInv
<1>3. ASSUME NEW from \in SUBSET Key, CopyConstruct(from) \/ Assign(from)
      PROVE  IInv'
  BY <1>3, CopyInv
<1>4. CASE SkipEmptyLevel \/ DescendBefore \/ DescendAtEnd
  BY <1>4, DescentInv
<1>5. CASE Advance
  BY <1>5, AdvanceInv
<1>6. CASE Found \/ NotFound
  BY <1>6, FoundInv
<1>7. CASE InsertWithPath
  BY <1>7, InsertWithPathInv
<1> QED
  BY <1>1, <1>2, <1>3, <1>4, <1>5, <1>6, <1>7 DEF Next

LEMMA Inductive == Spec => []IInv
BY InitInv, InductiveStep, PTL DEF Spec

\* What insert and the copies leave is a skip list: each level in strict order, with
\* the one below it holding all its keys, and the lowest exactly the keys inserted.
THEOREM LevelsSortedHolds == Spec => []LevelsSorted
<1>1. IInv => LevelsSorted
  <2> SUFFICES ASSUME IInv PROVE LevelsSorted
    OBVIOUS
  <2>1. \A i \in Level : \A p, q \in DOMAIN levels[i] : p < q => levels[i][p] < levels[i][q]
    BY DEF IInv, Towers, Ordered
  <2>2. \A i \in Level \ {0} : Elements(levels[i]) \subseteq Elements(levels[i - 1])
    <3> TAKE i \in Level \ {0}
    <3>1. i - 1 \in Level /\ i - 1 <= i
      BY LevelIs DEF Level
    <3> QED
      BY <3>1 DEF IInv, Towers
  <2>3. Elements(levels[0]) = keys \ Coming
    BY DEF IInv, Held, Coming
  <2>4. size \in {Len(levels[0]), Unset}
    BY DEF IInv, Held
  <2> QED
    BY <2>1, <2>2, <2>3, <2>4 DEF LevelsSorted
<1> QED
  BY <1>1, Inductive, PTL

\* Under any towers, find and insert keep the key in front of them and remember on
\* each level the place the key divides it at.
THEOREM DescentKeepsKeyHolds == Spec => []DescentKeepsKey
<1>1. IInv => DescentKeepsKey
  BY DEF IInv, SmallerBehind, PathDivides, Divides, DescentKeepsKey
<1> QED
  BY <1>1, Inductive, PTL

\* find answers whether the key was inserted.
THEOREM FindExactHolds == Spec => FindExact
<1>1. IInv /\ [Next]_vars => [pc = "find" /\ pc' = "idle" => result' = (data \in keys)]_vars
  <2> SUFFICES ASSUME IInv, Next, pc = "find", pc' = "idle"
               PROVE  result' = (data \in keys)
    OBVIOUS
  <2> USE DEF IInv
  <2>1. Found \/ NotFound
    BY DEF Next, find, insert, InsertFirst, CopyConstruct, Assign, Free, Called, call,
           SkipEmptyLevel, DescendBefore, DescendAtEnd, Descend, Advance, InsertWithPath
  <2>2. Elements(levels[0]) = keys
    BY HeldWhenSought
  <2>3. CASE Found
    <3>1. result' = TRUE /\ n # 0 /\ At = data /\ Searching
      BY <2>3 DEF Found
    <3>2. n \in DOMAIN levels[level]
      BY <3>1 DEF Types, InPlace
    <3>3. Elements(levels[level]) \subseteq Elements(levels[0])
      BY LevelIs DEF Types, Towers, Level
    <3>4. data \in keys
      BY <2>2, <3>1, <3>2, <3>3 DEF At, Elements
    <3> QED
      BY <3>1, <3>4
  <2>4. CASE NotFound
    <3>1. result' = FALSE /\ n = 0 /\ level = 0
      BY <2>4 DEF NotFound
    <3>2. ASSUME data \in keys
          PROVE  FALSE
      <4>1. PICK p \in DOMAIN levels[0] : levels[0][p] = data
        BY <2>2, <3>2 DEF Elements
      <4>2. levels[0][p] < data
        BY <3>1, <3>2 DEF SmallerBehind, Searching
      <4> QED
        BY <4>1, <4>2 DEF Types
    <3>3. (data \in keys) = FALSE
      BY <3>2
    <3>4. result' = FALSE
      BY <3>1
    <3> QED
      BY <3>3, <3>4, Zenon
  <2> QED
    BY <2>1, <2>3, <2>4
<1> QED
  BY <1>1, Inductive, PTL DEF Spec, FindExact

=============================================================================
