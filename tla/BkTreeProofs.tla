---------------------------- MODULE BkTreeProofs ----------------------------
(***************************************************************************)
(* What is proved of BkTree, for every set of words and every distance     *)
(* that is a metric: find and match leave out no subtree with an entry     *)
(* they look for, match meets each entry once, the stack has room, and     *)
(* depth is the number of levels.                                          *)
(*                                                                         *)
(* The tree is described by what is above each entry: the invariant says   *)
(* that there is such a function, anc, and a level of each entry, lev.     *)
(***************************************************************************)
EXTENDS BkTree, FiniteSetTheorems, SequenceTheorems, WellFoundedInduction, TLAPS

----------------------------------------------------------------------------
(* The inductive invariant. anc gives for each entry those above it, lev   *)
(* its level.                                                              *)

Types ==
  /\ root \in Word \cup {Null}
  /\ children \in [Word -> Seq(Word)]
  /\ distance_from_parent \in [Word -> Nat]
  /\ depth \in Nat /\ local_depth \in Nat
  /\ pc \in {"idle", "find", "match", "insert"}
  /\ pc # "idle" => word \in Word
  /\ threshold \in Nat
  /\ pc = "find" => threshold = 0
  /\ child \in Nat
  /\ child > 0 => pc \in {"find", "match"} /\ curr_node \in added
  /\ stack \in Seq(Word)
  /\ size \in Nat /\ capacity \in Nat
  /\ ret \in Seq(Word)
  /\ added \subseteq Word

\* An entry and those below it.
Under(anc, u) == {w \in added : w = u \/ u \in anc[w]}

\* The tree hangs together: an entry is below its parent and all those above its
\* parent, and above no one of them.
Above(anc) ==
  /\ root = Null <=> added = {}
  /\ root # Null => root \in added /\ anc[root] = {} /\ added = Under(anc, root)
  /\ \A w \in added :
       /\ anc[w] \subseteq added
       /\ w \notin anc[w]
       /\ \A p \in anc[w] : anc[p] \subseteq anc[w]
  /\ \A v \in Word \ added : children[v] = <<>>
  /\ \A v \in added : \A c \in Range(children[v]) : c \in added /\ anc[c] = anc[v] \cup {v}

\* The children of an entry rise in distance from it.
Rising ==
  \A v \in Word : \A m, n \in DOMAIN children[v] :
    m < n => distance_from_parent[children[v][m]] < distance_from_parent[children[v][n]]

\* All that is below a child is as far from the parent as that child, and an entry is
\* below one child of each entry above it.
Toward(anc) ==
  /\ \A v \in added : \A c \in Range(children[v]) : \A w \in Under(anc, c) :
       Dist(v, w) = distance_from_parent[c]
  /\ \A w \in added : \A p \in anc[w] : \E c \in Range(children[p]) : w \in Under(anc, c)

\* depth is the number of levels, none of which is empty.
Levels(lev) ==
  /\ root # Null => lev[root] = 0
  /\ \A v \in added : \A c \in Range(children[v]) : lev[c] = lev[v] + 1
  /\ \A w \in added \ {root} : \E v \in added : w \in Range(children[v])
  /\ \A w \in added : lev[w] < depth
  /\ \A n \in 0 .. depth - 1 : \E w \in added : lev[w] = n

Searching == pc \in {"find", "match"}

\* The children still to look at.
Ahead ==
  IF child = 0 THEN {}
  ELSE {children[curr_node][i] : i \in child .. Len(children[curr_node])}

\* What the search has still to visit: these and all below them.
Pending == Range(stack) \cup Ahead

Room ==
  Searching =>
    /\ Pending \subseteq added
    /\ root # Null => Len(stack) <= size /\ size < capacity /\ capacity >= 2

\* No entry that is near enough is left out.
Covered(anc) ==
  Searching =>
    \A w \in added : Dist(w, word) <= threshold =>
      \/ pc = "match" /\ w \in Range(ret)
      \/ \E u \in Pending : w \in Under(anc, u)

\* No entry is visited twice.
Once(anc) ==
  pc = "match" =>
    /\ \A m, n \in DOMAIN stack : m # n => Under(anc, stack[m]) \cap Under(anc, stack[n]) = {}
    /\ \A u \in Range(stack), c \in Ahead : Under(anc, u) \cap Under(anc, c) = {}
    /\ \A w \in Range(ret) : w \in added /\ Dist(w, word) <= threshold
    /\ \A u \in Pending, w \in Range(ret) : w \notin Under(anc, u)
    /\ \A m, n \in DOMAIN ret : ret[m] = ret[n] => m = n

\* The new entry is as far as the node at hand from each entry above that node.
Inserting(anc, lev) ==
  pc = "insert" =>
    /\ word \notin added
    /\ root # Null =>
         /\ curr_node \in added
         /\ local_depth = lev[curr_node] + 1
         /\ \A p \in anc[curr_node] : Dist(p, word) = Dist(p, curr_node)

Tree(anc, lev) == Above(anc) /\ Rising /\ Toward(anc) /\ Levels(lev)

Inv(anc, lev) ==
  /\ Types
  /\ Tree(anc, lev)
  /\ Room /\ Covered(anc) /\ Once(anc) /\ Inserting(anc, lev)

IInv == \E anc \in [Word -> SUBSET Word], lev \in [Word -> Nat] : Inv(anc, lev)

----------------------------------------------------------------------------
(* Sequences.                                                              *)

LEMMA InsertAtIs ==
  ASSUME NEW s, NEW p, NEW k
  PROVE  InsertAt(s, p, k) = (SubSeq(s, 1, p - 1) \o <<k>>) \o SubSeq(s, p, Len(s))
BY DEF InsertAt

\* The elements of a sequence t that is s with k inserted after place p.
LEMMA InsertedRange ==
  ASSUME NEW S, NEW s \in Seq(S), NEW p \in 0 .. Len(s), NEW k \in S, NEW t \in Seq(S),
         Len(t) = Len(s) + 1,
         t[p + 1] = k,
         \A q \in 1 .. p : t[q] = s[q],
         \A q \in p + 1 .. Len(s) : t[q + 1] = s[q]
  PROVE  Range(t) = Range(s) \cup {k}
<1> DEFINE m == Len(s)
<1>1. /\ Len(t) = m + 1
      /\ \A q \in 1 .. p : t[q] = s[q]
      /\ \A q \in p + 1 .. m : t[q + 1] = s[q]
  OBVIOUS
<1>2. DOMAIN s = 1 .. m /\ m \in Nat /\ p \in Nat /\ p <= m
  <2>1. Len(s) \in Nat /\ DOMAIN s = 1 .. Len(s)
    BY LenProperties
  <2> QED
    BY <2>1
<1> HIDE DEF m
<1>3. DOMAIN t = 1 .. m + 1
  BY <1>1
<1>4. ASSUME NEW q \in 1 .. m + 1
      PROVE  t[q] = k \/ \E r \in 1 .. m : t[q] = s[r]
  <2>1. CASE q <= p
    <3>1. q \in 1 .. p /\ q \in 1 .. m
      BY <1>2, <2>1
    <3> QED
      BY <1>1, <3>1
  <2>2. CASE q = p + 1
    BY <1>1, <2>2
  <2>3. CASE q > p + 1
    <3>1. q - 1 \in p + 1 .. m /\ (q - 1) + 1 = q /\ q - 1 \in 1 .. m
      BY <1>2, <2>3
    <3> QED
      BY <1>1, <3>1
  <2> QED
    BY <1>2, <2>1, <2>2, <2>3
<1>5. ASSUME NEW r \in 1 .. m
      PROVE  \E q \in 1 .. m + 1 : t[q] = s[r]
  <2>1. CASE r <= p
    <3>1. r \in 1 .. p /\ r \in 1 .. m + 1
      BY <1>2, <2>1
    <3> QED
      BY <1>1, <3>1
  <2>2. CASE r > p
    <3>1. r \in p + 1 .. m /\ r + 1 \in 1 .. m + 1
      BY <1>2, <2>2
    <3> QED
      BY <1>1, <3>1
  <2> QED
    BY <1>2, <2>1, <2>2
<1>6. p + 1 \in 1 .. m + 1
  BY <1>2
<1>7. Range(t) \subseteq Range(s) \cup {k}
  <2> SUFFICES ASSUME NEW q \in 1 .. m + 1
               PROVE  t[q] = k \/ t[q] \in Range(s)
    BY <1>3 DEF Range
  <2> QED
    BY <1>2, <1>4 DEF Range
<1>8. k \in Range(t)
  BY <1>1, <1>3, <1>6 DEF Range
<1>9. Range(s) \subseteq Range(t)
  BY <1>2, <1>3, <1>5 DEF Range
<1> QED
  BY <1>7, <1>8, <1>9

\* A sequence with k inserted after place p: each of its elements is one of the old
\* in its place or one behind, or the new one.
LEMMA Inserted ==
  ASSUME NEW S, NEW s \in Seq(S), NEW p \in 0 .. Len(s), NEW k \in S
  PROVE  /\ InsertAt(s, p + 1, k) \in Seq(S)
         /\ Len(InsertAt(s, p + 1, k)) = Len(s) + 1
         /\ InsertAt(s, p + 1, k)[p + 1] = k
         /\ \A q \in 1 .. p : InsertAt(s, p + 1, k)[q] = s[q]
         /\ \A q \in p + 1 .. Len(s) : InsertAt(s, p + 1, k)[q + 1] = s[q]
         /\ Range(InsertAt(s, p + 1, k)) = Range(s) \cup {k}
<1> DEFINE a == SubSeq(s, 1, p)
           b == SubSeq(s, p + 1, Len(s))
           c == a \o <<k>>
           t == InsertAt(s, p + 1, k)
<1>1. a \in Seq(S) /\ Len(a) = p /\ \A i \in 1 .. p : a[i] = s[i]
  OBVIOUS
<1>2. b \in Seq(S) /\ Len(b) = Len(s) - p /\ \A i \in 1 .. Len(s) - p : b[i] = s[p + i]
  OBVIOUS
<1>3. t = c \o b
  <2>1. PICK r \in Nat : r = p + 1 /\ r - 1 = p
    OBVIOUS
  <2>2. InsertAt(s, r, k) = (SubSeq(s, 1, r - 1) \o <<k>>) \o SubSeq(s, r, Len(s))
    BY InsertAtIs
  <2> QED
    BY <2>1, <2>2
<1> HIDE DEF a, b, t
<1>4. c \in Seq(S) /\ Len(c) = p + 1 /\ c[p + 1] = k /\ \A i \in 1 .. p : c[i] = s[i]
  BY <1>1
<1> HIDE DEF c
<1>5. Len(s) \in Nat /\ p \in Nat /\ p <= Len(s) /\ Len(c) + Len(b) = Len(s) + 1
  <2>1. Len(s) \in Nat
    BY LenProperties
  <2>2. p \in Nat /\ p <= Len(s)
    BY <2>1
  <2>3. Len(b) = Len(s) - p /\ Len(c) = p + 1
    BY <1>2, <1>4
  <2> QED
    BY <2>1, <2>2, <2>3
<1>6. /\ c \o b \in Seq(S)
      /\ Len(c \o b) = Len(s) + 1
      /\ \A i \in 1 .. Len(c) + Len(b) : (c \o b)[i] = IF i <= Len(c) THEN c[i] ELSE b[i - Len(c)]
  BY <1>2, <1>4, <1>5, ConcatProperties
<1>7. (c \o b)[p + 1] = k
  <2>1. p + 1 \in 1 .. Len(c) + Len(b) /\ p + 1 <= Len(c)
    BY <1>4, <1>5
  <2> QED
    BY <1>4, <1>6, <2>1
<1>8. ASSUME NEW q \in 1 .. p
      PROVE  (c \o b)[q] = s[q]
  <2>1. q \in 1 .. Len(c) + Len(b) /\ q <= Len(c)
    BY <1>4, <1>5
  <2> QED
    BY <1>4, <1>6, <2>1
<1>9. ASSUME NEW q \in p + 1 .. Len(s)
      PROVE  (c \o b)[q + 1] = s[q]
  <2>1. /\ q + 1 \in 1 .. Len(c) + Len(b)
        /\ ~(q + 1 <= Len(c))
        /\ (q + 1) - Len(c) = q - p
        /\ q - p \in 1 .. Len(s) - p
        /\ p + (q - p) = q
    BY <1>4, <1>5
  <2>2. (c \o b)[q + 1] = b[q - p]
    BY <1>6, <2>1
  <2>3. b[q - p] = s[q]
    BY <1>2, <2>1
  <2> QED
    BY <2>2, <2>3
<1>10. /\ t \in Seq(S)
       /\ Len(t) = Len(s) + 1
       /\ t[p + 1] = k
       /\ \A q \in 1 .. p : t[q] = s[q]
       /\ \A q \in p + 1 .. Len(s) : t[q + 1] = s[q]
  BY <1>3, <1>6, <1>7, <1>8, <1>9
<1>11. Range(t) = Range(s) \cup {k}
  BY <1>10, InsertedRange
<1> QED
  BY <1>10, <1>11, Zenon DEF t

\* A sequence without its last element.
LEMMA Popped ==
  ASSUME NEW S, NEW s \in Seq(S), s # <<>>
  PROVE  /\ SubSeq(s, 1, Len(s) - 1) \in Seq(S)
         /\ Len(SubSeq(s, 1, Len(s) - 1)) = Len(s) - 1
         /\ \A i \in 1 .. Len(s) - 1 : SubSeq(s, 1, Len(s) - 1)[i] = s[i]
         /\ Len(s) \in Nat \ {0}
         /\ s[Len(s)] \in S
         /\ Range(s) = Range(SubSeq(s, 1, Len(s) - 1)) \cup {s[Len(s)]}
<1> DEFINE t == SubSeq(s, 1, Len(s) - 1)
<1>1. Len(s) \in Nat \ {0} /\ s[Len(s)] \in S
  OBVIOUS
<1>2. t \in Seq(S) /\ Len(t) = Len(s) - 1 /\ \A i \in 1 .. Len(s) - 1 : t[i] = s[i]
  <2>0. Len(s) - 1 \in 0 .. Len(s)
    BY <1>1
  <2>1. PICK n \in 0 .. Len(s) : n = Len(s) - 1
    BY <2>0
  <2>2. SubSeq(s, 1, n) \in Seq(S) /\ Len(SubSeq(s, 1, n)) = n
        /\ \A i \in 1 .. n : SubSeq(s, 1, n)[i] = s[i]
    OBVIOUS
  <2> QED
    BY <2>1, <2>2
<1> HIDE DEF t
<1>3. DOMAIN s = 1 .. Len(s) /\ DOMAIN t = 1 .. Len(s) - 1
  BY <1>2
<1>4. Range(s) = Range(t) \cup {s[Len(s)]}
  <2>1. \A i \in 1 .. Len(s) : i \in 1 .. Len(s) - 1 \/ i = Len(s)
    BY <1>1
  <2>2. \A i \in 1 .. Len(s) - 1 : i \in 1 .. Len(s)
    BY <1>1
  <2>3. Len(s) \in 1 .. Len(s)
    BY <1>1
  <2> QED
    BY <1>2, <1>3, <2>1, <2>2, <2>3 DEF Range
<1> QED
  BY <1>1, <1>2, <1>4 DEF t

\* A sequence with e at its end.
LEMMA Appended ==
  ASSUME NEW S, NEW s \in Seq(S), NEW e \in S
  PROVE  /\ Append(s, e) \in Seq(S)
         /\ Len(Append(s, e)) = Len(s) + 1
         /\ DOMAIN Append(s, e) = 1 .. Len(s) + 1
         /\ Append(s, e)[Len(s) + 1] = e
         /\ \A i \in 1 .. Len(s) : Append(s, e)[i] = s[i]
         /\ Range(Append(s, e)) = Range(s) \cup {e}
<1>1. /\ Append(s, e) \in Seq(S)
      /\ Len(Append(s, e)) = Len(s) + 1
      /\ DOMAIN Append(s, e) = 1 .. Len(s) + 1
      /\ Append(s, e)[Len(s) + 1] = e
      /\ \A i \in 1 .. Len(s) : Append(s, e)[i] = s[i]
  OBVIOUS
<1>2. \A i \in 1 .. Len(s) + 1 : i \in 1 .. Len(s) \/ i = Len(s) + 1
  OBVIOUS
<1>3. \A i \in 1 .. Len(s) : i \in 1 .. Len(s) + 1
  OBVIOUS
<1>4. DOMAIN s = 1 .. Len(s) /\ Len(s) + 1 \in 1 .. Len(s) + 1
  OBVIOUS
<1> QED
  BY <1>1, <1>2, <1>3, <1>4 DEF Range

----------------------------------------------------------------------------
(* The tree.                                                               *)

LEMMA InitInv == Init => IInv
<1> SUFFICES ASSUME Init PROVE IInv
  OBVIOUS
<1> DEFINE anc == [w \in Word |-> {}]
           lev == [w \in Word |-> 0]
<1>1. anc \in [Word -> SUBSET Word] /\ lev \in [Word -> Nat]
  OBVIOUS
<1>2. Types
  BY DEF Init, Types
<1>3. Tree(anc, lev)
  BY DEF Init, Tree, Above, Rising, Toward, Levels, Range
<1>4. Room /\ Covered(anc) /\ Once(anc) /\ Inserting(anc, lev)
  BY DEF Init, Searching, Room, Covered, Once, Inserting
<1> HIDE DEF anc, lev
<1> QED
  BY <1>1, <1>2, <1>3, <1>4 DEF IInv, Inv

\* Calls that add nothing leave the tree as it is.
LEMMA SameTree ==
  ASSUME NEW anc, NEW lev, Tree(anc, lev), UNCHANGED <<tree, added>>
  PROVE  Tree(anc, lev)' /\ \A u : Under(anc, u)' = Under(anc, u)
BY DEF tree, Tree, Above, Rising, Toward, Levels, Under

\* What is below a child is below its parent, but the parent is not.
LEMMA ChildIs ==
  ASSUME NEW anc, Above(anc), NEW v \in added, NEW c \in Range(children[v])
  PROVE  /\ c \in added
         /\ v \in anc[c]
         /\ Under(anc, c) \subseteq Under(anc, v)
         /\ v \notin Under(anc, c)
<1>1. c \in added /\ anc[c] = anc[v] \cup {v} /\ v \in anc[c]
  BY DEF Above
<1>2. ASSUME NEW w \in Under(anc, c)
      PROVE  v \in anc[w] /\ w \in added
  <2>1. w \in added /\ (w = c \/ c \in anc[w])
    BY DEF Under
  <2> QED
    BY <1>1, <2>1 DEF Above
<1>3. v \notin anc[v]
  BY DEF Above
<1>4. Under(anc, c) \subseteq Under(anc, v)
  BY <1>2 DEF Under
<1>5. v \notin Under(anc, c)
  BY <1>2, <1>3
<1> QED
  BY <1>1, <1>4, <1>5

\* An entry below another is below one of its children.
LEMMA UnderSome ==
  ASSUME NEW anc, Toward(anc), NEW v, NEW w \in Under(anc, v), w # v
  PROVE  \E c \in Range(children[v]) : w \in Under(anc, c)
BY DEF Toward, Under

LEMMA ChildTypes ==
  ASSUME Types, NEW v \in Word
  PROVE  /\ children[v] \in Seq(Word)
         /\ DOMAIN children[v] = 1 .. Len(children[v])
         /\ Len(children[v]) \in Nat
         /\ \A i \in 1 .. Len(children[v]) : children[v][i] \in Range(children[v])
         /\ Range(children[v]) \subseteq Word
<1>1. children[v] \in Seq(Word)
  BY DEF Types
<1>2. DOMAIN children[v] = 1 .. Len(children[v]) /\ Len(children[v]) \in Nat
      /\ \A i \in 1 .. Len(children[v]) : children[v][i] \in Word
  BY <1>1
<1> QED
  BY <1>1, <1>2 DEF Range

\* Nothing is below two children of an entry.
LEMMA SiblingsApart ==
  ASSUME NEW anc, Types, Rising, Toward(anc), NEW v \in added,
         NEW m \in 1 .. Len(children[v]), NEW n \in 1 .. Len(children[v]), m < n
  PROVE  Under(anc, children[v][m]) \cap Under(anc, children[v][n]) = {}
<1> DEFINE c == children[v][m]
           e == children[v][n]
<1>1. v \in Word
  BY DEF Types
<1>2. /\ c \in Range(children[v]) /\ e \in Range(children[v])
      /\ m \in DOMAIN children[v] /\ n \in DOMAIN children[v]
      /\ c \in Word /\ e \in Word
  BY <1>1, ChildTypes
<1>3. distance_from_parent[c] < distance_from_parent[e]
  BY <1>1, <1>2 DEF Rising
<1>4. distance_from_parent[c] \in Nat /\ distance_from_parent[e] \in Nat
  BY <1>2 DEF Types
<1> HIDE DEF c, e
<1>5. ASSUME NEW w \in Under(anc, c), w \in Under(anc, e)
      PROVE  FALSE
  <2>1. Dist(v, w) = distance_from_parent[c] /\ Dist(v, w) = distance_from_parent[e]
    BY <1>2, <1>5 DEF Toward
  <2> QED
    BY <1>3, <1>4, <2>1
<1> QED
  BY <1>5 DEF c, e

\* The triangle inequality, for an entry below a child: its distance from the word
\* and that from the parent differ by no more than the word's from the parent.
LEMMA Triangle ==
  ASSUME NEW anc, Types, Toward(anc), NEW v \in added, NEW c \in Range(children[v]),
         NEW w \in Under(anc, c), word \in Word
  PROVE  /\ Dist(v, word) \in Nat /\ Dist(w, word) \in Nat /\ distance_from_parent[c] \in Nat
         /\ Dist(v, word) - Dist(w, word) <= distance_from_parent[c]
         /\ distance_from_parent[c] <= Dist(v, word) + Dist(w, word)
<1>1. v \in Word /\ w \in Word
  BY DEF Types, Under
<1>2. Dist(v, w) = distance_from_parent[c]
  BY DEF Toward
<1>3. /\ Dist(v, word) \in Nat /\ Dist(w, word) \in Nat /\ Dist(v, w) \in Nat
      /\ Dist(v, word) <= Dist(v, w) + Dist(w, word)
      /\ Dist(v, w) <= Dist(v, word) + Dist(word, w)
      /\ Dist(word, w) = Dist(w, word)
  BY <1>1, BkTreeAssumption
<1> QED
  BY <1>2, <1>3

----------------------------------------------------------------------------
(* The search.                                                             *)

LEMMA BeginInv ==
  ASSUME NEW anc, NEW lev \in [Word -> Nat], Inv(anc, lev), NEW w \in Word,
         find(w) \/ \E t \in Threshold : match(w, t)
  PROVE  Inv(anc, lev)'
<1>1. /\ pc' \in {"find", "match"} /\ word' = w
      /\ threshold' \in Nat /\ (pc' = "find" => threshold' = 0)
      /\ child' = 0 /\ ret' = <<>>
      /\ stack' = IF root = Null THEN <<>> ELSE <<root>>
      /\ size' = Len(stack') /\ capacity' = depth * 2
      /\ UNCHANGED <<tree, local_depth, added>>
  <2>1. Threshold \subseteq Nat
    BY BkTreeAssumption
  <2>2. CASE \E t \in Threshold : match(w, t)
    BY <2>1, <2>2 DEF match, Begin
  <2>3. CASE find(w)
    BY <2>3 DEF find, Begin
  <2> QED
    BY <2>2, <2>3
<1>2. Tree(anc, lev)' /\ \A u : Under(anc, u)' = Under(anc, u)
  BY <1>1, SameTree DEF Inv
<1>3. root' = root /\ depth' = depth /\ added' = added
  BY <1>1 DEF tree
<1>4. root # Null => root \in added /\ depth >= 1 /\ depth \in Nat
  <2> SUFFICES ASSUME root # Null
               PROVE  root \in added /\ depth >= 1 /\ depth \in Nat
    OBVIOUS
  <2>1. root \in added /\ depth \in Nat
    BY DEF Inv, Types, Tree, Above
  <2>2. lev[root] < depth /\ lev[root] = 0
    BY <2>1 DEF Inv, Tree, Levels
  <2> QED
    BY <2>1, <2>2
<1>5. /\ stack' \in Seq(Word)
      /\ root = Null => Range(stack') = {} /\ Len(stack') = 0
      /\ root # Null => Range(stack') = {root} /\ Len(stack') = 1
      /\ DOMAIN stack' \subseteq {1}
  <2>1. CASE root = Null
    BY <1>1, <2>1 DEF Range
  <2>2. CASE root # Null
    <3>1. stack' = <<root>> /\ root \in Word
      BY <1>1, <1>4, <2>2 DEF Inv, Types
    <3> QED
      BY <2>2, <3>1 DEF Range
  <2> QED
    BY <2>1, <2>2
<1>6. Types'
  <2>1. size' \in Nat /\ capacity' \in Nat
    BY <1>1, <1>5 DEF Inv, Types
  <2> QED
    BY <1>1, <1>5, <2>1 DEF Inv, Types, tree
<1>7. Ahead' = {} /\ Pending' = Range(stack')
  BY <1>1 DEF Ahead, Pending
<1>8. Room'
  <2>1. Pending' \subseteq added
    BY <1>4, <1>5, <1>7
  <2>2. root # Null => Len(stack') <= size' /\ size' < capacity' /\ capacity' >= 2
    BY <1>1, <1>4, <1>5
  <2> QED
    BY <1>3, <2>1, <2>2 DEF Room
<1>9. Covered(anc)'
  <2>1. ASSUME NEW x \in added
        PROVE  \E u \in Pending' : x \in Under(anc, u)
    <3>1. root # Null /\ x \in Under(anc, root)
      BY <2>1 DEF Inv, Tree, Above
    <3> QED
      BY <1>5, <1>7, <3>1
  <2> QED
    BY <1>2, <1>3, <2>1 DEF Covered
<1>10. Once(anc)'
  <2>1. \A m, n \in DOMAIN stack' : m = n
    BY <1>5
  <2>2. Range(ret') = {} /\ DOMAIN ret' = {}
    BY <1>1 DEF Range
  <2> QED
    BY <1>7, <2>1, <2>2 DEF Once
<1>11. Inserting(anc, lev)'
  BY <1>1 DEF Inserting
<1> QED
  BY <1>2, <1>6, <1>8, <1>9, <1>10, <1>11 DEF Inv

\* Taking a node off the stack to look at its children leaves the same to visit,
\* but for the node itself.
LEMMA PopIs ==
  ASSUME NEW anc, Types, Above(anc), Toward(anc), Room, Searching, child = 0, stack # <<>>,
         curr_node' = stack[Len(stack)],
         stack' = SubSeq(stack, 1, Len(stack) - 1),
         UNCHANGED <<children, added>>
  PROVE  /\ curr_node' \in added
         /\ stack' \in Seq(Word) /\ Len(stack) \in Nat /\ Len(stack') = Len(stack) - 1
         /\ Pending = Range(stack') \cup {curr_node'}
         /\ child' = 1 => Ahead' = Range(children[curr_node'])
         /\ \A i \in 1 .. Len(stack) - 1 : stack'[i] = stack[i]
         /\ \A u \in Pending : \A w \in Under(anc, u) : w # curr_node' =>
              \E x \in Range(stack') \cup Range(children[curr_node']) : w \in Under(anc, x)
<1>1. /\ stack' \in Seq(Word) /\ Len(stack') = Len(stack) - 1
      /\ \A i \in 1 .. Len(stack) - 1 : stack'[i] = stack[i]
      /\ Len(stack) \in Nat \ {0}
      /\ curr_node' \in Word
      /\ Range(stack) = Range(stack') \cup {curr_node'}
  BY Popped DEF Types
<1>2. Ahead = {} /\ Pending = Range(stack') \cup {curr_node'}
  BY <1>1 DEF Ahead, Pending
<1>3. curr_node' \in added
  BY <1>2 DEF Room
<1>4. child' = 1 => Ahead' = Range(children[curr_node'])
  <2>1. DOMAIN children[curr_node'] = 1 .. Len(children[curr_node'])
    BY <1>1, ChildTypes
  <2> QED
    BY <2>1 DEF Ahead, Range
<1>5. ASSUME NEW u \in Pending, NEW w \in Under(anc, u), w # curr_node'
      PROVE  \E x \in Range(stack') \cup Range(children[curr_node']) : w \in Under(anc, x)
  <2>1. CASE u \in Range(stack')
    BY <2>1
  <2>2. CASE u = curr_node'
    BY <1>5, <2>2, UnderSome
  <2> QED
    BY <1>2, <2>1, <2>2
<1> QED
  BY <1>1, <1>2, <1>3, <1>4, <1>5

LEMMA PopCovered ==
  ASSUME NEW anc, Types, Above(anc), Toward(anc), Room, Covered(anc), Searching,
         child = 0, stack # <<>>,
         curr_node' = stack[Len(stack)],
         stack' = SubSeq(stack, 1, Len(stack) - 1),
         child' = 1,
         UNCHANGED <<tree, added, pc, word, threshold>>,
         \/ Dist(curr_node', word) > threshold /\ ret' = ret
         \/ pc = "match" /\ Range(ret') = Range(ret) \cup {curr_node'}
  PROVE  Covered(anc)'
<1>1. children' = children /\ added' = added
  BY DEF tree
<1>2. /\ curr_node' \in added
      /\ Ahead' = Range(children[curr_node'])
      /\ \A u \in Pending : \A w \in Under(anc, u) : w # curr_node' =>
           \E x \in Range(stack') \cup Range(children[curr_node']) : w \in Under(anc, x)
  BY <1>1, PopIs
<1>3. Pending' = Range(stack') \cup Range(children[curr_node'])
  BY <1>2 DEF Pending
<1>4. Range(ret) \subseteq Range(ret')
  OBVIOUS
<1>5. \A u : Under(anc, u)' = Under(anc, u)
  BY <1>1 DEF Under
<1>6. ASSUME NEW w \in added, Dist(w, word) <= threshold
      PROVE  \/ pc = "match" /\ w \in Range(ret')
             \/ \E u \in Pending' : w \in Under(anc, u)
  <2>1. CASE w = curr_node'
    <3>1. ~(Dist(curr_node', word) > threshold)
      <4>1. word \in Word /\ w \in Word /\ threshold \in Nat
        BY DEF Types, Searching
      <4>2. Dist(w, word) \in Nat
        BY <4>1, BkTreeAssumption
      <4> QED
        BY <1>6, <2>1, <4>1, <4>2
    <3> QED
      BY <2>1, <3>1
  <2>2. CASE w # curr_node'
    <3>1. CASE pc = "match" /\ w \in Range(ret)
      BY <1>4, <3>1
    <3>2. CASE \E u \in Pending : w \in Under(anc, u)
      BY <1>2, <1>3, <2>2, <3>2
    <3> QED
      BY <1>6, <3>1, <3>2 DEF Covered
  <2> QED
    BY <2>1, <2>2
<1> QED
  BY <1>1, <1>5, <1>6 DEF Covered

\* match takes a node: nothing else to visit is below it or above it.
LEMMA PopOnce ==
  ASSUME NEW anc, Types, Above(anc), Toward(anc), Room, Once(anc), Pop
  PROVE  Once(anc)'
<1>1. /\ pc = "match" /\ child = 0 /\ stack # <<>> /\ Searching
      /\ curr_node' = stack[Len(stack)]
      /\ stack' = SubSeq(stack, 1, Len(stack) - 1)
      /\ ret' = IF Dist(curr_node', word) <= threshold THEN Append(ret, curr_node') ELSE ret
      /\ child' = 1
      /\ UNCHANGED <<children, added, word, threshold>>
  BY DEF Pop, tree, Searching
<1>2. /\ curr_node' \in added
      /\ stack' \in Seq(Word) /\ Len(stack) \in Nat /\ Len(stack') = Len(stack) - 1
      /\ Pending = Range(stack') \cup {curr_node'}
      /\ Ahead' = Range(children[curr_node'])
      /\ \A i \in 1 .. Len(stack) - 1 : stack'[i] = stack[i]
  BY <1>1, PopIs
<1> DEFINE c == curr_node'
<1>3. /\ stack \in Seq(Word) /\ DOMAIN stack = 1 .. Len(stack)
      /\ DOMAIN stack' = 1 .. Len(stack) - 1
      /\ Len(stack) \in DOMAIN stack
  <2>1. stack \in Seq(Word) /\ Len(stack) # 0
    BY <1>1 DEF Types
  <2> QED
    BY <1>2, <2>1
<1>4. \A u : Under(anc, u)' = Under(anc, u)
  BY <1>1 DEF Under
<1>5. \A e \in Range(children[c]) : Under(anc, e) \subseteq Under(anc, c) /\ c \notin Under(anc, e)
  BY <1>2, ChildIs
<1>6. \A u \in Range(stack') : Under(anc, u) \cap Under(anc, c) = {}
  <2> SUFFICES ASSUME NEW i \in DOMAIN stack'
               PROVE  Under(anc, stack'[i]) \cap Under(anc, c) = {}
    BY DEF Range
  <2>1. i \in DOMAIN stack /\ i # Len(stack) /\ stack'[i] = stack[i]
    BY <1>2, <1>3
  <2> QED
    BY <1>1, <1>3, <2>1 DEF Once
<1>7. c \in Under(anc, c)
  BY <1>2 DEF Under
<1>8. \A m, n \in DOMAIN stack' : m # n => Under(anc, stack'[m]) \cap Under(anc, stack'[n]) = {}
  <2> SUFFICES ASSUME NEW m \in DOMAIN stack', NEW n \in DOMAIN stack', m # n
               PROVE  Under(anc, stack'[m]) \cap Under(anc, stack'[n]) = {}
    OBVIOUS
  <2>1. m \in DOMAIN stack /\ n \in DOMAIN stack /\ stack'[m] = stack[m] /\ stack'[n] = stack[n]
    BY <1>2, <1>3
  <2> QED
    BY <1>1, <2>1 DEF Once
<1>9. \A u \in Range(stack'), e \in Ahead' : Under(anc, u) \cap Under(anc, e) = {}
  BY <1>2, <1>5, <1>6
<1>10. \A u \in Pending' : c \notin Under(anc, u)
  BY <1>2, <1>5, <1>6, <1>7 DEF Pending
<1>11. \A w \in Range(ret), u \in Pending' : w \notin Under(anc, u) /\ w # c
  BY <1>1, <1>2, <1>5, <1>7 DEF Once, Pending
<1>12. CASE ret' = ret
  <2>1. \A w \in Range(ret) : w \in added /\ Dist(w, word) <= threshold
    BY <1>1 DEF Once
  <2>2. \A m, n \in DOMAIN ret : ret[m] = ret[n] => m = n
    BY <1>1 DEF Once
  <2> QED
    BY <1>1, <1>4, <1>8, <1>9, <1>11, <1>12, <2>1, <2>2 DEF Once
<1>13. CASE ret' = Append(ret, c) /\ Dist(c, word) <= threshold
  <2>1. /\ Range(ret') = Range(ret) \cup {c}
        /\ DOMAIN ret' = 1 .. Len(ret) + 1
        /\ ret'[Len(ret) + 1] = c
        /\ \A i \in 1 .. Len(ret) : ret'[i] = ret[i]
        /\ DOMAIN ret = 1 .. Len(ret) /\ Len(ret) \in Nat
    <3>1. ret \in Seq(Word) /\ c \in Word
      BY <1>2 DEF Types
    <3> QED
      BY <1>13, <3>1, Appended
  <2>2. \A w \in Range(ret') : w \in added /\ Dist(w, word) <= threshold
    BY <1>1, <1>2, <1>13, <2>1 DEF Once
  <2>3. \A u \in Pending', w \in Range(ret') : w \notin Under(anc, u)
    BY <1>10, <1>11, <2>1
  <2>4. ASSUME NEW m \in DOMAIN ret', NEW n \in DOMAIN ret', ret'[m] = ret'[n]
        PROVE  m = n
    <3>1. CASE m \in DOMAIN ret /\ n \in DOMAIN ret
      BY <1>1, <2>1, <2>4, <3>1 DEF Once
    <3>2. CASE m \in DOMAIN ret /\ n = Len(ret) + 1
      <4>1. ret[m] \in Range(ret) /\ ret[m] = c
        BY <2>1, <2>4, <3>2 DEF Range
      <4>2. c \in Pending /\ ret[m] \notin Under(anc, c)
        BY <1>1, <1>2, <4>1 DEF Once
      <4> QED
        BY <1>7, <4>1, <4>2
    <3>3. CASE n \in DOMAIN ret /\ m = Len(ret) + 1
      <4>1. ret[n] \in Range(ret) /\ ret[n] = c
        BY <2>1, <2>4, <3>3 DEF Range
      <4>2. c \in Pending /\ ret[n] \notin Under(anc, c)
        BY <1>1, <1>2, <4>1 DEF Once
      <4> QED
        BY <1>7, <4>1, <4>2
    <3> QED
      BY <2>1, <3>1, <3>2, <3>3
  <2> HIDE DEF c
  <2> QED
    BY <1>1, <1>4, <1>8, <1>9, <2>2, <2>3, <2>4 DEF Once
<1> QED
  BY <1>1, <1>12, <1>13

LEMMA PopInv ==
  ASSUME NEW anc, NEW lev, Inv(anc, lev), Pop
  PROVE  Inv(anc, lev)'
<1> USE DEF Inv
<1>1. /\ pc = "match" /\ child = 0 /\ stack # <<>> /\ Searching
      /\ curr_node' = stack[Len(stack)]
      /\ stack' = SubSeq(stack, 1, Len(stack) - 1)
      /\ ret' = IF Dist(curr_node', word) <= threshold THEN Append(ret, curr_node') ELSE ret
      /\ child' = 1
      /\ UNCHANGED <<tree, pc, word, threshold, size, capacity, local_depth, added>>
  BY DEF Pop, Searching
<1>2. children' = children /\ root' = root /\ Above(anc) /\ Toward(anc) /\ Rising
  BY <1>1 DEF tree, Tree
<1>3. /\ curr_node' \in added
      /\ stack' \in Seq(Word) /\ Len(stack) \in Nat /\ Len(stack') = Len(stack) - 1
      /\ Pending = Range(stack') \cup {curr_node'}
      /\ Ahead' = Range(children[curr_node'])
  BY <1>1, <1>2, PopIs
<1>4. Tree(anc, lev)'
  BY <1>1, SameTree
<1>5. ret \in Seq(Word) /\ curr_node' \in Word /\ word \in Word /\ threshold \in Nat
  BY <1>1, <1>3 DEF Types
<1>6. Append(ret, curr_node') \in Seq(Word) /\ Range(Append(ret, curr_node')) = Range(ret) \cup {curr_node'}
  BY <1>5, Appended
<1>7. Types'
  BY <1>1, <1>3, <1>5, <1>6 DEF Types, tree
<1>8. Room'
  <2>1. \A e \in Range(children[curr_node']) : e \in added
    BY <1>2, <1>3, ChildIs
  <2>2. Pending' \subseteq added
    BY <1>1, <1>3, <2>1 DEF Pending, Room
  <2>3. size \in Nat
    BY DEF Types
  <2> QED
    BY <1>1, <1>2, <1>3, <2>2, <2>3 DEF Room
<1>9. Covered(anc)'
  <2>1. Dist(curr_node', word) \in Nat
    BY <1>5, BkTreeAssumption
  <2>2. \/ Dist(curr_node', word) > threshold /\ ret' = ret
        \/ pc = "match" /\ Range(ret') = Range(ret) \cup {curr_node'}
    BY <1>1, <1>5, <1>6, <2>1
  <2> QED
    BY <1>1, <1>2, <2>2, PopCovered
<1>10. Once(anc)'
  BY <1>2, PopOnce
<1>11. Inserting(anc, lev)'
  BY <1>1 DEF Inserting
<1> QED
  BY <1>4, <1>7, <1>8, <1>9, <1>10, <1>11

LEMMA PopFoundInv ==
  ASSUME NEW anc, NEW lev, Inv(anc, lev), PopFound
  PROVE  Inv(anc, lev)' /\ added' = added
<1> USE DEF Inv
<1>1. /\ pc = "find" /\ child = 0 /\ stack # <<>> /\ Searching
      /\ curr_node' = stack[Len(stack)]
      /\ stack' = SubSeq(stack, 1, Len(stack) - 1)
      /\ UNCHANGED <<tree, word, threshold, size, capacity, local_depth>>
  BY DEF PopFound, Searching
<1>2. /\ curr_node' \in added /\ curr_node' \in Word
      /\ stack' \in Seq(Word) /\ Len(stack) \in Nat /\ Len(stack') = Len(stack) - 1
      /\ Range(stack) = Range(stack') \cup {curr_node'}
  <2>1. /\ stack' \in Seq(Word) /\ Len(stack') = Len(stack) - 1
        /\ Len(stack) \in Nat
        /\ curr_node' \in Word
        /\ Range(stack) = Range(stack') \cup {curr_node'}
    BY <1>1, Popped DEF Types
  <2> QED
    BY <1>1, <2>1 DEF Room, Pending
<1>3. word \in Word /\ threshold = 0
  BY <1>1 DEF Types
<1>4. CASE Dist(curr_node', word) = 0
  <2>1. /\ pc' = "idle" /\ ret' = <<curr_node'>> /\ added' = added \cup {word} /\ child' = 0
    BY <1>4 DEF PopFound
  <2>2. added' = added
    <3>1. curr_node' = word
      <4>1. \A v, w \in Word : Dist(v, w) = 0 => v = w
        BY BkTreeAssumption
      <4> QED
        BY <1>2, <1>3, <1>4, <4>1
    <3> QED
      BY <1>2, <2>1, <3>1
  <2>3. Tree(anc, lev)'
    BY <1>1, <2>2, SameTree
  <2>4. ret' \in Seq(Word)
    BY <1>2, <2>1
  <2>5. Types'
    BY <1>1, <1>2, <2>1, <2>2, <2>4 DEF Types, tree
  <2>6. Room' /\ Covered(anc)' /\ Once(anc)' /\ Inserting(anc, lev)'
    BY <2>1 DEF Room, Covered, Once, Inserting, Searching
  <2> QED
    BY <2>2, <2>3, <2>5, <2>6
<1>5. CASE Dist(curr_node', word) # 0
  <2>1. UNCHANGED <<pc, ret, added>> /\ child' = 1
    BY <1>5 DEF PopFound
  <2>2. children' = children /\ root' = root /\ Above(anc) /\ Toward(anc)
    BY <1>1 DEF tree, Tree
  <2>3. Tree(anc, lev)'
    BY <1>1, <2>1, SameTree
  <2>4. Types'
    BY <1>1, <1>2, <2>1 DEF Types, tree
  <2>5. Ahead' = Range(children[curr_node'])
    BY <1>1, <2>1, <2>2, PopIs
  <2>6. Room'
    <3>1. \A e \in Range(children[curr_node']) : e \in added
      BY <1>2, <2>2, ChildIs
    <3>2. Pending' \subseteq added
      BY <1>1, <1>2, <2>5, <3>1 DEF Pending, Room
    <3>3. size \in Nat
      BY DEF Types
    <3> QED
      BY <1>1, <1>2, <2>1, <2>2, <3>2, <3>3 DEF Room
  <2>7. Covered(anc)'
    <3>1. Dist(curr_node', word) \in Nat
      BY <1>2, <1>3, BkTreeAssumption
    <3>2. Dist(curr_node', word) > threshold
      BY <1>3, <1>5, <3>1
    <3> QED
      BY <1>1, <2>1, <2>2, <3>2, PopCovered
  <2>8. Once(anc)' /\ Inserting(anc, lev)'
    BY <1>1, <2>1 DEF Once, Inserting
  <2> QED
    BY <2>1, <2>3, <2>4, <2>6, <2>7, <2>8
<1> QED
  BY <1>4, <1>5

\* One turn of the loop over the children of the node at hand.
LEMMA NextChild ==
  ASSUME Types, Scanning, child <= Len(children[curr_node]), child' = child + 1,
         UNCHANGED <<children, curr_node>>
  PROVE  /\ curr_node \in added
         /\ child \in 1 .. Len(children[curr_node])
         /\ children[curr_node][child] \in Range(children[curr_node])
         /\ children[curr_node][child] \in Word
         /\ Ahead = Ahead' \cup {children[curr_node][child]}
         /\ \A e \in Ahead' : \E n \in 1 .. Len(children[curr_node]) :
              child < n /\ e = children[curr_node][n]
<1>1. curr_node \in added /\ curr_node \in Word /\ child \in Nat /\ child # 0
  BY DEF Types, Scanning
<1> DEFINE s == children[curr_node]
<1>2. /\ DOMAIN s = 1 .. Len(s) /\ Len(s) \in Nat
      /\ \A i \in 1 .. Len(s) : s[i] \in Range(s)
      /\ Range(s) \subseteq Word
  BY <1>1, ChildTypes
<1> HIDE DEF s
<1>3. child \in 1 .. Len(s)
  BY <1>1, <1>2 DEF s
<1>4. Ahead = {s[i] : i \in child .. Len(s)} /\ Ahead' = {s[i] : i \in child + 1 .. Len(s)}
  BY <1>1 DEF Ahead, s
<1>5. child .. Len(s) = (child + 1 .. Len(s)) \cup {child}
  BY <1>2, <1>3
<1>6. \A n \in child + 1 .. Len(s) : n \in 1 .. Len(s) /\ child < n
  BY <1>2, <1>3
<1> QED
  BY <1>1, <1>2, <1>3, <1>4, <1>5, <1>6 DEF s

\* A child too near is left out: all below it is too far from the word.
LEMMA SkipChildInv ==
  ASSUME NEW anc, NEW lev, Inv(anc, lev), SkipChild
  PROVE  Inv(anc, lev)'
<1> USE DEF Inv
<1> DEFINE c == children[curr_node][child]
<1>1. /\ Scanning /\ Searching
      /\ child <= Len(children[curr_node]) /\ child' = child + 1
      /\ distance_from_parent[c] < Dist(curr_node, word) - threshold
      /\ UNCHANGED <<tree, pc, word, threshold, curr_node, stack, size, capacity, ret,
                     local_depth, added>>
  BY DEF SkipChild, Scanning, Searching, Near, D
<1>2. children' = children /\ root' = root /\ Above(anc) /\ Toward(anc)
  BY <1>1 DEF tree, Tree
<1>3. /\ curr_node \in added /\ child \in Nat
      /\ c \in Range(children[curr_node])
      /\ Ahead = Ahead' \cup {c}
  BY <1>1, <1>2, NextChild DEF Types
<1> HIDE DEF c
<1>4. Tree(anc, lev)' /\ \A u : Under(anc, u)' = Under(anc, u)
  BY <1>1, SameTree
<1>5. Types'
  BY <1>1, <1>3 DEF Types, tree, Scanning
<1>6. Pending = Pending' \cup {c}
  BY <1>1, <1>3 DEF Pending
<1>7. Room'
  BY <1>1, <1>2, <1>6 DEF Room, Searching
<1>8. Covered(anc)'
  <2>1. ASSUME NEW w \in added, Dist(w, word) <= threshold, w \in Under(anc, c)
        PROVE  FALSE
    <3>1. word \in Word /\ threshold \in Nat
      BY <1>1 DEF Types, Searching
    <3>2. /\ Dist(curr_node, word) \in Nat /\ Dist(w, word) \in Nat
          /\ distance_from_parent[c] \in Nat
          /\ Dist(curr_node, word) - Dist(w, word) <= distance_from_parent[c]
      BY <1>2, <1>3, <2>1, <3>1, Triangle
    <3> QED
      BY <1>1, <2>1, <3>1, <3>2
  <2> QED
    BY <1>1, <1>4, <1>6, <2>1 DEF Covered, Searching
<1>9. Once(anc)'
  BY <1>1, <1>3, <1>4, <1>6 DEF Once
<1>10. Inserting(anc, lev)'
  BY <1>1 DEF Inserting, Searching
<1> QED
  BY <1>4, <1>5, <1>7, <1>8, <1>9, <1>10

\* The loop ends: the children that are left are too far.
LEMMA EndScanInv ==
  ASSUME NEW anc, NEW lev, Inv(anc, lev), EndScan
  PROVE  Inv(anc, lev)'
<1> USE DEF Inv
<1> DEFINE s == children[curr_node]
<1>1. /\ Scanning /\ Searching
      /\ child <= Len(s) =>
           distance_from_parent[s[child]] > Dist(curr_node, word) + threshold
      /\ child' = 0
      /\ UNCHANGED <<tree, pc, word, threshold, curr_node, stack, size, capacity, ret,
                     local_depth, added>>
  BY DEF EndScan, Scanning, Searching, Near, D
<1>2. children' = children /\ root' = root /\ Above(anc) /\ Toward(anc) /\ Rising
  BY <1>1 DEF tree, Tree
<1>3. Tree(anc, lev)' /\ \A u : Under(anc, u)' = Under(anc, u)
  BY <1>1, SameTree
<1>4. Types'
  BY <1>1 DEF Types, tree, Scanning
<1>5. Ahead' = {} /\ Pending' = Range(stack) /\ Pending' \subseteq Pending
  BY <1>1 DEF Ahead, Pending
<1>6. Room'
  BY <1>1, <1>2, <1>5 DEF Room, Searching
<1>7. Covered(anc)'
  <2>1. ASSUME NEW w \in added, Dist(w, word) <= threshold, NEW e \in Ahead, w \in Under(anc, e)
        PROVE  FALSE
    <3>1. /\ curr_node \in added /\ curr_node \in Word
          /\ child \in Nat /\ child # 0 /\ word \in Word /\ threshold \in Nat
      BY <1>1 DEF Types, Scanning, Searching
    <3>2. DOMAIN s = 1 .. Len(s) /\ Len(s) \in Nat
          /\ \A i \in 1 .. Len(s) : s[i] \in Range(s) /\ s[i] \in Word
      BY <3>1, ChildTypes
    <3>3. PICK i \in child .. Len(s) : e = s[i]
      BY <3>1 DEF Ahead
    <3>4. i \in 1 .. Len(s) /\ child \in 1 .. Len(s) /\ child <= i
      BY <3>1, <3>2, <3>3
    <3>5. /\ Dist(curr_node, word) \in Nat /\ Dist(w, word) \in Nat
          /\ distance_from_parent[e] \in Nat
          /\ distance_from_parent[e] <= Dist(curr_node, word) + Dist(w, word)
      BY <1>2, <2>1, <3>1, <3>2, <3>3, <3>4, Triangle
    <3>6. distance_from_parent[s[child]] <= distance_from_parent[e]
      <4>1. distance_from_parent[s[child]] \in Nat
        BY <3>2, <3>4 DEF Types
      <4>2. CASE child < i
        <5>1. distance_from_parent[s[child]] < distance_from_parent[s[i]]
          BY <1>2, <3>1, <3>2, <3>4, <4>2 DEF Rising
        <5> QED
          BY <3>3, <3>5, <4>1, <5>1
      <4>3. CASE child = i
        BY <3>3, <3>5, <4>3
      <4> QED
        BY <3>1, <3>4, <4>2, <4>3
    <3>7. distance_from_parent[s[child]] > Dist(curr_node, word) + threshold
          /\ distance_from_parent[s[child]] \in Nat
      BY <1>1, <3>2, <3>4 DEF Types
    <3> QED
      BY <2>1, <3>1, <3>5, <3>6, <3>7
  <2>2. ASSUME NEW w \in added, Dist(w, word) <= threshold
        PROVE  \/ pc = "match" /\ w \in Range(ret)
               \/ \E u \in Pending' : w \in Under(anc, u)
    <3>1. CASE pc = "match" /\ w \in Range(ret)
      BY <3>1
    <3>2. CASE \E u \in Pending : w \in Under(anc, u)
      BY <1>5, <2>1, <2>2, <3>2 DEF Pending
    <3> QED
      BY <1>1, <2>2, <3>1, <3>2 DEF Covered
  <2> QED
    BY <1>1, <1>3, <2>2 DEF Covered
<1>8. Once(anc)'
  BY <1>1, <1>3, <1>5 DEF Once
<1>9. Inserting(anc, lev)'
  BY <1>1 DEF Inserting, Searching
<1> QED
  BY <1>3, <1>4, <1>6, <1>7, <1>8, <1>9

\* set at the index after the last leaves a free slot again: the vector grows when
\* its last slot is filled, and one half of two or more is at least one.
LEMMA SetRoom ==
  ASSUME NEW n \in Nat, size \in Nat, capacity \in Nat, n <= size, size < capacity, capacity >= 2,
         Stack!set(n)
  PROVE  /\ size' \in Nat /\ capacity' \in Nat
         /\ n + 1 <= size' /\ size' < capacity' /\ capacity' >= 2
<1>1. IF n < size THEN size' = size /\ capacity' = capacity
      ELSE /\ size' = size + 1
           /\ capacity' = IF ((size + 1) \div capacity) * 100 >= 75 THEN (capacity * 3) \div 2
                          ELSE capacity
  BY DEF Stack!set, Stack!push, Stack!Resized, Stack!vars
<1>2. CASE n < size
  BY <1>1, <1>2
<1>3. CASE ~(n < size) /\ size + 1 < capacity
  <2>1. (size + 1) \div capacity = 0
    BY <1>3, SMT
  <2> QED
    BY <1>1, <1>3, <2>1
<1>4. CASE ~(n < size) /\ size + 1 = capacity
  <2>1. (size + 1) \div capacity = 1
    BY <1>4, SMT
  <2>2. (capacity * 3) \div 2 \in Nat /\ (capacity * 3) \div 2 > capacity
    BY SMT
  <2> QED
    BY <1>1, <1>4, <2>1, <2>2
<1> QED
  BY <1>2, <1>3, <1>4

\* A child near enough goes onto the stack: nothing on it is below the child.
LEMMA PushChildInv ==
  ASSUME NEW anc, NEW lev, Inv(anc, lev), PushChild
  PROVE  Inv(anc, lev)'
<1> USE DEF Inv
<1> DEFINE c == children[curr_node][child]
           e == stack
<1>1. /\ Scanning /\ Searching
      /\ child <= Len(children[curr_node]) /\ child' = child + 1
      /\ Stack!set(Len(stack))
      /\ stack' = Append(stack, c)
      /\ UNCHANGED <<tree, pc, word, threshold, curr_node, ret, local_depth, added>>
  BY DEF PushChild, Scanning, Searching
<1>2. children' = children /\ root' = root /\ Above(anc) /\ Toward(anc) /\ Rising
  BY <1>1 DEF tree, Tree
<1>3. /\ curr_node \in added /\ child \in Nat /\ child \in 1 .. Len(children[curr_node])
      /\ c \in Range(children[curr_node]) /\ c \in Word
      /\ Ahead = Ahead' \cup {c}
      /\ \A d \in Ahead' : \E n \in 1 .. Len(children[curr_node]) :
           child < n /\ d = children[curr_node][n]
  BY <1>1, <1>2, NextChild DEF Types
<1>4. \A d \in Ahead' : Under(anc, c) \cap Under(anc, d) = {}
  <2> SUFFICES ASSUME NEW d \in Ahead'
               PROVE  Under(anc, c) \cap Under(anc, d) = {}
    OBVIOUS
  <2>1. PICK n \in 1 .. Len(children[curr_node]) : child < n /\ d = children[curr_node][n]
    BY <1>3
  <2> QED
    BY <1>2, <1>3, <2>1, SiblingsApart
<1> HIDE DEF c
<1>5. /\ stack' \in Seq(Word) /\ stack \in Seq(Word)
      /\ Len(stack') = Len(stack) + 1 /\ Len(stack) \in Nat
      /\ DOMAIN stack = 1 .. Len(stack) /\ DOMAIN stack' = 1 .. Len(stack) + 1
      /\ stack'[Len(stack) + 1] = c
      /\ \A i \in 1 .. Len(stack) : stack'[i] = stack[i]
      /\ Range(stack') = Range(stack) \cup {c}
  <2>1. stack \in Seq(Word)
    BY DEF Types
  <2> QED
    BY <1>1, <1>3, <2>1, Appended
<1>6. Tree(anc, lev)' /\ \A u : Under(anc, u)' = Under(anc, u)
  BY <1>1, SameTree
<1>7. Pending' = Pending
  BY <1>3, <1>5 DEF Pending
<1>8. root # Null
  BY <1>2, <1>3 DEF Above
<1>9. /\ size' \in Nat /\ capacity' \in Nat
      /\ Len(stack') <= size' /\ size' < capacity' /\ capacity' >= 2
  <2>1. size \in Nat /\ capacity \in Nat
    BY DEF Types
  <2>2. Len(stack) <= size /\ size < capacity /\ capacity >= 2
    BY <1>1, <1>8 DEF Room
  <2> QED
    BY <1>1, <1>5, <2>1, <2>2, SetRoom
<1>10. Types'
  <2>1. child' \in Nat /\ pc \in {"find", "match"} /\ curr_node' \in added'
    BY <1>1, <1>3 DEF Scanning
  <2> QED
    BY <1>1, <1>5, <1>9, <2>1 DEF Types, tree
<1>11. Room'
  BY <1>1, <1>7, <1>9 DEF Room, Searching
<1>12. Covered(anc)'
  BY <1>1, <1>6, <1>7 DEF Covered, Searching
<1>13. Once(anc)'
  <2> SUFFICES ASSUME pc = "match" PROVE Once(anc)'
    BY <1>1 DEF Once
  <2>1. /\ \A m, n \in DOMAIN stack : m # n => Under(anc, stack[m]) \cap Under(anc, stack[n]) = {}
        /\ \A u \in Range(stack), d \in Ahead : Under(anc, u) \cap Under(anc, d) = {}
        /\ \A w \in Range(ret) : w \in added /\ Dist(w, word) <= threshold
        /\ \A u \in Pending, w \in Range(ret) : w \notin Under(anc, u)
        /\ \A m, n \in DOMAIN ret : ret[m] = ret[n] => m = n
    BY DEF Once
  <2>2. \A i \in DOMAIN stack : Under(anc, stack'[i]) \cap Under(anc, c) = {}
    BY <1>3, <1>5, <2>1 DEF Range
  <2>3. ASSUME NEW m \in DOMAIN stack', NEW n \in DOMAIN stack', m # n
        PROVE  Under(anc, stack'[m]) \cap Under(anc, stack'[n]) = {}
    <3>1. CASE m \in DOMAIN stack /\ n \in DOMAIN stack
      BY <1>5, <2>1, <2>3, <3>1
    <3>2. CASE m \in DOMAIN stack /\ n = Len(stack) + 1
      BY <1>5, <2>2, <3>2
    <3>3. CASE m = Len(stack) + 1 /\ n \in DOMAIN stack
      BY <1>5, <2>2, <3>3
    <3> QED
      BY <1>5, <2>3, <3>1, <3>2, <3>3
  <2>4. \A u \in Range(stack'), d \in Ahead' : Under(anc, u) \cap Under(anc, d) = {}
    BY <1>3, <1>4, <1>5, <2>1
  <2> QED
    BY <1>1, <1>6, <1>7, <2>1, <2>3, <2>4 DEF Once
<1>14. Inserting(anc, lev)'
  BY <1>1 DEF Inserting, Searching
<1> QED
  BY <1>6, <1>10, <1>11, <1>12, <1>13, <1>14

LEMMA MatchReturnInv ==
  ASSUME NEW anc, NEW lev, Inv(anc, lev), MatchReturn
  PROVE  Inv(anc, lev)'
<1> USE DEF Inv
<1>1. /\ pc' = "idle" /\ child = 0 /\ child' = 0
      /\ UNCHANGED <<tree, word, threshold, walk, ret, local_depth, added>>
  BY DEF MatchReturn, walk
<1>2. Tree(anc, lev)'
  BY <1>1, SameTree
<1>3. Types'
  BY <1>1 DEF Types, tree, walk
<1>4. Room' /\ Covered(anc)' /\ Once(anc)' /\ Inserting(anc, lev)'
  BY <1>1 DEF Room, Covered, Once, Inserting, Searching
<1> QED
  BY <1>2, <1>3, <1>4

\* find has nothing left to visit: the word is not in the tree.
LEMMA FindReturnInv ==
  ASSUME NEW anc, NEW lev, Inv(anc, lev), FindReturn
  PROVE  Inv(anc, lev)'
<1> USE DEF Inv
<1>1. /\ pc = "find" /\ child = 0 /\ stack = <<>> /\ pc' = "insert" /\ Searching
      /\ curr_node' = root /\ local_depth' = 1
      /\ UNCHANGED <<tree, word, threshold, child, stack, size, capacity, ret, added>>
  BY DEF FindReturn, Searching
<1>2. Tree(anc, lev)'
  BY <1>1, SameTree
<1>3. Types'
  BY <1>1 DEF Types, tree
<1>4. word \notin added
  <2>1. Pending = {}
    BY <1>1 DEF Pending, Ahead, Range
  <2>2. word \in Word /\ threshold = 0
    BY <1>1 DEF Types
  <2>3. Dist(word, word) = 0
    <3>1. \A v, w \in Word : v = w => Dist(v, w) = 0
      BY BkTreeAssumption
    <3> QED
      BY <2>2, <3>1
  <2>4. Dist(word, word) <= threshold
    BY <2>2, <2>3
  <2> QED
    BY <1>1, <2>1, <2>4 DEF Covered
<1>5. Inserting(anc, lev)'
  <2>1. root' = root /\ added' = added /\ word' = word
    BY <1>1 DEF tree
  <2>2. root # Null => root \in added /\ anc[root] = {} /\ lev[root] = 0
    BY DEF Tree, Above, Levels
  <2>3. root # Null => local_depth' = lev[root] + 1
    BY <1>1, <2>2
  <2> QED
    BY <1>1, <1>4, <2>1, <2>2, <2>3 DEF Inserting
<1>6. Room' /\ Covered(anc)' /\ Once(anc)'
  BY <1>1 DEF Room, Covered, Once, Searching
<1> QED
  BY <1>2, <1>3, <1>5, <1>6

----------------------------------------------------------------------------
(* The insertion.                                                          *)

\* The first entry of the tree.
LEMMA InsertRootInv ==
  ASSUME NEW anc \in [Word -> SUBSET Word], NEW lev \in [Word -> Nat], Inv(anc, lev), InsertRoot
  PROVE  IInv'
<1> USE DEF Inv
<1>1. /\ pc = "insert" /\ root = Null /\ root' = word /\ depth' = depth + 1
      /\ pc' = "idle" /\ added' = added \cup {word}
      /\ UNCHANGED <<children, distance_from_parent, word, threshold, walk, ret, local_depth>>
  BY DEF InsertRoot
<1>2. added = {} /\ word \in Word /\ word # Null
  BY <1>1, BkTreeAssumption DEF Tree, Above, Types
<1>3. depth = 0
  <2>1. depth \in Nat /\ (depth # 0 => 0 \in 0 .. depth - 1)
    BY DEF Types
  <2> QED
    BY <1>2, <2>1 DEF Tree, Levels
<1>14. PICK k \in Word : k = word
  BY <1>2
<1> DEFINE anc2 == [anc EXCEPT ![k] = {}]
           lev2 == [lev EXCEPT ![k] = 0]
<1>4. /\ anc2 \in [Word -> SUBSET Word] /\ lev2 \in [Word -> Nat]
      /\ anc2[word] = {} /\ lev2[word] = 0
  BY <1>14
<1> HIDE DEF anc2, lev2
<1>5. added' = {word} /\ depth' = 1 /\ children' = children
  BY <1>1, <1>2, <1>3
<1>6. \A v \in Word : children[v] = <<>> /\ Range(children[v]) = {} /\ DOMAIN children[v] = {}
  BY <1>2 DEF Tree, Above, Range
<1>7. Under(anc2, word)' = {word}
  BY <1>1, <1>5 DEF Under
<1>8. Above(anc2)'
  <2>1. \A v \in added' : \A c \in Range(children'[v]) : FALSE
    BY <1>2, <1>5, <1>6
  <2>2. \A v \in Word \ added' : children'[v] = <<>>
    BY <1>5, <1>6
  <2> QED
    BY <1>1, <1>2, <1>4, <1>5, <1>7, <2>1, <2>2 DEF Above
<1>9. Rising' /\ Toward(anc2)'
  <2>1. \A v \in Word : \A m \in DOMAIN children'[v] : FALSE
    BY <1>5, <1>6
  <2>2. \A v \in added' : \A c \in Range(children'[v]) : FALSE
    BY <1>2, <1>5, <1>6
  <2>3. \A w \in added' : \A p \in anc2[w] : FALSE
    BY <1>4, <1>5
  <2> QED
    BY <2>1, <2>2, <2>3 DEF Rising, Toward
<1>10. Levels(lev2)'
  <2>1. \A n \in 0 .. depth' - 1 : n = 0
    BY <1>5
  <2>2. \A v \in added' : \A c \in Range(children'[v]) : FALSE
    BY <1>2, <1>5, <1>6
  <2>3. \A w \in added' : w = word
    BY <1>5
  <2> QED
    BY <1>1, <1>2, <1>4, <1>5, <2>1, <2>2, <2>3 DEF Levels
<1>11. Types'
  BY <1>1, <1>2, <1>5 DEF Types, walk
<1>12. Room' /\ Covered(anc2)' /\ Once(anc2)' /\ Inserting(anc2, lev2)'
  BY <1>1 DEF Room, Covered, Once, Inserting, Searching
<1>13. Inv(anc2, lev2)'
  BY <1>8, <1>9, <1>10, <1>11, <1>12 DEF Tree
<1> QED
  BY <1>4, <1>13, Zenon DEF IInv

\* The child the new entry is as far from the node as: what is above the node is as
\* far from the child as from the node.
LEMMA DescendInv ==
  ASSUME NEW anc, NEW lev \in [Word -> Nat], Inv(anc, lev), Descend
  PROVE  Inv(anc, lev)'
<1> USE DEF Inv
<1>1. /\ pc = "insert" /\ root # Null /\ curr_node' \in SameDistance
      /\ local_depth' = local_depth + 1
      /\ UNCHANGED <<tree, pc, word, threshold, child, stack, size, capacity, ret, added>>
  BY DEF Descend
<1>2. /\ curr_node' \in Range(children[curr_node])
      /\ distance_from_parent[curr_node'] = Dist(curr_node, word)
  BY <1>1 DEF SameDistance
<1>3. /\ word \notin added /\ curr_node \in added /\ local_depth = lev[curr_node] + 1
      /\ \A p \in anc[curr_node] : Dist(p, word) = Dist(p, curr_node)
  BY <1>1 DEF Inserting
<1>4. Above(anc) /\ Toward(anc) /\ Levels(lev)
  BY DEF Tree
<1>5. Tree(anc, lev)'
  BY <1>1, SameTree
<1>6. curr_node' \in added /\ anc[curr_node'] = anc[curr_node] \cup {curr_node}
      /\ lev[curr_node'] = lev[curr_node] + 1
  BY <1>2, <1>3, <1>4 DEF Above, Levels
<1>7. Types'
  <2>1. local_depth' \in Nat
    BY <1>1 DEF Types
  <2>2. ~(child > 0)
    BY <1>1 DEF Types
  <2> QED
    BY <1>1, <2>1, <2>2 DEF Types, tree
<1>8. ASSUME NEW p \in anc[curr_node']
      PROVE  Dist(p, word) = Dist(p, curr_node')
  <2>1. CASE p = curr_node
    <3>1. curr_node' \in Under(anc, curr_node')
      BY <1>6 DEF Under
    <3>2. Dist(curr_node, curr_node') = distance_from_parent[curr_node']
      BY <1>2, <1>3, <1>4, <3>1 DEF Toward
    <3> QED
      BY <1>2, <2>1, <3>2
  <2>2. CASE p \in anc[curr_node]
    <3>1. p \in added
      BY <1>3, <1>4, <2>2 DEF Above
    <3>2. PICK c \in Range(children[p]) : curr_node \in Under(anc, c)
      BY <1>3, <1>4, <2>2 DEF Toward
    <3>3. curr_node' \in Under(anc, c)
      BY <1>6, <3>2 DEF Under
    <3>4. Dist(p, curr_node) = distance_from_parent[c] /\ Dist(p, curr_node') = distance_from_parent[c]
      BY <1>4, <3>1, <3>2, <3>3 DEF Toward
    <3> QED
      BY <1>3, <2>2, <3>4
  <2> QED
    BY <1>6, <2>1, <2>2
<1>9. Inserting(anc, lev)'
  BY <1>1, <1>3, <1>6, <1>8 DEF Inserting
<1>10. Room' /\ Covered(anc)' /\ Once(anc)'
  BY <1>1 DEF Room, Covered, Once, Searching
<1> QED
  BY <1>5, <1>7, <1>9, <1>10

\* t is s with k after place p.
Placed(s, p, k, t) ==
  /\ Len(t) = Len(s) + 1
  /\ t[p + 1] = k
  /\ \A q \in 1 .. p : t[q] = s[q]
  /\ \A q \in p + 1 .. Len(s) : t[q + 1] = s[q]

\* By f the elements of s rise, and d divides them at p; by g, which gives k the value d,
\* they are the same.
Parts(f, g, s, p, k, d) ==
  /\ \A m, n \in 1 .. Len(s) : m < n => f[s[m]] < f[s[n]]
  /\ \A i \in 1 .. Len(s) : f[s[i]] < d <=> i <= p
  /\ \A i \in 1 .. Len(s) : f[s[i]] # d
  /\ \A i \in 1 .. Len(s) : g[s[i]] = f[s[i]]
  /\ g[k] = d

\* An element put where its value divides the others leaves them rising.
LEMMA PlacedRising ==
  ASSUME NEW S, NEW s \in Seq(S), NEW t \in Seq(S), NEW p \in 0 .. Len(s), NEW k \in S,
         NEW d \in Nat, NEW f \in [S -> Nat], NEW g \in [S -> Nat],
         Placed(s, p, k, t), Parts(f, g, s, p, k, d)
  PROVE  \A m, n \in DOMAIN t : m < n => g[t[m]] < g[t[n]]
<1>1. Len(s) \in Nat /\ \A i \in 1 .. Len(s) : s[i] \in S
  OBVIOUS
<1>2. /\ t[p + 1] = k
      /\ \A q \in 1 .. p : t[q] = s[q]
      /\ \A q \in p + 1 .. Len(s) : t[q + 1] = s[q]
  BY DEF Placed
<1>3. DOMAIN t = 1 .. Len(s) + 1
  BY DEF Placed
<1>6. g[k] = d
  BY DEF Parts
<1>7. /\ \A i \in 1 .. Len(s) : f[s[i]] < d <=> i <= p
      /\ \A i \in 1 .. Len(s) : f[s[i]] # d
      /\ \A m, n \in 1 .. Len(s) : m < n => f[s[m]] < f[s[n]]
  BY DEF Parts
<1>8. \A i \in 1 .. Len(s) : g[s[i]] = f[s[i]] /\ f[s[i]] \in Nat
  BY <1>1 DEF Parts
<1>9. p \in Nat /\ p <= Len(s)
  BY <1>1
<1>10. ASSUME NEW m \in 1 .. Len(s) + 1, NEW n \in 1 .. Len(s) + 1, m < n
       PROVE  g[t[m]] < g[t[n]]
  <2>1. CASE n <= p
    <3>1. m \in 1 .. p /\ n \in 1 .. p /\ m \in 1 .. Len(s) /\ n \in 1 .. Len(s)
      <4>1. m \in Nat /\ n \in Nat /\ 1 <= m /\ m < n /\ Len(s) \in Nat
        BY <1>1, <1>10
      <4> QED
        BY <1>9, <2>1, <4>1
    <3>2. t[m] = s[m] /\ t[n] = s[n]
      BY <1>2, <3>1
    <3> QED
      BY <1>7, <1>8, <1>10, <3>1, <3>2
  <2>2. CASE n = p + 1
    <3>1. m \in 1 .. p /\ m \in 1 .. Len(s) /\ m <= p
      BY <1>1, <1>9, <1>10, <2>2
    <3>2. t[m] = s[m] /\ t[n] = k
      BY <1>2, <2>2, <3>1
    <3> QED
      BY <1>6, <1>7, <1>8, <3>1, <3>2
  <2>3. CASE n > p + 1
    <3>1. n - 1 \in p + 1 .. Len(s) /\ n - 1 \in 1 .. Len(s) /\ (n - 1) + 1 = n /\ ~(n - 1 <= p)
      BY <1>1, <1>9, <1>10, <2>3
    <3>2. t[n] = s[n - 1]
      BY <1>2, <3>1
    <3>3. CASE m <= p
      <4>1. m \in 1 .. p /\ m \in 1 .. Len(s) /\ m < n - 1
        BY <1>1, <1>9, <1>10, <2>3, <3>3
      <4>2. t[m] = s[m]
        BY <1>2, <4>1
      <4> QED
        BY <1>7, <1>8, <3>1, <3>2, <4>1, <4>2
    <3>4. CASE m = p + 1
      <4>1. t[m] = k
        BY <1>2, <3>4
      <4>2. f[s[n - 1]] > d
        <5>1. ~(f[s[n - 1]] < d) /\ f[s[n - 1]] # d /\ f[s[n - 1]] \in Nat
          BY <1>7, <1>8, <3>1
        <5> QED
          BY <5>1
      <4>3. g[t[n]] = f[s[n - 1]] /\ g[t[m]] = d
        <5>1. g[s[n - 1]] = f[s[n - 1]]
          BY <1>8, <3>1
        <5>2. g[t[n]] = f[s[n - 1]]
          BY <3>2, <5>1, Zenon
        <5>3. g[t[m]] = d
          BY <1>6, <4>1, Zenon
        <5> QED
          BY <5>2, <5>3
      <4> QED
        BY <4>2, <4>3
    <3>5. CASE m > p + 1
      <4>1. m - 1 \in p + 1 .. Len(s) /\ m - 1 \in 1 .. Len(s) /\ (m - 1) + 1 = m /\ m - 1 < n - 1
        BY <1>1, <1>9, <1>10, <3>5
      <4>2. t[m] = s[m - 1]
        BY <1>2, <4>1
      <4> QED
        BY <1>7, <1>8, <3>1, <3>2, <4>1, <4>2
    <3> QED
      BY <1>9, <3>3, <3>4, <3>5
  <2> QED
    BY <1>9, <2>1, <2>2, <2>3
<1> QED
  BY <1>3, <1>10

LEMMA InsertedPlaced ==
  ASSUME NEW S, NEW s \in Seq(S), NEW p \in 0 .. Len(s), NEW k \in S
  PROVE  /\ InsertAt(s, p + 1, k) \in Seq(S)
         /\ Placed(s, p, k, InsertAt(s, p + 1, k))
         /\ Range(InsertAt(s, p + 1, k)) = Range(s) \cup {k}
<1>1. InsertAt(s, p + 1, k) \in Seq(S) /\ Len(InsertAt(s, p + 1, k)) = Len(s) + 1
  BY Inserted
<1>2. InsertAt(s, p + 1, k)[p + 1] = k
  BY Inserted
<1>3. \A q \in 1 .. p : InsertAt(s, p + 1, k)[q] = s[q]
  BY Inserted
<1>4. \A q \in p + 1 .. Len(s) : InsertAt(s, p + 1, k)[q + 1] = s[q]
  BY Inserted
<1>5. Range(InsertAt(s, p + 1, k)) = Range(s) \cup {k}
  BY Inserted
<1> QED
  BY <1>1, <1>2, <1>3, <1>4, <1>5 DEF Placed

\* The children of v with k among them.
LEMMA AttachedAre ==
  ASSUME Types, NEW v \in Word, NEW k \in Word, NEW p \in 0 .. Len(children[v]),
         children' = [children EXCEPT ![v] = InsertAt(@, p + 1, k)]
  PROVE  /\ children'[v] \in Seq(Word)
         /\ Placed(children[v], p, k, children'[v])
         /\ Range(children'[v]) = Range(children[v]) \cup {k}
         /\ \A u \in Word \ {v} : children'[u] = children[u]
<1>1. /\ InsertAt(children[v], p + 1, k) \in Seq(Word)
      /\ Placed(children[v], p, k, InsertAt(children[v], p + 1, k))
      /\ Range(InsertAt(children[v], p + 1, k)) = Range(children[v]) \cup {k}
  <2>1. children[v] \in Seq(Word)
    BY DEF Types
  <2> QED
    BY <2>1, InsertedPlaced
<1>2. /\ children'[v] = InsertAt(children[v], p + 1, k)
      /\ \A u \in Word \ {v} : children'[u] = children[u]
  BY DEF Types
<1> QED
  BY <1>1, <1>2

\* A word in its place among the children of v: their distances still rise.
LEMMA AttachRising ==
  ASSUME Types, Rising, NEW v \in Word, NEW k \in Word, NEW d \in Nat,
         NEW p \in 0 .. Len(children[v]),
         Parts(distance_from_parent, distance_from_parent', children[v], p, k, d),
         \A u \in Word : k \notin Range(children[u]),
         distance_from_parent' = [distance_from_parent EXCEPT ![k] = d],
         Placed(children[v], p, k, children'[v]),
         children'[v] \in Seq(Word),
         \A u \in Word \ {v} : children'[u] = children[u]
  PROVE  Rising'
<1>1. children \in [Word -> Seq(Word)] /\ distance_from_parent \in [Word -> Nat]
  BY DEF Types
<1>2. /\ distance_from_parent' \in [Word -> Nat]
      /\ \A u \in Word \ {k} : distance_from_parent'[u] = distance_from_parent[u]
  BY <1>1
<1>3. \A m, n \in DOMAIN children'[v] :
        m < n => distance_from_parent'[children'[v][m]] < distance_from_parent'[children'[v][n]]
  BY <1>1, <1>2, PlacedRising
<1>4. ASSUME NEW u \in Word \ {v}, NEW m \in DOMAIN children[u], NEW n \in DOMAIN children[u], m < n
      PROVE  distance_from_parent'[children[u][m]] < distance_from_parent'[children[u][n]]
  <2>1. children[u][m] \in Word \ {k} /\ children[u][n] \in Word \ {k}
    BY <1>1 DEF Range
  <2>2. distance_from_parent[children[u][m]] < distance_from_parent[children[u][n]]
    BY <1>4 DEF Rising
  <2> QED
    BY <1>2, <2>1, <2>2
<1> QED
  BY <1>3, <1>4 DEF Rising

\* The new entry becomes a child of the node at hand.
LEMMA AttachInv ==
  ASSUME NEW anc \in [Word -> SUBSET Word], NEW lev \in [Word -> Nat], Inv(anc, lev), Attach
  PROVE  IInv'
<1>1. /\ pc = "insert" /\ root # Null /\ SameDistance = {}
      /\ pc' = "idle" /\ added' = added \cup {word}
      /\ depth' = Larger(depth, local_depth + 1)
      /\ UNCHANGED <<root, word, threshold, walk, ret, local_depth>>
  BY DEF Attach
<1>2. /\ word \in Word /\ added \subseteq Word /\ depth \in Nat /\ local_depth \in Nat
      /\ children \in [Word -> Seq(Word)] /\ distance_from_parent \in [Word -> Nat]
  BY <1>1 DEF Inv, Types
<1>3. /\ word \notin added /\ curr_node \in added /\ local_depth = lev[curr_node] + 1
      /\ \A p \in anc[curr_node] : Dist(p, word) = Dist(p, curr_node)
  BY <1>1 DEF Inv, Inserting
<1>4. PICK k \in Word : k = word
  BY <1>2
<1>5. PICK v \in Word : v = curr_node
  BY <1>2, <1>3
<1>6. PICK d \in Nat : d = Dist(v, k)
  BY BkTreeAssumption
<1>7. /\ k \notin added /\ v \in added /\ k # v
      /\ \A p \in anc[v] : Dist(p, k) = Dist(p, v)
  BY <1>3, <1>4, <1>5
<1>8. Above(anc) /\ Toward(anc) /\ Rising /\ Levels(lev)
  BY DEF Inv, Tree
<1>9. PICK p \in 0 .. Len(children[v]) :
        /\ \A i \in DOMAIN children[v] : distance_from_parent[children[v][i]] < d <=> i <= p
        /\ children' = [children EXCEPT ![v] = InsertAt(@, p + 1, k)]
  <2>1. \E p \in 0 .. Len(children[curr_node]) :
          /\ Divides(p)
          /\ children' = [children EXCEPT ![curr_node] = InsertAt(@, p + 1, word)]
    BY DEF Attach
  <2> QED
    BY <1>4, <1>5, <1>6, <2>1 DEF Divides
<1>10. distance_from_parent' = [distance_from_parent EXCEPT ![k] = d]
  BY <1>4, <1>5, <1>6 DEF Attach
<1>11. /\ Range(children'[v]) = Range(children[v]) \cup {k} /\ children'[v] \in Seq(Word)
      /\ Placed(children[v], p, k, children'[v])
      /\ \A u \in Word \ {v} : children'[u] = children[u]
  BY <1>9, AttachedAre DEF Inv
<1>13. /\ distance_from_parent' \in [Word -> Nat] /\ distance_from_parent'[k] = d
       /\ \A u \in added : distance_from_parent'[u] = distance_from_parent[u]
  BY <1>2, <1>7, <1>10
<1>14. children' \in [Word -> Seq(Word)]
  BY <1>2, <1>9, <1>11
<1>15. children[k] = <<>> /\ Range(children'[k]) = {}
  BY <1>7, <1>8, <1>11 DEF Above, Range
<1> DEFINE anc2 == [anc EXCEPT ![k] = anc[v] \cup {v}]
           lev2 == [lev EXCEPT ![k] = lev[v] + 1]
<1>16. /\ anc2 \in [Word -> SUBSET Word] /\ lev2 \in [Word -> Nat]
       /\ anc2[k] = anc[v] \cup {v} /\ lev2[k] = lev[v] + 1
       /\ \A u \in added : anc2[u] = anc[u] /\ lev2[u] = lev[u]
  BY <1>2, <1>7
<1> HIDE DEF anc2, lev2
<1>17. added' = added \cup {k} /\ root' = root
  BY <1>1, <1>4
<1>18. /\ root \in added /\ anc[root] = {} /\ added = Under(anc, root)
       /\ \A w \in added : /\ anc[w] \subseteq added
                           /\ w \notin anc[w]
                           /\ \A q \in anc[w] : anc[q] \subseteq anc[w]
       /\ \A u \in added : \A c \in Range(children[u]) : c \in added /\ anc[c] = anc[u] \cup {u}
  BY <1>1, <1>8 DEF Above
<1>19. ASSUME NEW u \in added
       PROVE  Under(anc2, u)' = Under(anc, u) \cup (IF u \in anc[v] \cup {v} THEN {k} ELSE {})
  BY <1>7, <1>16, <1>17 DEF Under
<1>20. Under(anc2, k)' = {k}
  BY <1>7, <1>16, <1>17, <1>18 DEF Under
<1>21. ASSUME NEW u \in added', NEW c \in Range(children'[u])
       PROVE  u \in added /\ ((c \in Range(children[u]) /\ c \in added) \/ (u = v /\ c = k))
  <2>1. CASE u = k
    BY <1>15, <1>21, <2>1
  <2>2. CASE u = v
    <3>1. c \in Range(children[v]) \/ c = k
      BY <1>11, <1>21, <2>2
    <3> QED
      BY <1>7, <1>18, <2>2, <3>1
  <2>3. CASE u \in added /\ u # v
    <3>1. c \in Range(children[u])
      BY <1>2, <1>11, <1>21, <2>3
    <3> QED
      BY <1>18, <2>3, <3>1
  <2> QED
    BY <1>17, <1>21, <2>1, <2>2, <2>3
<1>22. \A u \in added : Range(children[u]) \subseteq Range(children'[u])
  BY <1>2, <1>11
<1>23. Above(anc2)'
  <2>1. anc2[root] = {} /\ root' \in added' /\ added' # {}
    BY <1>16, <1>17, <1>18
  <2>2. added' = Under(anc2, root)'
    <3>1. root \in anc[v] \cup {v}
      BY <1>7, <1>18 DEF Under
    <3> QED
      BY <1>17, <1>18, <1>19, <3>1
  <2>3. ASSUME NEW w \in added'
        PROVE  /\ anc2[w] \subseteq added'
               /\ w \notin anc2[w]
               /\ \A q \in anc2[w] : anc2[q] \subseteq anc2[w]
    <3>1. CASE w \in added
      <4>1. anc2[w] = anc[w] /\ anc[w] \subseteq added
        BY <1>16, <1>18, <3>1
      <4> QED
        BY <1>16, <1>17, <1>18, <3>1, <4>1
    <3>2. CASE w = k
      <4>1. anc2[w] = anc[v] \cup {v} /\ anc[v] \subseteq added
        BY <1>7, <1>16, <1>18, <3>2
      <4> QED
        BY <1>7, <1>16, <1>17, <1>18, <3>2, <4>1
    <3> QED
      BY <1>17, <3>1, <3>2
  <2>4. \A u \in Word \ added' : children'[u] = <<>>
    BY <1>7, <1>8, <1>11, <1>17 DEF Above
  <2>5. ASSUME NEW u \in added', NEW c \in Range(children'[u])
        PROVE  c \in added' /\ anc2[c] = anc2[u] \cup {u}
    BY <1>7, <1>16, <1>17, <1>18, <1>21, <2>5
  <2> QED
    BY <1>1, <1>17, <2>1, <2>2, <2>3, <2>4, <2>5 DEF Above
<1>24. Rising'
  <2>1. children[v] \in Seq(Word) /\ \A i \in 1 .. Len(children[v]) : children[v][i] \in added
    <3>1. children[v] \in Seq(Word)
      BY <1>2
    <3> QED
      BY <1>7, <1>18, <3>1 DEF Range
  <2>2. Parts(distance_from_parent, distance_from_parent', children[v], p, k, d)
    <3>1. DOMAIN children[v] = 1 .. Len(children[v])
      BY <2>1
    <3>2. \A i \in 1 .. Len(children[v]) : distance_from_parent[children[v][i]] # d
      BY <1>1, <1>4, <1>5, <1>6, <3>1 DEF SameDistance, Range
    <3> QED
      BY <1>8, <1>9, <1>13, <2>1, <3>1, <3>2 DEF Parts, Rising
  <2>3. ASSUME NEW u \in Word
        PROVE  k \notin Range(children[u])
    <3>1. CASE u \in added
      BY <1>7, <1>18, <3>1
    <3>2. CASE u \notin added
      BY <1>8, <3>2 DEF Above, Range
    <3> QED
      BY <3>1, <3>2
  <2>4. Types
    BY DEF Inv
  <2> QED
    BY <1>8, <1>10, <1>11, <2>2, <2>3, <2>4, AttachRising
<1>25. Toward(anc2)'
  <2>1. ASSUME NEW u \in added', NEW c \in Range(children'[u]), NEW w \in Under(anc2, c)'
        PROVE  Dist(u, w) = distance_from_parent'[c]
    <3>1. CASE u = v /\ c = k
      BY <1>6, <1>13, <1>20, <2>1, <3>1
    <3>2. CASE u \in added /\ c \in Range(children[u]) /\ c \in added
      <4>1. distance_from_parent'[c] = distance_from_parent[c]
        BY <1>13, <3>2
      <4>2. CASE w \in Under(anc, c)
        BY <1>8, <3>2, <4>1, <4>2 DEF Toward
      <4>3. CASE w = k /\ c \in anc[v] \cup {v}
        <5>1. v \in Under(anc, c)
          BY <1>7, <4>3 DEF Under
        <5>2. Dist(u, v) = distance_from_parent[c]
          BY <1>8, <3>2, <5>1 DEF Toward
        <5>3. u \in anc[c]
          BY <1>18, <3>2
        <5>4. u \in anc[v]
          BY <1>7, <1>18, <4>3, <5>3
        <5> QED
          BY <1>7, <4>1, <4>3, <5>2, <5>4
      <4> QED
        BY <1>19, <2>1, <3>2, <4>2, <4>3
    <3> QED
      BY <1>21, <3>1, <3>2
  <2>2. ASSUME NEW w \in added', NEW q \in anc2[w]
        PROVE  \E c \in Range(children'[q]) : w \in Under(anc2, c)'
    <3>1. CASE w \in added
      <4>1. q \in anc[w] /\ q \in added
        BY <1>16, <1>18, <3>1
      <4>2. PICK c \in Range(children[q]) : w \in Under(anc, c)
        BY <1>8, <3>1, <4>1 DEF Toward
      <4>3. c \in added /\ c \in Range(children'[q])
        BY <1>18, <1>22, <4>1
      <4> QED
        BY <1>19, <4>2, <4>3
    <3>2. CASE w = k /\ q = v
      <4>1. k \in Range(children'[v]) /\ k \in Under(anc2, k)'
        BY <1>11, <1>20
      <4> QED
        BY <3>2, <4>1
    <3>3. CASE w = k /\ q \in anc[v]
      <4>1. PICK c \in Range(children[q]) : v \in Under(anc, c)
        BY <1>7, <1>8, <3>3 DEF Toward
      <4>2. q \in added /\ c \in added /\ c \in Range(children'[q]) /\ c \in anc[v] \cup {v}
        BY <1>7, <1>18, <1>22, <3>3, <4>1 DEF Under
      <4> QED
        BY <1>19, <3>3, <4>2
    <3> QED
      BY <1>16, <1>17, <3>1, <3>2, <3>3
  <2> QED
    BY <2>1, <2>2 DEF Toward
<1>26. Levels(lev2)'
  <2>1. lev[v] < depth /\ lev[v] \in Nat /\ local_depth = lev[v] + 1
    BY <1>3, <1>5, <1>7, <1>8 DEF Levels
  <2>2. \/ depth' = depth /\ local_depth + 1 <= depth
        \/ depth' = depth + 1 /\ local_depth = depth
    BY <1>1, <1>2, <2>1 DEF Larger
  <2>3. lev2[root] = 0
    BY <1>1, <1>8, <1>16, <1>18 DEF Levels
  <2>4. ASSUME NEW u \in added', NEW c \in Range(children'[u])
        PROVE  lev2[c] = lev2[u] + 1
    <3>1. CASE u = v /\ c = k
      BY <1>7, <1>16, <3>1
    <3>2. CASE u \in added /\ c \in Range(children[u]) /\ c \in added
      BY <1>8, <1>16, <3>2 DEF Levels
    <3> QED
      BY <1>21, <3>1, <3>2
  <2>5. ASSUME NEW w \in added' \ {root}
        PROVE  \E u \in added' : w \in Range(children'[u])
    <3>1. CASE w \in added
      <4>1. PICK u \in added : w \in Range(children[u])
        BY <1>8, <2>5, <3>1 DEF Levels
      <4> QED
        BY <1>17, <1>22, <4>1
    <3>2. CASE w = k
      BY <1>7, <1>11, <1>17, <3>2
    <3> QED
      BY <1>17, <3>1, <3>2
  <2>6. ASSUME NEW w \in added'
        PROVE  lev2[w] < depth'
    <3>1. CASE w \in added
      <4>1. lev2[w] = lev[w] /\ lev[w] < depth /\ lev[w] \in Nat
        BY <1>2, <1>8, <1>16, <3>1 DEF Levels
      <4> QED
        BY <1>2, <2>2, <4>1
    <3>2. CASE w = k
      BY <1>2, <1>16, <2>1, <2>2, <3>2
    <3> QED
      BY <1>17, <3>1, <3>2
  <2>7. ASSUME NEW n \in 0 .. depth' - 1
        PROVE  \E w \in added' : lev2[w] = n
    <3>1. CASE n \in 0 .. depth - 1
      <4>1. PICK w \in added : lev[w] = n
        BY <1>8, <3>1 DEF Levels
      <4> QED
        BY <1>16, <1>17, <4>1
    <3>2. CASE n = local_depth
      BY <1>16, <1>17, <2>1, <3>2
    <3> QED
      BY <1>2, <2>2, <3>1, <3>2
  <2> QED
    BY <1>17, <2>3, <2>4, <2>5, <2>6, <2>7 DEF Levels
<1>27. Types'
  <2>1. depth' \in Nat
    BY <1>1, <1>2 DEF Larger
  <2>2. child = 0
    BY <1>1 DEF Inv, Types
  <2>3. child' = child /\ stack' = stack /\ size' = size /\ capacity' = capacity
    BY <1>1 DEF walk
  <2> QED
    BY <1>1, <1>2, <1>13, <1>14, <2>1, <2>2, <2>3 DEF Inv, Types
<1>28. Room' /\ Covered(anc2)' /\ Once(anc2)' /\ Inserting(anc2, lev2)'
  BY <1>1 DEF Room, Covered, Once, Inserting, Searching
<1>29. Inv(anc2, lev2)'
  BY <1>23, <1>24, <1>25, <1>26, <1>27, <1>28 DEF Inv, Tree
<1> QED
  BY <1>16, <1>29, Zenon DEF IInv

----------------------------------------------------------------------------
(* The invariant holds, and with it what is said of find and of the stack. *)

LEMMA SameInv ==
  ASSUME NEW anc, NEW lev, Inv(anc, lev), UNCHANGED vars
  PROVE  Inv(anc, lev)'
<1> USE DEF Inv
<1>1. UNCHANGED <<tree, pc, word, threshold, walk, ret, local_depth, added>>
  BY DEF vars
<1>2. Tree(anc, lev)' /\ \A u : Under(anc, u)' = Under(anc, u)
  BY <1>1, SameTree
<1>3. Types'
  BY <1>1 DEF Types, tree, walk
<1>4. Pending' = Pending /\ Ahead' = Ahead
  BY <1>1 DEF Pending, Ahead, tree, walk
<1>5. Room'
  BY <1>1, <1>4 DEF Room, Searching, tree, walk
<1>6. Covered(anc)' /\ Once(anc)' /\ Inserting(anc, lev)'
  BY <1>1, <1>2, <1>4 DEF Covered, Once, Inserting, Searching, tree, walk
<1> QED
  BY <1>2, <1>3, <1>5, <1>6

LEMMA StepInv == IInv /\ [Next]_vars => IInv'
<1> SUFFICES ASSUME IInv, [Next]_vars PROVE IInv'
  OBVIOUS
<1>1. PICK anc \in [Word -> SUBSET Word], lev \in [Word -> Nat] : Inv(anc, lev)
  BY DEF IInv
<1>2. Inv(anc, lev)' => IInv'
  BY Zenon DEF IInv
<1>3. ASSUME NEW w \in Word, find(w) PROVE IInv'
  BY <1>1, <1>2, <1>3, BeginInv
<1>4. ASSUME NEW w \in Word, NEW t \in Threshold, match(w, t) PROVE IInv'
  BY <1>1, <1>2, <1>4, BeginInv
<1>5. CASE Pop
  BY <1>1, <1>2, <1>5, PopInv
<1>6. CASE PopFound
  BY <1>1, <1>2, <1>6, PopFoundInv
<1>7. CASE SkipChild
  BY <1>1, <1>2, <1>7, SkipChildInv
<1>8. CASE PushChild
  BY <1>1, <1>2, <1>8, PushChildInv
<1>9. CASE EndScan
  BY <1>1, <1>2, <1>9, EndScanInv
<1>10. CASE MatchReturn
  BY <1>1, <1>2, <1>10, MatchReturnInv
<1>11. CASE FindReturn
  BY <1>1, <1>2, <1>11, FindReturnInv
<1>12. CASE InsertRoot
  BY <1>1, <1>12, InsertRootInv
<1>13. CASE Descend
  BY <1>1, <1>2, <1>13, DescendInv
<1>14. CASE Attach
  BY <1>1, <1>14, AttachInv
<1>15. CASE UNCHANGED vars
  BY <1>1, <1>2, <1>15, SameInv
<1> QED
  BY <1>3, <1>4, <1>5, <1>6, <1>7, <1>8, <1>9, <1>10, <1>11, <1>12, <1>13, <1>14, <1>15
     DEF Next, Step

LEMMA Invariant == Spec => []IInv
BY InitInv, StepInv, PTL DEF Spec

\* find returns null for no word that is in the tree: the triangle inequality leaves
\* out only subtrees the word is not in.
THEOREM FindExactHolds == Spec => []FindExact
<1>1. IInv => FindExact
  BY DEF IInv, Inv, Inserting, FindExact
<1> QED
  BY <1>1, Invariant, PTL

\* The stack of a search has room for the next child, whatever the shape of the tree:
\* set neither throws nor writes past the end of its array.
THEOREM StackFitsHolds == Spec => []StackFits
<1>1. IInv => StackFits
  BY DEF IInv, Inv, Room, Searching, StackFits
<1> QED
  BY <1>1, Invariant, PTL

----------------------------------------------------------------------------
(* What match returns.                                                     *)

\* A sequence without repetitions is as long as it has elements.
LEMMA NoRepetition ==
  ASSUME NEW S, NEW s \in Seq(S), \A m, n \in DOMAIN s : s[m] = s[n] => m = n
  PROVE  Len(s) = Cardinality(Range(s))
<1>1. Len(s) \in Nat /\ DOMAIN s = 1 .. Len(s)
  OBVIOUS
<1>2. s \in [1 .. Len(s) -> Range(s)]
  <2>1. s = [i \in 1 .. Len(s) |-> s[i]]
    OBVIOUS
  <2> QED
    BY <1>1, <2>1 DEF Range
<1>3. s \in Bijection(1 .. Len(s), Range(s))
  BY <1>1, <1>2 DEF Bijection, Injection, Surjection, IsInjective, Range
<1> QED
  BY <1>1, <1>3, FS_CountingElements DEF ExistsBijection

\* match returns the entries within the threshold, each once.
THEOREM MatchExactHolds == Spec => MatchExact
<1>1. ASSUME IInv, [Next]_vars, pc = "match", pc' = "idle"
      PROVE  /\ Range(ret') = {w \in added : Dist(w, word) <= threshold}
             /\ Len(ret') = Cardinality(Range(ret'))
  <2>1. MatchReturn
    <3>1. pc # pc'
      BY <1>1
    <3>2. \A w \in Word, t \in Threshold : ~match(w, t) /\ ~find(w)
      BY <1>1 DEF match, find, Begin
    <3>3. \A w \in Word : ~find(w)
      BY <1>1 DEF find, Begin
    <3>4. ~Pop /\ ~PopFound /\ ~SkipChild /\ ~PushChild /\ ~EndScan
      BY <1>1 DEF Pop, PopFound, SkipChild, PushChild, EndScan
    <3>5. ~FindReturn /\ ~InsertRoot /\ ~Descend /\ ~Attach
      BY <1>1 DEF FindReturn, InsertRoot, Descend, Attach
    <3> QED
      BY <1>1, <3>1, <3>2, <3>3, <3>4, <3>5 DEF Next, Step, vars
  <2>2. PICK anc \in [Word -> SUBSET Word], lev \in [Word -> Nat] : Inv(anc, lev)
    BY <1>1 DEF IInv
  <2>3. ret' = ret /\ stack = <<>> /\ child = 0
    BY <2>1 DEF MatchReturn
  <2>4. Pending = {}
    BY <2>3 DEF Pending, Ahead, Range
  <2>5. \A w \in added : Dist(w, word) <= threshold => w \in Range(ret)
    BY <1>1, <2>2, <2>4 DEF Inv, Covered, Searching
  <2>6. /\ \A w \in Range(ret) : w \in added /\ Dist(w, word) <= threshold
        /\ \A m, n \in DOMAIN ret : ret[m] = ret[n] => m = n
    BY <1>1, <2>2 DEF Inv, Once
  <2>7. ret \in Seq(Word)
    BY <2>2 DEF Inv, Types
  <2>8. Len(ret) = Cardinality(Range(ret))
    BY <2>6, <2>7, NoRepetition
  <2> QED
    BY <2>3, <2>5, <2>6, <2>8
<1>2. IInv /\ [Next]_vars =>
        [pc = "match" /\ pc' = "idle" =>
           /\ Range(ret') = {w \in added : Dist(w, word) <= threshold}
           /\ Len(ret') = Cardinality(Range(ret'))]_vars
  BY <1>1
<1> QED
  BY <1>2, Invariant, PTL DEF Spec, MatchExact

----------------------------------------------------------------------------
(* The depth of the tree. Level is a recursive function: that it is the    *)
(* levels of lev is shown for the least n for which it might not be.       *)

LEMMA LeastNat ==
  ASSUME NEW N \in SUBSET Nat, N # {}
  PROVE  \E m \in N : \A k \in N : m <= k
<1>1. IsWellFoundedOn(OpToRel(<, Nat), Nat)
  BY NatLessThanWellFounded
<1>2. PICK x \in N : \A y \in N : <<y, x>> \notin OpToRel(<, Nat)
  BY <1>1, WFMin
<1>3. ASSUME NEW y \in N PROVE x <= y
  <2>1. OpToRel(<, Nat) = {ss \in Nat \X Nat : ss[1] < ss[2]}
    BY DEF OpToRel
  <2>2. <<y, x>> \notin {ss \in Nat \X Nat : ss[1] < ss[2]}
    BY <1>2, <2>1
  <2>3. <<y, x>> \in Nat \X Nat /\ x \in Nat /\ y \in Nat
    OBVIOUS
  <2>4. ~(y < x)
    BY <2>2, <2>3
  <2> QED
    BY <2>3, <2>4
<1> QED
  BY <1>3

\* The entries of level n.
At(lev, n) == {w \in added : lev[w] = n}

Below(A) == UNION {Range(children[w]) : w \in A}

LEMMA TopLevel ==
  ASSUME NEW anc, NEW lev \in [Word -> Nat], Inv(anc, lev)
  PROVE  At(lev, 0) = {root} \ {Null}
<1>1. /\ root = Null <=> added = {}
      /\ root # Null => root \in added /\ lev[root] = 0
      /\ added \subseteq Word
      /\ \A v \in added : \A c \in Range(children[v]) : lev[c] = lev[v] + 1
      /\ \A w \in added \ {root} : \E v \in added : w \in Range(children[v])
  BY DEF Inv, Types, Tree, Above, Levels
<1>2. ASSUME NEW w \in added, w # root
      PROVE  lev[w] # 0
  <2>1. PICK v \in added : w \in Range(children[v])
    BY <1>1, <1>2
  <2>2. lev[w] = lev[v] + 1 /\ lev[v] \in Nat
    BY <1>1, <2>1
  <2> QED
    BY <2>2
<1> QED
  BY <1>1, <1>2 DEF At

LEMMA NextLevel ==
  ASSUME NEW anc, NEW lev \in [Word -> Nat], Inv(anc, lev), NEW n \in Nat, n # 0
  PROVE  At(lev, n) = Below(At(lev, n - 1))
<1>1. /\ root # Null => root \in added /\ lev[root] = 0
      /\ root = Null => added = {}
      /\ added \subseteq Word
      /\ \A v \in added : \A c \in Range(children[v]) : c \in added /\ lev[c] = lev[v] + 1
      /\ \A w \in added \ {root} : \E v \in added : w \in Range(children[v])
  BY DEF Inv, Types, Tree, Above, Levels
<1>2. ASSUME NEW w \in At(lev, n)
      PROVE  w \in Below(At(lev, n - 1))
  <2>1. w \in added \ {root} /\ lev[w] = n
    BY <1>1 DEF At
  <2>2. PICK v \in added : w \in Range(children[v])
    BY <1>1, <2>1
  <2>3. lev[w] = lev[v] + 1 /\ lev[v] \in Nat
    BY <1>1, <2>2
  <2>4. v \in At(lev, n - 1)
    BY <2>1, <2>3 DEF At
  <2> QED
    BY <2>2, <2>4 DEF Below
<1>3. ASSUME NEW w \in Below(At(lev, n - 1))
      PROVE  w \in At(lev, n)
  <2>1. PICK v \in At(lev, n - 1) : w \in Range(children[v])
    BY DEF Below
  <2>2. v \in added /\ lev[v] = n - 1 /\ lev[v] \in Nat
    BY <1>1 DEF At
  <2>3. w \in added /\ lev[w] = lev[v] + 1
    BY <1>1, <2>1, <2>2
  <2>4. lev[w] = n
    BY <2>2, <2>3
  <2> QED
    BY <2>3, <2>4 DEF At
<1> QED
  BY <1>2, <1>3

LEMMA LevelIs ==
  ASSUME NEW anc, NEW lev \in [Word -> Nat], Inv(anc, lev)
  PROVE  \A n \in 0 .. Cardinality(Word) : Level[n] = At(lev, n)
<1> DEFINE N == 0 .. Cardinality(Word)
           F == [n \in N |-> At(lev, n)]
<1>1. Cardinality(Word) \in Nat
  BY BkTreeAssumption, FS_CardinalityType
<1>2. Level = CHOOSE g : g = [n \in N |-> IF n = 0 THEN {root} \ {Null} ELSE Below(g[n - 1])]
  BY DEF Level, Below
<1>3. \A n \in N : n \in Nat /\ (n # 0 => n - 1 \in N)
  BY <1>1
<1> HIDE DEF N
<1>4. F = [n \in N |-> IF n = 0 THEN {root} \ {Null} ELSE Below(F[n - 1])]
  <2>1. ASSUME NEW n \in N
        PROVE  At(lev, n) = IF n = 0 THEN {root} \ {Null} ELSE Below(F[n - 1])
    <3>1. CASE n = 0
      BY <3>1, TopLevel
    <3>2. CASE n # 0
      <4>1. F[n - 1] = At(lev, n - 1)
        BY <1>3, <3>2
      <4>2. At(lev, n) = Below(At(lev, n - 1))
        BY <1>3, <3>2, NextLevel
      <4> QED
        BY <3>2, <4>1, <4>2
    <3> QED
      BY <3>1, <3>2
  <2> QED
    BY <2>1
<1> HIDE DEF F
<1>5. Level = [n \in N |-> IF n = 0 THEN {root} \ {Null} ELSE Below(Level[n - 1])]
  BY <1>2, <1>4
<1> DEFINE B == {n \in N : Level[n] # At(lev, n)}
<1>6. ASSUME B # {} PROVE FALSE
  <2>1. B \in SUBSET Nat
    BY <1>3
  <2>2. PICK m \in B : \A k \in B : m <= k
    BY <1>6, <2>1, LeastNat
  <2>3. m \in N /\ m \in Nat /\ Level[m] # At(lev, m)
    BY <1>3
  <2>4. m # 0
    <3>1. m = 0 => Level[m] = {root} \ {Null}
      BY <1>5, <2>3
    <3> QED
      BY <2>3, <3>1, TopLevel
  <2>5. m - 1 \in N /\ ~(m <= m - 1)
    BY <1>3, <2>3, <2>4
  <2>6. Level[m - 1] = At(lev, m - 1)
    BY <2>2, <2>5
  <2>7. Level[m] = Below(Level[m - 1])
    BY <1>5, <2>3, <2>4
  <2>8. At(lev, m) = Below(At(lev, m - 1))
    BY <2>3, <2>4, NextLevel
  <2> QED
    BY <2>3, <2>6, <2>7, <2>8
<1>7. \A n \in N : Level[n] = At(lev, n)
  BY <1>6
<1> QED
  BY <1>7 DEF N

\* There are no more levels than words.
LEMMA DepthFits ==
  ASSUME NEW anc, NEW lev \in [Word -> Nat], Inv(anc, lev)
  PROVE  depth \in 0 .. Cardinality(Word)
<1>1. /\ depth \in Nat /\ added \subseteq Word
      /\ \A w \in added : lev[w] < depth
      /\ \A n \in 0 .. depth - 1 : \E w \in added : lev[w] = n
  BY DEF Inv, Types, Tree, Levels
<1>2. /\ IsFiniteSet(added) /\ Cardinality(added) <= Cardinality(Word)
      /\ Cardinality(added) \in Nat /\ Cardinality(Word) \in Nat
  <2>1. IsFiniteSet(Word)
    BY BkTreeAssumption
  <2> QED
    BY <1>1, <2>1, FS_Subset, FS_CardinalityType
<1> DEFINE f == [w \in added |-> lev[w]]
<1>3. f \in Surjection(added, 0 .. depth - 1)
  <2>1. \A w \in added : lev[w] \in 0 .. depth - 1
    BY <1>1
  <2>2. f \in [added -> 0 .. depth - 1]
    BY <2>1
  <2>3. ASSUME NEW n \in 0 .. depth - 1
        PROVE  \E w \in added : f[w] = n
    <3>1. PICK w \in added : lev[w] = n
      BY <1>1
    <3>2. f[w] = n
      BY <3>1
    <3> QED
      BY <3>2, Zenon
  <2> QED
    BY <2>2, <2>3, Zenon DEF Surjection
<1> HIDE DEF f
<1>4. Cardinality(0 .. depth - 1) <= Cardinality(added)
  BY <1>2, <1>3, FS_Surjection
<1>5. Cardinality(0 .. depth - 1) = depth
  <2>1. 0 \in Int /\ depth - 1 \in Int
    BY <1>1
  <2>2. Cardinality(0 .. depth - 1) = IF 0 > depth - 1 THEN 0 ELSE (depth - 1) - 0 + 1
    BY <2>1, FS_Interval
  <2> QED
    BY <1>1, <2>2
<1> QED
  BY <1>1, <1>2, <1>4, <1>5

\* depth is the number of levels of the tree, none of which is empty, and every word
\* added is in one.
THEOREM DepthExactHolds == Spec => []DepthExact
<1>1. IInv => DepthExact
  <2> SUFFICES ASSUME IInv PROVE DepthExact
    OBVIOUS
  <2>1. PICK anc \in [Word -> SUBSET Word], lev \in [Word -> Nat] : Inv(anc, lev)
    BY DEF IInv
  <2>2. \A n \in 0 .. Cardinality(Word) : Level[n] = At(lev, n)
    BY <2>1, LevelIs
  <2>3. depth \in 0 .. Cardinality(Word) /\ depth \in Nat /\ Cardinality(Word) \in Nat
    BY <2>1, DepthFits, BkTreeAssumption, FS_CardinalityType DEF Inv, Types
  <2>4. \A n \in 0 .. depth : n \in 0 .. Cardinality(Word) /\ Level[n] = At(lev, n)
    BY <2>2, <2>3
  <2>5. added \subseteq Word /\ \A w \in added : lev[w] < depth /\ lev[w] \in Nat
    BY <2>1 DEF Inv, Types, Tree, Levels
  <2>6. \A n \in 0 .. depth - 1 : \E w \in added : lev[w] = n
    BY <2>1 DEF Inv, Tree, Levels
  <2>7. Level[depth] = {}
    BY <2>3, <2>4, <2>5 DEF At
  <2>8. depth > 0 => Level[depth - 1] # {}
    <3> SUFFICES ASSUME depth > 0 PROVE Level[depth - 1] # {}
      OBVIOUS
    <3>1. depth - 1 \in 0 .. depth /\ depth - 1 \in 0 .. depth - 1
      BY <2>3
    <3>2. PICK w \in added : lev[w] = depth - 1
      BY <2>6, <3>1
    <3> QED
      BY <2>4, <3>1, <3>2 DEF At
  <2>9. added = UNION {Level[n] : n \in 0 .. depth}
    <3>1. ASSUME NEW w \in added
          PROVE  \E n \in 0 .. depth : w \in Level[n]
      <4>1. lev[w] \in 0 .. depth
        BY <2>3, <2>5
      <4> QED
        BY <2>4, <4>1 DEF At
    <3>2. \A n \in 0 .. depth : Level[n] \subseteq added
      BY <2>4 DEF At
    <3> QED
      BY <3>1, <3>2
  <2> QED
    BY <2>7, <2>8, <2>9 DEF DepthExact
<1> QED
  BY <1>1, Invariant, PTL

----------------------------------------------------------------------------
(* A vector on its own, like the one the stack is: made with room for two  *)
(* elements or more it has a slot for every push. With room for one it     *)
(* would not: 1 * 1.5 is cut to 1, so the assumption is the weakest one.   *)

\* How many elements it was made with room for.
CONSTANT Reserved

Array == INSTANCE Vector

\* What a full vector needs to know of its size: the quotient of maybe_resize
\* is 0 until the last slot is to be filled, and 1 then.
LEMMA FillingQuotient ==
  ASSUME NEW c \in Nat, NEW s \in Nat, s < c
  PROVE  (s + 1) \div c = IF s + 1 = c THEN 1 ELSE 0
<1>1. CASE s + 1 = c
  BY <1>1, SMT
<1>2. CASE s + 1 < c
  BY <1>2, SMT
<1>. QED BY <1>1, <1>2

\* One half more is at least one more from two on.
LEMMA HalfMore ==
  ASSUME NEW c \in Nat, c >= 2
  PROVE  /\ (c * 3) \div 2 \in Nat
         /\ (c * 3) \div 2 > c
BY SMT

\* A vector with a free slot, at least two, that is not bigger than it was made
\* unless more than half of that room was used.
VectorInv ==
  /\ size \in Nat
  /\ capacity \in Nat
  /\ capacity >= 2
  /\ size < capacity
  /\ capacity # Reserved => 2 * size > Reserved

LEMMA PushKeepsInv ==
  ASSUME Reserved \in Nat, VectorInv, Array!push
  PROVE  VectorInv'
<1>1. (size + 1) \div capacity = IF size + 1 = capacity THEN 1 ELSE 0
  BY FillingQuotient DEF VectorInv
<1>2. Array!Resized = IF size + 1 = capacity THEN (capacity * 3) \div 2 ELSE capacity
  BY <1>1 DEF Array!Resized
<1>3. (capacity * 3) \div 2 \in Nat /\ (capacity * 3) \div 2 > capacity
  BY HalfMore DEF VectorInv
<1>4. capacity' = Array!Resized /\ size' = size + 1
  BY DEF Array!push
<1>5. CASE size + 1 = capacity
  <2>1. capacity' \in Nat /\ capacity' > capacity
    BY <1>2, <1>3, <1>4, <1>5
  <2>2. 2 * size' > Reserved
    <3>1. CASE capacity = Reserved
      BY <1>4, <1>5, <3>1 DEF VectorInv
    <3>2. CASE capacity # Reserved
      BY <1>4, <3>2 DEF VectorInv
    <3>. QED BY <3>1, <3>2
  <2>. QED BY <2>1, <2>2, <1>4, <1>5 DEF VectorInv
<1>6. CASE size + 1 # capacity
  BY <1>2, <1>4, <1>6 DEF VectorInv
<1>. QED BY <1>5, <1>6

LEMMA VectorInvariant ==
  ASSUME Reserved \in Nat, Reserved >= 2
  PROVE  Array!Spec => []VectorInv
<1>1. Array!Init => VectorInv
  BY DEF Array!Init, VectorInv
<1>2. VectorInv /\ [Array!Next]_(Array!vars) => VectorInv'
  <2>. SUFFICES ASSUME VectorInv, [Array!Next]_(Array!vars) PROVE VectorInv'
    OBVIOUS
  <2>1. CASE Array!push
    BY <2>1, PushKeepsInv
  <2>2. ASSUME NEW index \in 0 .. size, Array!set(index) PROVE VectorInv'
    <3>1. CASE index < size
      BY <2>2, <3>1 DEF Array!set, Array!vars, VectorInv
    <3>2. CASE ~(index < size)
      BY <2>2, <3>2, PushKeepsInv DEF Array!set
    <3>. QED BY <3>1, <3>2
  <2>3. CASE UNCHANGED Array!vars
    BY <2>3 DEF Array!vars, VectorInv
  <2>. QED BY <2>1, <2>2, <2>3 DEF Array!Next
<1>. QED BY <1>1, <1>2, PTL DEF Array!Spec

\* push, which checks nothing, and set at the next index always find a slot.
THEOREM HasSlotHolds ==
  ASSUME Reserved \in Nat, Reserved >= 2
  PROVE  Array!Spec => []Array!HasSlot
<1>1. VectorInv => Array!HasSlot
  BY DEF VectorInv, Array!HasSlot
<1>. QED BY <1>1, VectorInvariant, PTL

\* The array of a vector filled to at most half of the room it was made with is
\* the one it was made with: the threads scheduler::scheduler starts while it
\* fills its vector of 2 * capacity keep good pointers to their workers.
THEOREM StaysPutHolds ==
  ASSUME Reserved \in Nat, Reserved >= 2
  PROVE  Array!Spec => []Array!StaysPut
<1>1. VectorInv => Array!StaysPut
  BY DEF VectorInv, Array!StaysPut
<1>. QED BY <1>1, VectorInvariant, PTL

=============================================================================
