-------------------------- MODULE HashTableProofs --------------------------
(***************************************************************************)
(* What MCHashTable checks for five keys holds of any table: for every     *)
(* hash function, every list of primes and any number of keys, calls and   *)
(* removals.                                                               *)
(*                                                                         *)
(* A table t is the record that insert and resize work on. The invariant   *)
(* says of every key, except those that a remove has cut off, that the     *)
(* slots before it on its probe hold other keys.                           *)
(***************************************************************************)
EXTENDS HashTable, FiniteSetTheorems, WellFoundedInduction, TLAPS

Slot(t) == 0 .. t.capacity - 1
Full(t) == {i \in Slot(t) : t.keys[i] # Empty}

Shaped(t) ==
  /\ t = [keys |-> t.keys, values |-> t.values, size |-> t.size, capacity |-> t.capacity]
  /\ t.capacity \in Nat
  /\ t.keys \in [Slot(t) -> Key \cup {Empty}]
  /\ t.values \in [Slot(t) -> Value \cup {Empty}]
  /\ \A i \in Slot(t) : t.keys[i] # Empty => t.values[i] \in Value

Counted(t) == t.size = Cardinality(Full(t))

\* None of the first n slots on the probe of key k is free or holds k.
Passes(t, k, n) ==
  \A m \in 0 .. n - 1 : t.keys[Probe(k, t.capacity, m)] \notin {Empty, k}

\* The probe of key k comes to slot i and does not end before.
Reached(t, k, i) == \E n \in Slot(t) : i = Probe(k, t.capacity, n) /\ Passes(t, k, n)

\* Every key that is not in C is where its probe ends.
InReach(t, C) ==
  \A i \in Slot(t) : t.keys[i] \in Key /\ t.keys[i] \notin C => Reached(t, t.keys[i], i)

In(t, k) == \E i \in Slot(t) : t.keys[i] = k

\* Of the keys that are not in C, the table has those of the map con.
Stores(t, C, con) ==
  \A k \in Key : k \notin C =>
     /\ con[k] # Empty => In(t, k)
     /\ \A i \in Slot(t) : t.keys[i] = k => t.values[i] = con[k] /\ con[k] # Empty

Maps == [Key -> Value \cup {Empty}]

----------------------------------------------------------------------------
\* The remainder is the only one.
LEMMA Remainder ==
  ASSUME NEW c \in Nat, c > 0, NEW r \in 0 .. c - 1, NEW q \in Int
  PROVE  (c * q + r) % c = r
  BY SMT

\* A probe goes up slot by slot and goes round once at the most.
LEMMA RoundTheEnd ==
  ASSUME NEW c \in Nat, c > 0, NEW h \in Nat, NEW i \in 0 .. c - 1
  PROVE  /\ h % c \in 0 .. c - 1
         /\ (h + i) % c = IF (h % c) + i < c THEN (h % c) + i ELSE (h % c) + i - c
<1> DEFINE q == h \div c
           r == h % c
<1>1. h = c * q + r /\ q \in Nat /\ r \in 0 .. c - 1
  BY SMT
<1> HIDE DEF q, r
<1>2. CASE r + i < c
  <2>1. h + i = c * q + (r + i) /\ r + i \in 0 .. c - 1
    BY <1>1, <1>2, SMT
  <2>2. (c * q + (r + i)) % c = r + i
    BY <1>1, <2>1, Remainder
  <2> QED
    BY <1>1, <1>2, <2>1, <2>2 DEF r
<1>3. CASE ~(r + i < c)
  <2>1. r + i - c \in 0 .. c - 1 /\ q + 1 \in Int
    BY <1>1, <1>3, SMT
  <2>2. h + i = c * (q + 1) + (r + i - c)
    BY <1>1, <1>3, SMT
  <2>3. (c * (q + 1) + (r + i - c)) % c = r + i - c
    BY <2>1, Remainder
  <2> QED
    BY <1>1, <1>3, <2>2, <2>3 DEF r
<1> QED
  BY <1>2, <1>3

\* A probe stays in the table.
LEMMA ProbeInside ==
  ASSUME NEW k \in Key, NEW c \in Nat, c > 0, NEW i \in 0 .. c - 1
  PROVE  Probe(k, c, i) \in 0 .. c - 1
<1>1. Hash[k] \in Nat
  BY HashTableAssumption
<1>2. /\ Hash[k] % c \in 0 .. c - 1
      /\ (Hash[k] + i) % c = IF (Hash[k] % c) + i < c THEN (Hash[k] % c) + i
                         ELSE (Hash[k] % c) + i - c
  BY <1>1, RoundTheEnd
<1> HIDE DEF Probe
<1>3. Probe(k, c, i) = (Hash[k] + i) % c
  BY DEF Probe
<1> QED
  BY <1>2, <1>3, SMT

\* The number of steps from a key's home slot to slot p.
Steps(k, c, p) == (p + c - Probe(k, c, 0)) % c

\* A probe comes to every slot, and Steps tells when.
LEMMA ProbeComesBy ==
  ASSUME NEW k \in Key, NEW c \in Nat, c > 0
  PROVE  /\ \A n \in 0 .. c - 1 : Steps(k, c, Probe(k, c, n)) = n
         /\ \A p \in 0 .. c - 1 : \E n \in 0 .. c - 1 : p = Probe(k, c, n)
<1> DEFINE h == Hash[k]
           r == Hash[k] % c
<1>1. h \in Nat /\ 0 \in 0 .. c - 1
  BY HashTableAssumption, SMT
<1>2. r \in 0 .. c - 1
  BY <1>1, RoundTheEnd
<1>3. ASSUME NEW n \in 0 .. c - 1
      PROVE  Probe(k, c, n) = IF r + n < c THEN r + n ELSE r + n - c
  BY <1>1, RoundTheEnd DEF Probe
<1>4. Probe(k, c, 0) = r
  BY <1>1, <1>2, <1>3, SMT
<1> HIDE DEF h, r
<1>5. ASSUME NEW n \in 0 .. c - 1
      PROVE  Steps(k, c, Probe(k, c, n)) = n
  <2>1. CASE r + n < c
    <3>1. Probe(k, c, n) + c - r = c * 1 + n
      BY <1>2, <1>3, <2>1, SMT
    <3>2. (c * 1 + n) % c = n
      BY Remainder
    <3> QED
      BY <1>4, <3>1, <3>2 DEF Steps
  <2>2. CASE ~(r + n < c)
    <3>1. Probe(k, c, n) + c - r = c * 0 + n
      BY <1>2, <1>3, <2>2, SMT
    <3>2. (c * 0 + n) % c = n
      BY Remainder
    <3> QED
      BY <1>4, <3>1, <3>2 DEF Steps
  <2> QED
    BY <2>1, <2>2
<1>6. ASSUME NEW p \in 0 .. c - 1
      PROVE  \E n \in 0 .. c - 1 : p = Probe(k, c, n)
  <2>1. CASE r <= p
    <3>1. p - r \in 0 .. c - 1 /\ r + (p - r) = p /\ p < c
      BY <1>2, <2>1, SMT
    <3>2. Probe(k, c, p - r) = p
      BY <1>3, <3>1
    <3> QED
      BY <3>1, <3>2
  <2>2. CASE p < r
    <3>1. p - r + c \in 0 .. c - 1 /\ r + (p - r + c) - c = p /\ ~(r + (p - r + c) < c)
      BY <1>2, <2>2, SMT
    <3>2. Probe(k, c, p - r + c) = p
      BY <1>3, <3>1
    <3> QED
      BY <3>1, <3>2
  <2> QED
    BY <1>2, <2>1, <2>2, SMT
<1> QED
  BY <1>5, <1>6

----------------------------------------------------------------------------
\* A set of natural numbers has a least one.
LEMMA LeastNat ==
  ASSUME NEW N \in SUBSET Nat, N # {}
  PROVE  \E m \in N : \A k \in N : m <= k
<1>1. IsWellFoundedOn(OpToRel(<, Nat), Nat)
  BY NatLessThanWellFounded
<1>2. PICK x \in N : \A y \in N : <<y, x>> \notin OpToRel(<, Nat)
  BY <1>1, WFMin
<1>3. ASSUME NEW y \in N PROVE x <= y
  <2>1. OpToRel(<, Nat) = {ss \in Nat \X Nat : ss[1] < ss[2]}
    BY DEF OpToRel
  <2>2. <<y, x>> \notin {ss \in Nat \X Nat : ss[1] < ss[2]}
    BY <1>2, <2>1
  <2>3. <<y, x>> \in Nat \X Nat /\ x \in Nat /\ y \in Nat
    OBVIOUS
  <2>4. ~(y < x)
    BY <2>2, <2>3
  <2> QED
    BY <2>3, <2>4
<1> QED
  BY <1>3

\* So has one that is given as a part of an interval, and Min is it.
LEMMA MinIs ==
  ASSUME NEW N \in SUBSET Nat, N # {}
  PROVE  Min(N) \in N /\ \A k \in N : Min(N) <= k
  BY LeastNat DEF Min

\* The next prime is at least four and no less than what was asked for.
LEMMA PrimeIsLarger ==
  ASSUME NEW n \in Nat
  PROVE  /\ find_prime(n) \in Nat
         /\ find_prime(n) >= n
         /\ n >= 4 => find_prime(n) >= 4
<1> DEFINE larger == {i \in DOMAIN Primes : n < Primes[i]}
<1>1. Primes \in Seq(Nat \ (0 .. 3)) /\ DOMAIN Primes = 1 .. Len(Primes) /\ Len(Primes) \in Nat
  BY HashTableAssumption
<1>2. CASE larger = {}
  BY <1>2 DEF find_prime
<1>3. CASE larger # {}
  <2>1. larger \in SUBSET Nat
    BY <1>1, SMT
  <2>2. Min(larger) \in larger
    BY <1>3, <2>1, MinIs
  <2>3. find_prime(n) = Primes[Min(larger)]
    BY <1>3 DEF find_prime
  <2> HIDE DEF larger
  <2>4. Min(larger) \in 1 .. Len(Primes) /\ n < Primes[Min(larger)]
    BY <1>1, <2>2 DEF larger
  <2>5. Primes[Min(larger)] \in Nat \ (0 .. 3)
    BY <1>1, <2>4
  <2> QED
    BY <2>3, <2>4, <2>5, SMT
<1> QED
  BY <1>2, <1>3

\* find_available_position: it passes slots that hold other keys, and stops at
\* the first that is free or holds the key. If there is none, it says so.
LEMMA FindStops ==
  ASSUME NEW t, t.capacity \in Nat, t.capacity > 0, NEW k \in Key
  PROVE  LET pos == find_available_position(t.keys, t.capacity, k)
         IN  \/ pos = NoPosition /\ Passes(t, k, t.capacity)
             \/ \E n \in Slot(t) : /\ pos = Probe(k, t.capacity, n)
                                   /\ t.keys[pos] \in {Empty, k}
                                   /\ Passes(t, k, n)
<1> DEFINE cap == t.capacity
           stops == {i \in 0 .. cap - 1 : t.keys[Probe(k, cap, i)] \in {Empty, k}}
           pos == find_available_position(t.keys, t.capacity, k)
<1>1. CASE stops = {}
  <2>1. pos = NoPosition
    BY <1>1 DEF find_available_position
  <2>2. Passes(t, k, t.capacity)
    BY <1>1 DEF Passes
  <2> QED
    BY <2>1, <2>2
<1>2. CASE stops # {}
  <2>1. stops \in SUBSET Nat
    BY SMT
  <2>2. Min(stops) \in stops /\ \A j \in stops : Min(stops) <= j
    BY <1>2, <2>1, MinIs
  <2>3. pos = Probe(k, cap, Min(stops))
    BY <1>2 DEF find_available_position
  <2>4. PICK n \in 0 .. cap - 1 : n = Min(stops)
    BY <2>2
  <2>5. t.keys[Probe(k, cap, n)] \in {Empty, k}
    BY <2>2, <2>4
  <2>6. \A m \in 0 .. n - 1 : t.keys[Probe(k, cap, m)] \notin {Empty, k}
    <3> SUFFICES ASSUME NEW m \in 0 .. n - 1, t.keys[Probe(k, cap, m)] \in {Empty, k}
                 PROVE  FALSE
      OBVIOUS
    <3>1. m \in 0 .. cap - 1 /\ ~(n <= m)
      BY <2>4, SMT
    <3>2. m \in stops
      BY <3>1
    <3> QED
      BY <2>2, <2>4, <3>1, <3>2
  <2>7. n \in Slot(t) /\ Passes(t, k, n)
    BY <2>4, <2>6 DEF Slot, Passes
  <2> QED
    BY <2>3, <2>4, <2>5, <2>7
<1> QED
  BY <1>1, <1>2

\* The probe of a key that is where its probe ends finds it there.
LEMMA FindsWhatIsThere ==
  ASSUME NEW t, t.capacity \in Nat, t.capacity > 0, Empty \notin Key,
         NEW k \in Key, NEW i \in Slot(t), t.keys[i] = k, Reached(t, k, i)
  PROVE  find_available_position(t.keys, t.capacity, k) = i
<1> DEFINE pos == find_available_position(t.keys, t.capacity, k)
<1>1. PICK n \in Slot(t) : i = Probe(k, t.capacity, n) /\ Passes(t, k, n)
  BY DEF Reached
<1>2. n \in 0 .. t.capacity - 1
  BY DEF Slot
<1>3. CASE pos = NoPosition /\ Passes(t, k, t.capacity)
  BY <1>1, <1>2, <1>3 DEF Passes
<1>4. CASE \E n2 \in Slot(t) : /\ pos = Probe(k, t.capacity, n2)
                               /\ t.keys[pos] \in {Empty, k}
                               /\ Passes(t, k, n2)
  <2>1. PICK n2 \in Slot(t) : /\ pos = Probe(k, t.capacity, n2)
                              /\ t.keys[pos] \in {Empty, k}
                              /\ Passes(t, k, n2)
    BY <1>4
  <2> HIDE DEF pos
  <2>2. n2 \in 0 .. t.capacity - 1
    BY DEF Slot
  <2>3. CASE n < n2
    <3>1. n \in 0 .. n2 - 1
      BY <1>2, <2>2, <2>3, SMT
    <3> QED
      BY <1>1, <2>1, <3>1 DEF Passes
  <2>4. CASE n2 < n
    <3>1. n2 \in 0 .. n - 1
      BY <1>2, <2>2, <2>4, SMT
    <3> QED
      BY <1>1, <2>1, <3>1 DEF Passes
  <2>5. CASE n = n2
    BY <1>1, <2>1, <2>5 DEF pos
  <2> QED
    BY <1>2, <2>2, <2>3, <2>4, <2>5, SMT
<1> QED
  BY <1>3, <1>4, FindStops

\* In a table that has a free slot every probe ends.
LEMMA ProbeEnds ==
  ASSUME NEW t, t.capacity \in Nat, NEW k \in Key, NEW e \in Slot(t), t.keys[e] = Empty
  PROVE  LET pos == find_available_position(t.keys, t.capacity, k)
         IN  \E n \in Slot(t) : /\ pos = Probe(k, t.capacity, n)
                                /\ pos \in Slot(t)
                                /\ t.keys[pos] \in {Empty, k}
                                /\ Passes(t, k, n)
<1> DEFINE pos == find_available_position(t.keys, t.capacity, k)
<1>1. t.capacity > 0 /\ Slot(t) = 0 .. t.capacity - 1
  BY SMT DEF Slot
<1>2. PICK n \in Slot(t) : e = Probe(k, t.capacity, n)
  <2>1. \A p \in 0 .. t.capacity - 1 : \E n \in 0 .. t.capacity - 1 : p = Probe(k, t.capacity, n)
    BY <1>1, ProbeComesBy
  <2> QED
    BY <1>1, <2>1, Zenon
<1>3. ~Passes(t, k, t.capacity)
  BY <1>1, <1>2 DEF Passes
<1>4. PICK n2 \in Slot(t) : /\ pos = Probe(k, t.capacity, n2)
                            /\ t.keys[pos] \in {Empty, k}
                            /\ Passes(t, k, n2)
  BY <1>1, <1>3, FindStops
<1>5. Probe(k, t.capacity, n2) \in Slot(t)
  BY <1>1, ProbeInside
<1> QED
  BY <1>4, <1>5

\* A table with room has a free slot.
LEMMA FreeSlot ==
  ASSUME NEW t, Shaped(t), Counted(t), t.size < t.capacity
  PROVE  \E e \in Slot(t) : t.keys[e] = Empty
<1>1. t.capacity \in Nat /\ Slot(t) = 0 .. t.capacity - 1
  BY DEF Shaped, Slot
<1>2. Cardinality(Slot(t)) = t.capacity
  <2>1. 0 \in Int /\ t.capacity - 1 \in Int
    BY <1>1, SMT
  <2>2. Cardinality(0 .. t.capacity - 1) = IF 0 > t.capacity - 1 THEN 0 ELSE t.capacity - 1 - 0 + 1
    BY <2>1, FS_Interval
  <2> QED
    BY <1>1, <2>2, SMT
<1>3. ASSUME Full(t) = Slot(t) PROVE FALSE
  BY <1>1, <1>2, <1>3, SMT DEF Counted
<1> QED
  BY <1>3 DEF Full

\* The new key is put into a free slot, and the key of every other slot stays.
Put(t, u, k, v, pos) ==
  /\ u.capacity = t.capacity
  /\ u.size = t.size + 1
  /\ pos \in Slot(t) /\ t.keys[pos] = Empty
  /\ u.keys = [t.keys EXCEPT ![pos] = k]
  /\ u.values = [t.values EXCEPT ![pos] = v]
  /\ Reached(t, k, pos)

\* What Place does to a table with a free slot: nothing if it finds the key.
LEMMA PlaceDoes ==
  ASSUME NEW t, Shaped(t), NEW k \in Key, NEW v \in Value, NEW e \in Slot(t), t.keys[e] = Empty
  PROVE  \/ Place(t, k, v) = t /\ In(t, k)
         \/ \E pos \in Slot(t) : Put(t, Place(t, k, v), k, v, pos) /\ Shaped(Place(t, k, v))
<1> DEFINE pos == find_available_position(t.keys, t.capacity, k)
           u == Place(t, k, v)
<1>1. t.capacity \in Nat
  BY DEF Shaped
<1>2. PICK n \in Slot(t) : /\ pos = Probe(k, t.capacity, n)
                           /\ pos \in Slot(t)
                           /\ t.keys[pos] \in {Empty, k}
                           /\ Passes(t, k, n)
  BY <1>1, ProbeEnds
<1>3. CASE t.keys[pos] # Empty
  BY <1>2, <1>3 DEF Place, In
<1>4. CASE t.keys[pos] = Empty
  <2>1. u = [t EXCEPT !.keys[pos] = k, !.values[pos] = v, !.size = @ + 1]
    BY <1>4 DEF Place
  <2> HIDE DEF pos
  <2>2. t = [keys |-> t.keys, values |-> t.values, size |-> t.size, capacity |-> t.capacity]
    BY DEF Shaped
  <2>3. u = [keys |-> [t.keys EXCEPT ![pos] = k], values |-> [t.values EXCEPT ![pos] = v],
             size |-> t.size + 1, capacity |-> t.capacity]
    BY <2>1, <2>2
  <2> HIDE DEF u
  <2>4. /\ u.keys = [t.keys EXCEPT ![pos] = k]
        /\ u.values = [t.values EXCEPT ![pos] = v]
        /\ u.size = t.size + 1 /\ u.capacity = t.capacity
    BY <2>3
  <2>5. Slot(u) = Slot(t)
    BY <2>4 DEF Slot
  <2>6. /\ u.keys \in [Slot(u) -> Key \cup {Empty}]
        /\ u.values \in [Slot(u) -> Value \cup {Empty}]
        /\ \A i \in Slot(u) : u.keys[i] # Empty => u.values[i] \in Value
    BY <1>2, <2>4, <2>5 DEF Shaped
  <2>7. u = [keys |-> u.keys, values |-> u.values, size |-> u.size, capacity |-> u.capacity]
    BY <2>3, <2>4
  <2>8. Shaped(u)
    BY <1>1, <2>4, <2>6, <2>7 DEF Shaped
  <2>9. Reached(t, k, pos)
    BY <1>2 DEF Reached
  <2>10. pos \in Slot(t) /\ Put(t, u, k, v, pos)
    BY <1>2, <1>4, <2>4, <2>9 DEF Put
  <2> QED
    BY <2>8, <2>10, Zenon DEF u
<1> QED
  BY <1>3, <1>4

\* Then the number of keys is one more,
LEMMA PutCounts ==
  ASSUME NEW t, NEW u, Shaped(t), Counted(t), NEW k \in Key, NEW v \in Value, NEW pos, Put(t, u, k, v, pos)
  PROVE  Counted(u)
<1>1. t.capacity \in Nat /\ t.keys \in [Slot(t) -> Key \cup {Empty}] /\ Empty \notin Key
  BY HashTableAssumption DEF Shaped
<1>2. Slot(u) = Slot(t) /\ pos \in Slot(t)
  BY DEF Slot, Put
<1>3. Full(u) = Full(t) \cup {pos} /\ pos \notin Full(t)
  BY <1>1, <1>2 DEF Full, Put
<1>4. IsFiniteSet(Full(t))
  <2>1. IsFiniteSet(0 .. t.capacity - 1)
    BY <1>1, FS_Interval, SMT
  <2>2. Full(t) \in SUBSET (0 .. t.capacity - 1)
    BY DEF Full, Slot
  <2> QED
    BY <2>1, <2>2, FS_Subset
<1>5. Cardinality(Full(t) \cup {pos}) = Cardinality(Full(t)) + 1
  BY <1>3, <1>4, FS_AddElement
<1> QED
  BY <1>3, <1>5 DEF Counted, Put

\* the keys that were in reach are so still, and so is the new one,
LEMMA PutInReach ==
  ASSUME NEW t, NEW u, Shaped(t), NEW C, InReach(t, C), 
         NEW k \in Key, NEW v \in Value, NEW pos, Put(t, u, k, v, pos)
  PROVE  InReach(u, C)
<1>1. /\ t.capacity \in Nat /\ t.keys \in [Slot(t) -> Key \cup {Empty}]
      /\ Empty \notin Key
      /\ Slot(u) = Slot(t) /\ u.capacity = t.capacity
      /\ pos \in Slot(t) /\ t.keys[pos] = Empty /\ u.keys = [t.keys EXCEPT ![pos] = k]
  BY HashTableAssumption DEF Shaped, Slot, Put
<1>2. ASSUME NEW k2 \in Key, NEW n \in Slot(t), Passes(t, k2, n), NEW m \in 0 .. n - 1
      PROVE  /\ Probe(k2, t.capacity, m) # pos
             /\ u.keys[Probe(k2, t.capacity, m)] = t.keys[Probe(k2, t.capacity, m)]
  <2>1. n \in 0 .. t.capacity - 1
    BY DEF Slot
  <2>2. t.keys[Probe(k2, t.capacity, m)] # Empty
    BY <1>2 DEF Passes
  <2>3. m \in 0 .. t.capacity - 1 /\ t.capacity > 0
    BY <1>1, <2>1, SMT
  <2>4. Probe(k2, t.capacity, m) \in Slot(t)
    BY <1>1, <2>3, ProbeInside DEF Slot
  <2> QED
    BY <1>1, <2>2, <2>4
<1>3. ASSUME NEW k2 \in Key, NEW i, Reached(t, k2, i) PROVE Reached(u, k2, i)
  <2>1. PICK n \in Slot(t) : i = Probe(k2, t.capacity, n) /\ Passes(t, k2, n)
    BY <1>3 DEF Reached
  <2>2. Passes(u, k2, n)
    BY <1>1, <1>2, <2>1 DEF Passes
  <2> QED
    BY <1>1, <2>1, <2>2 DEF Reached
<1>4. ASSUME NEW i \in Slot(u), u.keys[i] \in Key, u.keys[i] \notin C
      PROVE  Reached(u, u.keys[i], i)
  <2>1. CASE i = pos
    <3>1. u.keys[i] = k /\ Reached(t, k, i)
      BY <1>1, <2>1 DEF Put
    <3> QED
      BY <1>3, <3>1
  <2>2. CASE i # pos
    <3>1. u.keys[i] = t.keys[i] /\ i \in Slot(t)
      BY <1>1, <1>4, <2>2
    <3>2. Reached(t, t.keys[i], i)
      BY <1>4, <3>1 DEF InReach
    <3> QED
      BY <1>3, <1>4, <3>1, <3>2
  <2> QED
    BY <2>1, <2>2
<1> QED
  BY <1>4 DEF InReach

\* A key that is not cut off is not in the table if its probe ends in a free slot.
LEMMA FreeMeansAbsent ==
  ASSUME NEW t, Shaped(t), NEW C, InReach(t, C), NEW k \in Key, k \notin C,
         NEW pos \in Slot(t), t.keys[pos] = Empty, Reached(t, k, pos)
  PROVE  ~In(t, k)
<1> SUFFICES ASSUME NEW i \in Slot(t), t.keys[i] = k
             PROVE  FALSE
  BY DEF In
<1>1. t.capacity \in Nat /\ Empty \notin Key
  BY HashTableAssumption DEF Shaped
<1>2. Reached(t, k, i)
  BY DEF InReach
<1>3. PICK n \in Slot(t) : i = Probe(k, t.capacity, n) /\ Passes(t, k, n)
  BY <1>2 DEF Reached
<1>4. PICK m \in Slot(t) : pos = Probe(k, t.capacity, m) /\ Passes(t, k, m)
  BY DEF Reached
<1>5. n \in 0 .. t.capacity - 1 /\ m \in 0 .. t.capacity - 1
  BY DEF Slot
<1>6. CASE n < m
  <2>1. n \in 0 .. m - 1
    BY <1>5, <1>6, SMT
  <2> QED
    BY <1>3, <1>4, <2>1 DEF Passes
<1>7. CASE m < n
  <2>1. m \in 0 .. n - 1
    BY <1>5, <1>7, SMT
  <2> QED
    BY <1>3, <1>4, <2>1 DEF Passes
<1>8. CASE m = n
  BY <1>1, <1>3, <1>4, <1>8
<1> QED
  BY <1>5, <1>6, <1>7, <1>8, SMT

\* and the map has the new key too.
LEMMA PutStores ==
  ASSUME NEW t, NEW u, Shaped(t), NEW C, InReach(t, C), NEW con \in Maps, Stores(t, C, con),
         NEW k \in Key, NEW v \in Value, NEW pos, Put(t, u, k, v, pos)
  PROVE  Stores(u, C, [con EXCEPT ![k] = IF @ = Empty THEN v ELSE @])
<1> DEFINE new == [con EXCEPT ![k] = IF @ = Empty THEN v ELSE @]
<1>1. /\ t.keys \in [Slot(t) -> Key \cup {Empty}] /\ t.values \in [Slot(t) -> Value \cup {Empty}]
      /\ Empty \notin Key /\ Empty \notin Value
      /\ Slot(u) = Slot(t)
      /\ pos \in Slot(t) /\ t.keys[pos] = Empty
      /\ u.keys = [t.keys EXCEPT ![pos] = k] /\ u.values = [t.values EXCEPT ![pos] = v]
      /\ con \in [Key -> Value \cup {Empty}]
  BY HashTableAssumption DEF Shaped, Slot, Put, Maps
<1>2. u.keys[pos] = k /\ u.values[pos] = v
  BY <1>1
<1>3. \A i \in Slot(t) : i # pos => u.keys[i] = t.keys[i] /\ u.values[i] = t.values[i]
  BY <1>1
<1>4. \A j \in Key : j # k => new[j] = con[j]
  BY <1>1
<1>5. k \notin C => new[k] = v /\ ~In(t, k)
  <2> SUFFICES ASSUME k \notin C PROVE new[k] = v /\ ~In(t, k)
    OBVIOUS
  <2>1. ~In(t, k)
    BY <1>1, FreeMeansAbsent DEF Put
  <2>2. con[k] = Empty
    BY <2>1 DEF Stores
  <2> QED
    BY <1>1, <2>1, <2>2
<1> HIDE DEF new
<1> SUFFICES ASSUME NEW j \in Key, j \notin C
             PROVE  /\ new[j] # Empty => In(u, j)
                    /\ \A i \in Slot(u) : u.keys[i] = j => u.values[i] = new[j] /\ new[j] # Empty
  BY DEF Stores, new
<1>6. CASE j = k
  <2>1. In(u, j)
    BY <1>1, <1>2, <1>6 DEF In
  <2>2. \A i \in Slot(u) : u.keys[i] = j => i = pos
    BY <1>1, <1>3, <1>5, <1>6 DEF In
  <2> QED
    BY <1>1, <1>2, <1>5, <1>6, <2>1, <2>2
<1>7. CASE j # k
  <2>1. /\ con[j] # Empty => In(t, j)
        /\ \A i \in Slot(t) : t.keys[i] = j => t.values[i] = con[j] /\ con[j] # Empty
    BY DEF Stores
  <2>2. In(t, j) => In(u, j)
    BY <1>1, <1>3 DEF In
  <2>3. \A i \in Slot(u) : u.keys[i] = j => i # pos /\ t.keys[i] = j /\ u.values[i] = t.values[i]
    BY <1>1, <1>2, <1>3, <1>7
  <2> QED
    BY <1>1, <1>4, <1>7, <2>1, <2>2, <2>3
<1> QED
  BY <1>6, <1>7

----------------------------------------------------------------------------
\* The table t is right about the keys that are not in C.
Good(t, C, con) == Shaped(t) /\ Counted(t) /\ InReach(t, C) /\ Stores(t, C, con)

\* No key moves.
Keeps(t, u) == \A i \in Slot(t) : t.keys[i] # Empty => u.keys[i] = t.keys[i]

With(con, k, v) == [con EXCEPT ![k] = IF @ = Empty THEN v ELSE @]

\* Place leaves such a table right, with at most one key more.
LEMMA PlaceIsRight ==
  ASSUME NEW t, NEW C, NEW con \in Maps, Good(t, C, con), t.size < t.capacity,
         NEW k \in Key, NEW v \in Value
  PROVE  /\ Good(Place(t, k, v), C, With(con, k, v))
         /\ Place(t, k, v).capacity = t.capacity
         /\ Place(t, k, v).size \in {t.size, t.size + 1}
         /\ Keeps(t, Place(t, k, v))
<1> DEFINE u == Place(t, k, v)
           new == With(con, k, v)
<1>1. Shaped(t) /\ Counted(t) /\ InReach(t, C) /\ Stores(t, C, con)
  BY DEF Good
<1>2. PICK e \in Slot(t) : t.keys[e] = Empty
  BY <1>1, FreeSlot
<1>3. \/ u = t /\ In(t, k)
      \/ \E pos \in Slot(t) : Put(t, u, k, v, pos) /\ Shaped(u)
  BY <1>1, <1>2, PlaceDoes
<1> HIDE DEF u
<1>4. CASE u = t /\ In(t, k)
  <2>1. /\ new \in Maps
        /\ \A j \in Key : con[j] # Empty \/ j # k => new[j] = con[j]
    BY DEF Maps, With
  <2>2. k \notin C => con[k] # Empty
    BY <1>1, <1>4 DEF Stores, In
  <2>3. \A j \in Key : j \notin C => new[j] = con[j]
    BY <2>1, <2>2
  <2> HIDE DEF new
  <2>4. Stores(t, C, new)
    BY <1>1, <2>3 DEF Stores
  <2> QED
    BY <1>1, <1>4, <2>4 DEF Good, Keeps, u, new
<1>5. CASE \E pos \in Slot(t) : Put(t, u, k, v, pos) /\ Shaped(u)
  <2>1. PICK pos \in Slot(t) : Put(t, u, k, v, pos) /\ Shaped(u)
    BY <1>5
  <2>2. Counted(u)
    BY <1>1, <2>1, PutCounts
  <2>3. InReach(u, C)
    BY <1>1, <2>1, PutInReach
  <2>4. Stores(u, C, new)
    BY <1>1, <2>1, PutStores DEF With
  <2>5. u.capacity = t.capacity /\ u.size = t.size + 1
    BY <2>1 DEF Put
  <2>6. Keeps(t, u)
    BY <1>1, <2>1 DEF Put, Keeps, Shaped
  <2> HIDE DEF new
  <2> QED
    BY <2>1, <2>2, <2>3, <2>4, <2>5, <2>6 DEF Good, u, new
<1> QED
  BY <1>3, <1>4, <1>5

\* A new table is right about every key: it has none.
LEMMA EmptyIsRight ==
  ASSUME NEW cap \in Nat, NEW C, NEW con \in Maps, \A k \in Key : con[k] = Empty
  PROVE  /\ Good(EmptyTable(cap), C, con)
         /\ EmptyTable(cap).capacity = cap
         /\ EmptyTable(cap).size = 0
<1> DEFINE t == EmptyTable(cap)
<1>1. /\ t.capacity = cap /\ t.size = 0
      /\ t.keys = [i \in 0 .. cap - 1 |-> Empty]
      /\ t.values = [i \in 0 .. cap - 1 |-> Empty]
      /\ t = [keys |-> t.keys, values |-> t.values, size |-> t.size, capacity |-> t.capacity]
  BY DEF EmptyTable
<1> HIDE DEF t
<1>2. Shaped(t)
  BY <1>1 DEF Shaped, Slot
<1>3. \A i \in Slot(t) : t.keys[i] = Empty
  BY <1>1 DEF Slot
<1>4. Counted(t)
  <2>1. Full(t) = {}
    BY <1>3 DEF Full
  <2> QED
    BY <1>1, <2>1, FS_EmptySet DEF Counted
<1>5. InReach(t, C) /\ Stores(t, C, con)
  BY <1>3, HashTableAssumption DEF InReach, Stores
<1> QED
  BY <1>1, <1>2, <1>4, <1>5 DEF Good, t

----------------------------------------------------------------------------
\* resize, slot by slot: f is the table after the first i - 1 of them.
Moved(f, i) ==
  IF i = 0 THEN EmptyTable(find_prime(2 * capacity))
  ELSE IF keys[i - 1] = Empty THEN f[i - 1]
  ELSE Place(f[i - 1], keys[i - 1], values[i - 1])

\* The recursion has a solution, and Rehashed is its last value.
LEMMA RehashedIs ==
  ASSUME capacity \in Nat
  PROVE  \E f : /\ \A i \in 0 .. capacity : f[i] = Moved(f, i)
                /\ Rehashed = f[capacity]
<1> DEFINE Solved(n) == \E g : g = [i \in 0 .. n |-> Moved(g, i)]
           N == {n \in Nat : ~Solved(n)}
<1>1. Solved(0)
  <2>1. \A g : \A i \in 0 .. 0 : Moved(g, i) = EmptyTable(find_prime(2 * capacity))
    BY SMT DEF Moved
  <2> DEFINE h == [i \in 0 .. 0 |-> EmptyTable(find_prime(2 * capacity))]
  <2>2. h = [i \in 0 .. 0 |-> Moved(h, i)]
    BY <2>1
  <2> QED
    BY <2>2
<1>2. ASSUME NEW n \in Nat, Solved(n) PROVE Solved(n + 1)
  <2>1. PICK g : g = [i \in 0 .. n |-> Moved(g, i)]
    BY <1>2
  <2> DEFINE h == [i \in 0 .. n + 1 |-> IF i = n + 1 THEN Moved(g, n + 1) ELSE g[i]]
  <2>2. \A i \in 0 .. n + 1 : i # 0 => i - 1 \in 0 .. n /\ h[i - 1] = g[i - 1]
    BY SMT
  <2>3. ASSUME NEW i \in 0 .. n + 1 PROVE h[i] = Moved(h, i)
    <3>1. Moved(h, i) = Moved(g, i)
      <4> HIDE DEF h
      <4> QED
        BY <2>2 DEF Moved
    <3>2. CASE i = n + 1
      BY <3>1, <3>2
    <3>3. CASE i # n + 1
      <4>1. i \in 0 .. n
        BY <3>3, SMT
      <4>2. h[i] = g[i]
        BY <3>3
      <4> HIDE DEF h
      <4>3. g[i] = Moved(g, i)
        BY <2>1, <4>1, Zenon
      <4> QED
        BY <3>1, <4>2, <4>3
    <3> QED
      BY <3>2, <3>3
  <2>4. h = [i \in 0 .. n + 1 |-> h[i]]
    OBVIOUS
  <2> HIDE DEF h
  <2>5. h = [i \in 0 .. n + 1 |-> Moved(h, i)]
    BY <2>3, <2>4
  <2> QED
    BY <2>5
<1> HIDE DEF Solved
<1>3. Solved(capacity)
  <2> SUFFICES ASSUME ~Solved(capacity) PROVE FALSE
    OBVIOUS
  <2>1. N \in SUBSET Nat /\ N # {}
    OBVIOUS
  <2>2. PICK m \in N : \A k \in N : m <= k
    BY <2>1, LeastNat
  <2>3. m \in Nat /\ ~Solved(m) /\ m # 0
    BY <1>1
  <2>4. m - 1 \in Nat /\ ~(m <= m - 1) /\ m = (m - 1) + 1
    BY <2>3, SMT
  <2>5. Solved(m - 1)
    BY <2>2, <2>4
  <2> QED
    BY <1>2, <2>3, <2>4, <2>5
<1> DEFINE f == CHOOSE g : g = [i \in 0 .. capacity |-> Moved(g, i)]
<1>4. f = [i \in 0 .. capacity |-> Moved(f, i)]
  BY <1>3 DEF Solved
<1>5. Rehashed = f[capacity]
  BY DEF Rehashed, Moved
<1> HIDE DEF f
<1>6. \A i \in 0 .. capacity : f[i] = Moved(f, i)
  BY <1>4, Zenon
<1> QED
  BY <1>5, <1>6

\* The part of the map that the keys of the first i slots make up.
Part(i) == [k \in Key |-> IF \E j \in 0 .. i - 1 : keys[j] = k THEN contents[k] ELSE Empty]

\* A key that is not in C is in one slot only.
LEMMA OneSlot ==
  ASSUME NEW t, Shaped(t), NEW C, InReach(t, C), NEW k \in Key, k \notin C,
         NEW i \in Slot(t), NEW j \in Slot(t), t.keys[i] = k, t.keys[j] = k
  PROVE  i = j
<1>1. t.capacity \in Nat /\ t.capacity > 0 /\ Empty \notin Key
  BY HashTableAssumption, SMT DEF Shaped, Slot
<1>2. Reached(t, k, i) /\ Reached(t, k, j)
  BY DEF InReach
<1>3. find_available_position(t.keys, t.capacity, k) = i
  BY <1>1, <1>2, FindsWhatIsThere
<1>4. find_available_position(t.keys, t.capacity, k) = j
  BY <1>1, <1>2, FindsWhatIsThere
<1> QED
  BY <1>3, <1>4

\* What C has of a map does not matter.
LEMMA StoresOffC ==
  ASSUME NEW t, NEW C, NEW con, NEW con2, Stores(t, C, con),
         \A k \in Key : k \notin C => con2[k] = con[k]
  PROVE  Stores(t, C, con2)
  BY DEF Stores

\* In the middle of resize, insert never calls resize again: at no slot is the
\* load factor of the new table 0.75.
RehashFits ==
  \E f : /\ Rehashed = f[capacity]
         /\ \A i \in 0 .. capacity : f[i] = Moved(f, i)
         /\ \A i \in 0 .. capacity - 1 : 4 * f[i].size < 3 * f[i].capacity

\* resize loses no key, and its table is at least twice as large.
LEMMA RehashedIsRight ==
  ASSUME capacity \in Nat, capacity >= 4, contents \in Maps, Good(Table, cut, contents)
  PROVE  /\ Good(Rehashed, cut, contents)
         /\ Rehashed.capacity \in Nat /\ Rehashed.capacity >= 2 * capacity
         /\ Rehashed.size \in Nat /\ Rehashed.size <= capacity
         /\ RehashFits
<1> DEFINE cap == find_prime(2 * capacity)
           Right(t, i) == /\ Good(t, cut, Part(i))
                          /\ t.capacity = cap
                          /\ t.size \in Nat /\ t.size <= i
<1>1. cap \in Nat /\ cap >= 2 * capacity
  <2>1. 2 * capacity \in Nat
    BY SMT
  <2> QED
    BY <2>1, PrimeIsLarger
<1> HIDE DEF cap
<1>2. PICK f : /\ \A i \in 0 .. capacity : f[i] = Moved(f, i)
               /\ Rehashed = f[capacity]
  BY RehashedIs
<1>3. /\ keys \in [0 .. capacity - 1 -> Key \cup {Empty}]
      /\ \A i \in 0 .. capacity - 1 : keys[i] # Empty => values[i] \in Value
      /\ Empty \notin Key /\ Empty \notin Value
      /\ contents \in [Key -> Value \cup {Empty}]
      /\ Slot(Table) = 0 .. capacity - 1 /\ Table.keys = keys /\ Table.values = values
  BY HashTableAssumption DEF Good, Shaped, Slot, Table, Maps
<1>4. \A i \in 0 .. capacity : Part(i) \in Maps
  BY <1>3 DEF Part, Maps
<1>5. Right(f[0], 0)
  <2>1. f[0] = EmptyTable(cap)
    BY <1>2, SMT DEF Moved, cap
  <2>2. \A k \in Key : Part(0)[k] = Empty
    BY SMT DEF Part
  <2>3. Part(0) \in Maps
    BY <1>4
  <2>4. /\ Good(EmptyTable(cap), cut, Part(0))
        /\ EmptyTable(cap).capacity = cap
        /\ EmptyTable(cap).size = 0
    BY <1>1, <2>2, <2>3, EmptyIsRight
  <2> QED
    BY <2>1, <2>4
<1>6. ASSUME NEW i \in 0 .. capacity - 1, Right(f[i], i)
      PROVE  Right(f[i + 1], i + 1)
  <2>1. /\ i \in 0 .. capacity /\ i + 1 \in 0 .. capacity /\ i + 1 # 0 /\ (i + 1) - 1 = i
        /\ i \in Nat /\ i + 1 \in Nat /\ i < cap
    BY <1>1, SMT
  <2>2. f[i + 1] = IF keys[i] = Empty THEN f[i] ELSE Place(f[i], keys[i], values[i])
    BY <1>2, <2>1 DEF Moved
  <2>3. \A k \in Key : (\E j \in 0 .. i : keys[j] = k) <=> keys[i] = k \/ \E j \in 0 .. i - 1 : keys[j] = k
    BY <2>1, SMT
  <2>4. \A k \in Key : /\ k # keys[i] => Part(i + 1)[k] = Part(i)[k]
                       /\ k = keys[i] => Part(i + 1)[k] = contents[k]
    BY <2>1, <2>3 DEF Part
  <2>5. CASE keys[i] = Empty
    <3>1. \A k \in Key : k \notin cut => Part(i + 1)[k] = Part(i)[k]
      BY <1>3, <2>4, <2>5
    <3>2. Good(f[i], cut, Part(i + 1))
      BY <1>6, <3>1, StoresOffC DEF Good
    <3> QED
      BY <1>6, <2>1, <2>2, <2>5, <3>2
  <2>6. CASE keys[i] # Empty
    <3>1. PICK k \in Key : k = keys[i]
      BY <1>3, <2>6
    <3>2. PICK v \in Value : v = values[i]
      BY <1>3, <2>6
    <3>3. f[i].size < f[i].capacity
      BY <1>1, <1>6, <2>1
    <3>4. Part(i) \in Maps
      BY <1>4, <2>1
    <3>5. /\ Good(Place(f[i], k, v), cut, With(Part(i), k, v))
          /\ Place(f[i], k, v).capacity = f[i].capacity
          /\ Place(f[i], k, v).size \in {f[i].size, f[i].size + 1}
      BY <1>6, <3>3, <3>4, PlaceIsRight
    <3>6. \A j \in Key : j \notin cut => Part(i + 1)[j] = With(Part(i), k, v)[j]
      <4>1. \A j \in Key : j # k => With(Part(i), k, v)[j] = Part(i)[j]
        BY <3>4 DEF With, Maps
      <4>2. ASSUME k \notin cut
            PROVE  With(Part(i), k, v)[k] = contents[k]
        <5>1. Part(i)[k] = Empty
          <6> SUFFICES ASSUME NEW j \in 0 .. i - 1, keys[j] = k
                       PROVE  FALSE
            BY DEF Part
          <6>1. j \in 0 .. capacity - 1 /\ j # i
            BY <2>1, SMT
          <6>2. Shaped(Table) /\ InReach(Table, cut)
            BY DEF Good
          <6> QED
            BY <1>3, <3>1, <4>2, <6>1, <6>2, OneSlot
        <5>2. v = contents[k]
          BY <1>3, <3>1, <3>2, <4>2 DEF Good, Stores
        <5> QED
          BY <3>4, <5>1, <5>2 DEF With, Maps
      <4> QED
        BY <2>4, <3>1, <4>1, <4>2
    <3>7. Good(Place(f[i], k, v), cut, Part(i + 1))
      BY <3>5, <3>6, StoresOffC DEF Good
    <3>8. f[i + 1] = Place(f[i], k, v)
      BY <2>2, <2>6, <3>1, <3>2
    <3> QED
      BY <1>6, <2>1, <3>5, <3>7, <3>8, SMT
  <2> QED
    BY <2>5, <2>6
<1> HIDE DEF Right
<1>7. \A n \in 0 .. capacity : Right(f[n], n)
  <2> DEFINE B == {n \in 0 .. capacity : ~Right(f[n], n)}
  <2> SUFFICES ASSUME NEW n \in 0 .. capacity, ~Right(f[n], n) PROVE FALSE
    OBVIOUS
  <2>1. B \in SUBSET Nat /\ B # {}
    BY SMT
  <2>2. PICK m \in B : \A k \in B : m <= k
    BY <2>1, LeastNat
  <2>3. m \in 0 .. capacity /\ ~Right(f[m], m) /\ m # 0
    BY <1>5
  <2>4. m - 1 \in 0 .. capacity - 1 /\ m - 1 \in 0 .. capacity /\ ~(m <= m - 1) /\ m = (m - 1) + 1
    BY <2>3, SMT
  <2>5. Right(f[m - 1], m - 1)
    BY <2>2, <2>4
  <2> QED
    BY <1>6, <2>3, <2>4, <2>5
<1>8. \A k \in Key : k \notin cut => contents[k] = Part(capacity)[k]
  <2> SUFFICES ASSUME NEW k \in Key, k \notin cut, ~\E j \in 0 .. capacity - 1 : keys[j] = k
               PROVE  contents[k] = Empty
    BY DEF Part
  <2>1. Stores(Table, cut, contents)
    BY DEF Good
  <2> QED
    BY <1>3, <2>1 DEF Stores, In
<1>9. Good(Rehashed, cut, Part(capacity)) /\ Rehashed.capacity = cap /\ Rehashed.size \in Nat /\ Rehashed.size <= capacity
  <2>1. capacity \in 0 .. capacity
    BY SMT
  <2> QED
    BY <1>2, <1>7, <2>1 DEF Right
<1>10. Good(Rehashed, cut, contents)
  BY <1>8, <1>9, StoresOffC DEF Good
<1>11. ASSUME NEW n \in 0 .. capacity - 1 PROVE 4 * f[n].size < 3 * f[n].capacity
  <2>1. n \in 0 .. capacity /\ n \in Nat /\ n < capacity
    BY SMT
  <2>2. f[n].size \in Nat /\ f[n].size <= n /\ f[n].capacity = cap
    BY <1>7, <2>1 DEF Right
  <2> QED
    BY <1>1, <2>1, <2>2, SMT
<1>12. RehashFits
  BY <1>2, <1>11 DEF RehashFits
<1> QED
  BY <1>1, <1>9, <1>10, <1>12

----------------------------------------------------------------------------
\* The key of slot pos is taken out, and no other key moves.
Took(t, u, pos) ==
  /\ u = [keys |-> [t.keys EXCEPT ![pos] = Empty], values |-> [t.values EXCEPT ![pos] = Empty],
          size |-> t.size - 1, capacity |-> t.capacity]
  /\ pos \in Slot(t) /\ t.keys[pos] \in Key

\* The keys whose probes go by slot pos before they end.
Behind(t, pos) ==
  {t.keys[i] : i \in {j \in Full(t) :
     Steps(t.keys[j], t.capacity, pos) < Steps(t.keys[j], t.capacity, j)}}

LEMMA FullIsFinite ==
  ASSUME NEW t, Shaped(t), Counted(t)
  PROVE  IsFiniteSet(Full(t)) /\ t.size \in Nat
<1>1. IsFiniteSet(0 .. t.capacity - 1)
  BY FS_Interval, SMT DEF Shaped
<1>2. Full(t) \in SUBSET (0 .. t.capacity - 1)
  BY DEF Full, Slot
<1>3. IsFiniteSet(Full(t))
  BY <1>1, <1>2, FS_Subset
<1>4. Cardinality(Full(t)) \in Nat
  BY <1>3, FS_CardinalityType
<1> QED
  BY <1>3, <1>4 DEF Counted

LEMMA TakenOut ==
  ASSUME NEW t, Shaped(t), NEW pos
  PROVE  [t EXCEPT !.keys[pos] = Empty, !.values[pos] = Empty, !.size = @ - 1]
         = [keys |-> [t.keys EXCEPT ![pos] = Empty], values |-> [t.values EXCEPT ![pos] = Empty],
            size |-> t.size - 1, capacity |-> t.capacity]
<1>1. t = [keys |-> t.keys, values |-> t.values, size |-> t.size, capacity |-> t.capacity]
  BY DEF Shaped
<1> DEFINE u == [t EXCEPT !.keys[pos] = Empty, !.values[pos] = Empty, !.size = @ - 1]
<1>2. u = [t EXCEPT !.keys[pos] = Empty, !.values[pos] = Empty, !.size = @ - 1]
  OBVIOUS
<1> HIDE DEF u
<1>3. u = [keys |-> [t.keys EXCEPT ![pos] = Empty], values |-> [t.values EXCEPT ![pos] = Empty],
           size |-> t.size - 1, capacity |-> t.capacity]
  BY <1>1, <1>2
<1> QED
  BY <1>3 DEF u

\* What is taken out is one key less,
LEMMA TookCounts ==
  ASSUME NEW t, NEW u, Shaped(t), Counted(t), NEW pos, Took(t, u, pos)
  PROVE  Shaped(u) /\ Counted(u)
<1>1. /\ t.capacity \in Nat /\ t.keys \in [Slot(t) -> Key \cup {Empty}]
      /\ t.values \in [Slot(t) -> Value \cup {Empty}]
      /\ \A i \in Slot(t) : t.keys[i] # Empty => t.values[i] \in Value
      /\ Empty \notin Key
      /\ u.keys = [t.keys EXCEPT ![pos] = Empty] /\ u.values = [t.values EXCEPT ![pos] = Empty]
      /\ u.size = t.size - 1 /\ u.capacity = t.capacity /\ Slot(u) = Slot(t)
      /\ pos \in Slot(t) /\ t.keys[pos] \in Key
  BY HashTableAssumption DEF Shaped, Slot, Took
<1>2. u = [keys |-> u.keys, values |-> u.values, size |-> u.size, capacity |-> u.capacity]
  BY <1>1 DEF Took
<1>3. Shaped(u)
  <2>1. u.keys \in [Slot(u) -> Key \cup {Empty}] /\ u.values \in [Slot(u) -> Value \cup {Empty}]
    BY <1>1
  <2>2. \A i \in Slot(u) : u.keys[i] # Empty => u.values[i] \in Value
    BY <1>1
  <2> QED
    BY <1>1, <1>2, <2>1, <2>2 DEF Shaped
<1>4. IsFiniteSet(Full(t)) /\ t.size \in Nat
  BY FullIsFinite
<1>5. Full(u) = Full(t) \ {pos} /\ pos \in Full(t)
  BY <1>1 DEF Full
<1>6. Cardinality(Full(t) \ {pos}) = Cardinality(Full(t)) - 1
  BY <1>4, <1>5, FS_RemoveElement
<1> QED
  BY <1>1, <1>3, <1>5, <1>6 DEF Counted

\* only the keys behind it are cut off,
LEMMA TookInReach ==
  ASSUME NEW t, NEW u, Shaped(t), NEW C, InReach(t, C), NEW pos, Took(t, u, pos)
  PROVE  InReach(u, C \cup Behind(t, pos))
<1>1. /\ t.capacity \in Nat /\ t.keys \in [Slot(t) -> Key \cup {Empty}]
      /\ Empty \notin Key
      /\ u.keys = [t.keys EXCEPT ![pos] = Empty]
      /\ u.capacity = t.capacity /\ Slot(u) = Slot(t)
      /\ pos \in Slot(t)
  BY HashTableAssumption DEF Shaped, Slot, Took
<1> SUFFICES ASSUME NEW i \in Slot(u), NEW k \in Key, u.keys[i] = k, k \notin C, k \notin Behind(t, pos)
             PROVE  Reached(u, k, i)
  BY DEF InReach
<1>2. i # pos /\ i \in Slot(t) /\ t.keys[i] = k
  BY <1>1
<1>3. Reached(t, k, i)
  BY <1>2 DEF InReach
<1>4. PICK n \in Slot(t) : i = Probe(k, t.capacity, n) /\ Passes(t, k, n)
  BY <1>3 DEF Reached
<1>5. n \in 0 .. t.capacity - 1 /\ t.capacity > 0
  BY <1>1, SMT DEF Slot
<1>6. \A m \in 0 .. t.capacity - 1 : Steps(k, t.capacity, Probe(k, t.capacity, m)) = m
  BY <1>1, <1>5, ProbeComesBy
<1>7. ~(Steps(k, t.capacity, pos) < Steps(k, t.capacity, i))
  BY <1>1, <1>2 DEF Behind, Full
<1>8. ASSUME NEW m \in 0 .. n - 1
      PROVE  u.keys[Probe(k, t.capacity, m)] = t.keys[Probe(k, t.capacity, m)]
  <2>1. m \in 0 .. t.capacity - 1 /\ m < n
    BY <1>1, <1>5, SMT
  <2>2. Probe(k, t.capacity, m) # pos
    BY <1>4, <1>5, <1>6, <1>7, <2>1
  <2>3. Probe(k, t.capacity, m) \in Slot(t)
    BY <1>1, <1>5, <2>1, ProbeInside DEF Slot
  <2> QED
    BY <1>1, <2>2, <2>3
<1>9. Passes(u, k, n)
  BY <1>1, <1>4, <1>8 DEF Passes
<1> QED
  BY <1>1, <1>4, <1>9 DEF Reached

\* and the map is without the key that went.
LEMMA TookStores ==
  ASSUME NEW t, NEW u, Shaped(t), NEW C, InReach(t, C), NEW con \in Maps, Stores(t, C, con),
         NEW pos, Took(t, u, pos)
  PROVE  Stores(u, C \cup Behind(t, pos), [con EXCEPT ![t.keys[pos]] = Empty])
<1>1. /\ t.capacity \in Nat /\ t.keys \in [Slot(t) -> Key \cup {Empty}]
      /\ t.values \in [Slot(t) -> Value \cup {Empty}]
      /\ Empty \notin Key
      /\ u.keys = [t.keys EXCEPT ![pos] = Empty] /\ u.values = [t.values EXCEPT ![pos] = Empty]
      /\ Slot(u) = Slot(t)
      /\ pos \in Slot(t) /\ con \in [Key -> Value \cup {Empty}]
  BY HashTableAssumption DEF Shaped, Slot, Took, Maps
<1>2. PICK k \in Key : k = t.keys[pos]
  BY DEF Took
<1> DEFINE new == [con EXCEPT ![k] = Empty]
<1>3. new[k] = Empty /\ \A j \in Key : j # k => new[j] = con[j]
  BY <1>1
<1> HIDE DEF new
<1>4. \A i \in Slot(t) : i # pos => u.keys[i] = t.keys[i] /\ u.values[i] = t.values[i]
  BY <1>1
<1>5. u.keys[pos] = Empty
  BY <1>1
<1>6. ASSUME NEW j \in Key, j \notin C
      PROVE  /\ new[j] # Empty => In(u, j)
             /\ \A i \in Slot(u) : u.keys[i] = j => u.values[i] = new[j] /\ new[j] # Empty
  <2>1. /\ con[j] # Empty => In(t, j)
        /\ \A i \in Slot(t) : t.keys[i] = j => t.values[i] = con[j] /\ con[j] # Empty
    BY <1>6 DEF Stores
  <2>2. CASE j = k
    <3>1. \A i \in Slot(t) : t.keys[i] = j => i = pos
      BY <1>1, <1>2, <1>6, <2>2, OneSlot
    <3>2. \A i \in Slot(u) : u.keys[i] # j
      BY <1>1, <1>4, <1>5, <3>1
    <3> QED
      BY <1>3, <2>2, <3>2
  <2>3. CASE j # k
    <3>1. \A i \in Slot(t) : t.keys[i] = j => i # pos
      BY <1>2, <2>3
    <3>2. In(t, j) => In(u, j)
      BY <1>1, <1>4, <3>1 DEF In
    <3>3. \A i \in Slot(u) : u.keys[i] = j => i # pos /\ t.keys[i] = j /\ u.values[i] = t.values[i]
      BY <1>1, <1>4, <1>5
    <3> QED
      BY <1>1, <1>3, <2>1, <2>3, <3>2, <3>3
  <2> QED
    BY <2>2, <2>3
<1>7. Stores(u, C \cup Behind(t, pos), new)
  BY <1>6 DEF Stores
<1> QED
  BY <1>2, <1>7 DEF new

\* remove leaves a table right about the keys that are not cut off.
LEMMA TookIsRight ==
  ASSUME NEW t, NEW u, NEW C, NEW con \in Maps, Good(t, C, con), NEW pos, Took(t, u, pos)
  PROVE  Good(u, C \cup Behind(t, pos), [con EXCEPT ![t.keys[pos]] = Empty])
<1>1. Shaped(t) /\ Counted(t) /\ InReach(t, C) /\ Stores(t, C, con)
  BY DEF Good
<1>2. Shaped(u) /\ Counted(u)
  BY <1>1, TookCounts
<1>3. InReach(u, C \cup Behind(t, pos))
  BY <1>1, TookInReach
<1>4. Stores(u, C \cup Behind(t, pos), [con EXCEPT ![t.keys[pos]] = Empty])
  BY <1>1, TookStores
<1> QED
  BY <1>2, <1>3, <1>4 DEF Good

\* A key that is not cut off is found if and only if the map has it, in the slot
\* where it is.
LEMMA FindIsRight ==
  ASSUME NEW t, NEW C, NEW con \in Maps, Good(t, C, con), t.capacity > 0, NEW k \in Key, k \notin C
  PROVE  LET pos == find_available_position(t.keys, t.capacity, k)
         IN  IF con[k] = Empty THEN pos = NoPosition \/ t.keys[pos] = Empty
             ELSE pos \in Slot(t) /\ t.keys[pos] = k /\ t.values[pos] = con[k]
<1> DEFINE pos == find_available_position(t.keys, t.capacity, k)
<1>1. /\ Shaped(t) /\ InReach(t, C) /\ Stores(t, C, con) /\ t.capacity \in Nat
      /\ Empty \notin Key
  BY HashTableAssumption DEF Good, Shaped
<1>2. CASE con[k] = Empty
  <2>1. \A i \in Slot(t) : t.keys[i] # k
    BY <1>1, <1>2 DEF Stores
  <2>2. CASE pos = NoPosition
    BY <1>2, <2>2
  <2>3. CASE \E n \in Slot(t) : pos = Probe(k, t.capacity, n) /\ t.keys[pos] \in {Empty, k}
    <3>1. PICK n \in Slot(t) : pos = Probe(k, t.capacity, n) /\ t.keys[pos] \in {Empty, k}
      BY <2>3
    <3> HIDE DEF pos
    <3>2. pos \in Slot(t)
      BY <1>1, <3>1, ProbeInside DEF Slot
    <3>3. t.keys[pos] = Empty
      BY <2>1, <3>1, <3>2
    <3> QED
      BY <1>2, <3>3 DEF pos
  <2> QED
    BY <1>1, <2>2, <2>3, FindStops
<1>3. CASE con[k] # Empty
  <2>1. PICK i \in Slot(t) : t.keys[i] = k
    BY <1>1, <1>3 DEF Stores, In
  <2>2. Reached(t, k, i) /\ t.values[i] = con[k]
    BY <1>1, <2>1 DEF InReach, Stores
  <2>3. pos = i
    BY <1>1, <2>1, <2>2, FindsWhatIsThere
  <2> HIDE DEF pos
  <2> QED
    BY <1>3, <2>1, <2>2, <2>3 DEF pos
<1> QED
  BY <1>2, <1>3

----------------------------------------------------------------------------
\* The invariant. An open walk still has to visit only what lies ahead of it.
Types ==
  /\ iter \in {NoPosition} \cup 0 .. capacity
  /\ contents \in Maps
  /\ cut \subseteq Key
  /\ due \subseteq Key
  /\ removals \in 0 .. MaxRemovals

Kept == Good(Table, cut, contents)

Roomy == capacity > 0 => capacity >= 4 /\ size < capacity

Lies(k, pos) == \E i \in Slots : i > pos /\ keys[i] = k

Ahead ==
  /\ iter = NoPosition => due = {}
  /\ iter # NoPosition => \A k \in due : Lies(k, iter)

IInv == Types /\ Kept /\ Roomy /\ Ahead

\* What the invariant says of the variables themselves.
LEMMA TableTypes ==
  ASSUME Kept
  PROVE  /\ capacity \in Nat
         /\ keys \in [Slots -> Key \cup {Empty}]
         /\ values \in [Slots -> Value \cup {Empty}]
         /\ size \in Nat
         /\ size = Cardinality(Occupied)
         /\ Slot(Table) = Slots /\ Full(Table) = Occupied
         /\ Shaped(Table) /\ Counted(Table)
<1>1. Shaped(Table) /\ Counted(Table)
  BY DEF Kept, Good
<1>2. Table.size \in Nat
  BY <1>1, FullIsFinite
<1>3. /\ Table.keys = keys /\ Table.values = values
      /\ Table.size = size /\ Table.capacity = capacity
  BY DEF Table
<1>4. Slot(Table) = Slots /\ Full(Table) = Occupied
  BY <1>3 DEF Slot, Full, Slots, Occupied
<1> QED
  BY <1>1, <1>2, <1>3, <1>4 DEF Shaped, Counted

LEMMA InitIInv == Init => IInv
<1> SUFFICES ASSUME Init PROVE IInv
  OBVIOUS
<1>1. capacity \in Nat /\ capacity >= 4
  <2>1. Requested \in Nat /\ Requested >= 4
    BY HashTableAssumption, SMT
  <2> QED
    BY <2>1, PrimeIsLarger DEF Init
<1>2. Table = EmptyTable(capacity)
  BY DEF Init, Table, EmptyTable
<1>3. contents \in Maps /\ \A k \in Key : contents[k] = Empty
  BY DEF Init, Maps
<1>4. Kept
  BY <1>1, <1>2, <1>3, EmptyIsRight DEF Kept
<1>5. Types
  BY <1>3, HashTableAssumption DEF Init, Types
<1> QED
  BY <1>1, <1>4, <1>5, SMT DEF IInv, Roomy, Ahead, Init, NoPosition

\* The table that insert puts the key into: if it is a new one, it is larger.
LEMMA ResizedIsRight ==
  ASSUME IInv, capacity > 0
  PROVE  /\ Good(Resized, cut, contents)
         /\ Resized.capacity \in Nat /\ Resized.size \in Nat
         /\ Resized.size + 1 < Resized.capacity
         /\ Resized.capacity >= 4
         /\ Resized.capacity = capacity => Resized = Table
<1>1. capacity \in Nat /\ size \in Nat /\ capacity >= 4 /\ contents \in Maps
  BY TableTypes DEF IInv, Types, Roomy
<1>2. Good(Table, cut, contents) /\ Table.size = size /\ Table.capacity = capacity
  BY DEF IInv, Kept, Table
<1>3. CASE 4 * size >= 3 * capacity
  <2>1. Resized = Rehashed
    BY <1>3 DEF Resized
  <2>2. /\ Good(Rehashed, cut, contents)
        /\ Rehashed.capacity \in Nat /\ Rehashed.capacity >= 2 * capacity
        /\ Rehashed.size \in Nat /\ Rehashed.size <= capacity
    BY <1>1, <1>2, RehashedIsRight
  <2> QED
    BY <1>1, <2>1, <2>2, SMT
<1>4. CASE ~(4 * size >= 3 * capacity)
  <2>1. Resized = Table
    BY <1>4 DEF Resized
  <2> QED
    BY <1>1, <1>2, <1>4, <2>1, SMT
<1> QED
  BY <1>3, <1>4

\* A step that makes the table u of Table leaves the variables so.
LEMMA Becomes ==
  ASSUME NEW u, Become(u), Shaped(u)
  PROVE  Table' = u
  BY DEF Become, Table, Shaped

LEMMA InsertKeeps ==
  ASSUME IInv, NEW k \in Key, NEW v \in Value, insert(k, v)
  PROVE  IInv'
<1> DEFINE t == Resized
           u == Place(t, k, v)
<1>1. /\ capacity > 0
      /\ Become(u)
      /\ contents' = With(contents, k, v)
      /\ capacity' = capacity => UNCHANGED <<iter, due>>
      /\ capacity' # capacity => iter' = NoPosition /\ due' = {}
      /\ cut' = cut /\ removals' = removals
  BY DEF insert, EndWalk, With
<1>2. /\ Good(t, cut, contents)
      /\ t.capacity \in Nat /\ t.size \in Nat
      /\ t.size + 1 < t.capacity
      /\ t.capacity >= 4
      /\ t.capacity = capacity => t = Table
  BY <1>1, ResizedIsRight
<1> HIDE DEF t
<1>3. contents \in Maps /\ t.size < t.capacity
  BY <1>2, SMT DEF IInv, Types
<1>4. /\ Good(u, cut, With(contents, k, v))
      /\ u.capacity = t.capacity
      /\ u.size \in {t.size, t.size + 1}
      /\ Keeps(t, u)
  BY <1>2, <1>3, PlaceIsRight
<1> HIDE DEF u
<1>5. Table' = u /\ keys' = u.keys /\ size' = u.size /\ capacity' = u.capacity
  BY <1>1, <1>4, Becomes DEF Good, Become
<1>6. Kept'
  BY <1>1, <1>4, <1>5 DEF Kept
<1>7. Roomy'
  BY <1>2, <1>4, <1>5, SMT DEF Roomy
<1>8. Types'
  <2>1. With(contents, k, v) \in Maps
    BY <1>3 DEF With, Maps
  <2>2. capacity' \in Nat
    BY <1>2, <1>4, <1>5
  <2>3. iter' \in {NoPosition} \cup 0 .. capacity'
    BY <1>1 DEF IInv, Types
  <2>4. cut' \subseteq Key /\ due' \subseteq Key /\ removals' \in 0 .. MaxRemovals
    BY <1>1 DEF IInv, Types
  <2> QED
    BY <1>1, <2>1, <2>3, <2>4 DEF Types
<1>9. Ahead'
  <2>1. CASE capacity' = capacity
    <3>1. t = Table
      BY <1>2, <1>4, <1>5, <2>1
    <3>2. \A i \in Slots : keys[i] # Empty => keys'[i] = keys[i]
      BY <1>4, <1>5, <3>1 DEF Keeps, Table, Slot, Slots
    <3>3. iter' = iter /\ due' = due /\ Slots' = Slots
      BY <1>1, <2>1 DEF Slots
    <3>4. ASSUME NEW j \in due, Lies(j, iter) PROVE Lies(j, iter)'
      <4>1. PICK i \in Slots : i > iter /\ keys[i] = j
        BY <3>4 DEF Lies
      <4>2. j \in Key /\ Empty \notin Key
        BY HashTableAssumption DEF IInv, Types
      <4>3. keys'[i] = j
        BY <3>2, <4>1, <4>2
      <4> QED
        BY <3>3, <4>1, <4>3 DEF Lies
    <3> QED
      BY <3>3, <3>4 DEF IInv, Ahead
  <2>2. CASE capacity' # capacity
    BY <1>1, <2>2 DEF Ahead
  <2> QED
    BY <2>1, <2>2
<1> QED
  BY <1>6, <1>7, <1>8, <1>9 DEF IInv

LEMMA RemoveKeeps ==
  ASSUME IInv, NEW k \in Key, remove(k)
  PROVE  IInv'
<1> DEFINE pos == find_available_position(keys, capacity, k)
           gone == [contents EXCEPT ![k] = Empty]
<1>1. /\ capacity > 0
      /\ contents' = gone
      /\ due' = due \ {k} /\ iter' = iter
      /\ removals < MaxRemovals /\ removals' = removals + 1
      /\ IF pos # NoPosition /\ keys[pos] # Empty
         THEN /\ Become([Table EXCEPT !.keys[pos] = Empty, !.values[pos] = Empty, !.size = @ - 1])
              /\ cut' = cut \cup Past(pos)
         ELSE UNCHANGED <<table, cut>>
  BY DEF remove
<1>2. /\ capacity \in Nat /\ size \in Nat /\ Slot(Table) = Slots /\ Full(Table) = Occupied
      /\ keys \in [Slots -> Key \cup {Empty}] /\ Shaped(Table)
      /\ Table.keys = keys /\ Table.values = values /\ Table.size = size /\ Table.capacity = capacity
      /\ Empty \notin Key /\ contents \in Maps /\ Good(Table, cut, contents)
      /\ capacity >= 4 /\ size < capacity
  BY <1>1, TableTypes, HashTableAssumption DEF IInv, Table, Types, Kept, Roomy
<1>3. gone \in Maps /\ gone[k] = Empty /\ \A j \in Key : j # k => gone[j] = contents[j]
  BY <1>2 DEF Maps
<1>4. removals' \in 0 .. MaxRemovals /\ iter' \in {NoPosition} \cup 0 .. capacity /\ due' \subseteq Key
  <2>1. removals \in Nat /\ MaxRemovals \in Nat
    BY HashTableAssumption DEF IInv, Types
  <2> QED
    BY <1>1, <2>1 DEF IInv, Types
<1> HIDE DEF gone
<1>5. CASE pos # NoPosition /\ keys[pos] # Empty
  <2> DEFINE u == [Table EXCEPT !.keys[pos] = Empty, !.values[pos] = Empty, !.size = @ - 1]
  <2>1. Become(u) /\ cut' = cut \cup Past(pos)
    BY <1>1, <1>5
  <2>2. pos \in Slots /\ keys[pos] = k
    <3>1. PICK n \in Slot(Table) : pos = Probe(k, capacity, n) /\ keys[pos] \in {Empty, k}
      BY <1>1, <1>2, <1>5, FindStops
    <3> HIDE DEF pos
    <3>2. pos \in Slots
      BY <1>1, <1>2, <3>1, ProbeInside DEF Slots
    <3> QED
      BY <1>5, <3>1, <3>2
  <2> HIDE DEF pos
  <2>3. Took(Table, u, pos)
    <3>1. u = [keys |-> [keys EXCEPT ![pos] = Empty], values |-> [values EXCEPT ![pos] = Empty],
               size |-> size - 1, capacity |-> capacity]
      BY <1>2, TakenOut
    <3> HIDE DEF u
    <3> QED
      BY <1>2, <2>2, <3>1 DEF Took
  <2> HIDE DEF u
  <2>4. Past(pos) = Behind(Table, pos)
    BY <1>2 DEF Past, Behind, Steps
  <2>5. Good(u, cut \cup Behind(Table, pos), gone)
    BY <1>2, <2>2, <2>3, TookIsRight DEF gone
  <2>6. Shaped(u)
    BY <2>5 DEF Good
  <2>7. Table' = u
    BY <2>1, <2>6, Becomes
  <2>8. Kept'
    BY <1>1, <2>1, <2>4, <2>5, <2>7 DEF Kept
  <2>9. /\ capacity' = capacity /\ size' = size - 1 /\ Slots' = Slots
        /\ keys' = [keys EXCEPT ![pos] = Empty]
    BY <1>2, <2>1, <2>3 DEF Become, Took, Slots
  <2>10. Roomy'
    BY <1>2, <2>9, SMT DEF Roomy
  <2>11. cut' \subseteq Key
    <3>1. Past(pos) \subseteq Key
      BY <1>2 DEF Past, Occupied, Slots
    <3> QED
      BY <2>1, <3>1 DEF IInv, Types
  <2>12. Types'
    BY <1>1, <1>3, <1>4, <2>9, <2>11 DEF Types
  <2>13. Ahead'
    <3>1. ASSUME NEW j \in due', Lies(j, iter) PROVE Lies(j, iter)'
      <4>1. PICK i \in Slots : i > iter /\ keys[i] = j
        BY <3>1 DEF Lies
      <4>2. i # pos
        BY <1>1, <2>2, <4>1
      <4>3. keys'[i] = j
        BY <1>2, <2>9, <4>1, <4>2
      <4> QED
        BY <1>1, <2>9, <4>1, <4>3 DEF Lies
    <3> QED
      BY <1>1, <3>1 DEF IInv, Ahead
  <2> QED
    BY <2>8, <2>10, <2>12, <2>13 DEF IInv
<1>6. CASE ~(pos # NoPosition /\ keys[pos] # Empty)
  <2>1. UNCHANGED <<table, cut>>
    BY <1>1, <1>6
  <2>2. Table' = Table /\ capacity' = capacity /\ size' = size /\ keys' = keys /\ Slots' = Slots /\ cut' = cut
    BY <2>1 DEF table, Table, Slots
  <2>3. k \notin cut => contents[k] = Empty
    <3> SUFFICES ASSUME k \notin cut, contents[k] # Empty PROVE FALSE
      OBVIOUS
    <3>1. pos \in Slots /\ keys[pos] = k
      BY <1>1, <1>2, FindIsRight
    <3> HIDE DEF pos
    <3>2. pos # NoPosition
      BY <1>2, <3>1, SMT DEF NoPosition, Slots
    <3> QED
      BY <1>2, <1>6, <3>1, <3>2
  <2>4. Stores(Table, cut, gone)
    <3>1. \A j \in Key : j \notin cut => gone[j] = contents[j]
      BY <1>3, <2>3
    <3> QED
      BY <1>2, <3>1, StoresOffC DEF Good
  <2>5. Kept'
    BY <1>1, <1>2, <2>2, <2>4 DEF Kept, Good
  <2>6. Types'
    BY <1>1, <1>3, <1>4, <2>2 DEF IInv, Types
  <2>7. Roomy'
    BY <2>2 DEF IInv, Roomy
  <2>8. Ahead'
    BY <1>1, <2>2 DEF IInv, Ahead, Lies
  <2> QED
    BY <2>5, <2>6, <2>7, <2>8 DEF IInv
<1> QED
  BY <1>5, <1>6

\* clear and assign leave an empty table, of no slot or of at least four.
LEMMA ForgetKeeps ==
  ASSUME IInv, NEW cap \in Nat, cap > 0 => cap >= 4, Become(EmptyTable(cap)), Forget
  PROVE  IInv'
<1>1. contents' \in Maps /\ \A k \in Key : contents'[k] = Empty
  BY DEF Forget, Maps
<1>2. /\ Good(EmptyTable(cap), cut', contents')
      /\ EmptyTable(cap).capacity = cap
      /\ EmptyTable(cap).size = 0
  BY <1>1, EmptyIsRight
<1>3. Table' = EmptyTable(cap) /\ capacity' = cap /\ size' = 0
  BY <1>2, Becomes DEF Good, Become
<1>4. Kept'
  BY <1>2, <1>3 DEF Kept
<1>5. Roomy'
  BY <1>3, SMT DEF Roomy
<1>6. Types' /\ Ahead'
  BY <1>1 DEF IInv, Types, Ahead, Forget, EndWalk
<1> QED
  BY <1>4, <1>5, <1>6 DEF IInv

\* The walk goes on at the first occupied slot: nothing lies between.
LEMMA SeekStops ==
  ASSUME Kept, NEW from \in 0 .. capacity
  PROVE  /\ Seek(from) \in 0 .. capacity /\ from <= Seek(from)
         /\ \A i \in Occupied : i >= from => Seek(from) <= i
<1> DEFINE ahead == {i \in Occupied : i >= from}
<1>1. capacity \in Nat /\ \A i \in Occupied : i \in 0 .. capacity - 1
  BY TableTypes DEF Occupied, Slots
<1>2. CASE ahead = {}
  <2>1. Seek(from) = capacity
    BY <1>2 DEF Seek
  <2>2. \A i \in Occupied : ~(i >= from)
    BY <1>2
  <2> QED
    BY <1>1, <2>1, <2>2, SMT
<1>3. CASE ahead # {}
  <2>1. ahead \in SUBSET Nat
    BY <1>1
  <2>2. Min(ahead) \in ahead /\ \A j \in ahead : Min(ahead) <= j
    BY <1>3, <2>1, MinIs
  <2>3. Seek(from) = Min(ahead)
    BY <1>3 DEF Seek
  <2>4. Seek(from) \in Occupied /\ Seek(from) >= from /\ \A j \in Occupied : j >= from => Seek(from) <= j
    BY <2>2, <2>3
  <2> QED
    BY <1>1, <2>4, SMT
<1> QED
  BY <1>2, <1>3

\* A walk that has visited everything before pos and goes on at pos.
LEMMA VisitKeeps ==
  ASSUME IInv, NEW pos \in 0 .. capacity, NEW todo \in SUBSET Key, Visit(pos, todo),
         \A k \in todo : \E i \in Slots : pos <= i /\ keys[i] = k
  PROVE  IInv'
<1>1. /\ iter' = pos
      /\ due' = IF pos < capacity THEN todo \ {keys[pos]} ELSE todo
      /\ UNCHANGED <<table, contents, cut, removals>>
  BY DEF Visit
<1>2. /\ Table' = Table /\ capacity' = capacity /\ size' = size /\ keys' = keys /\ Slots' = Slots
      /\ cut' = cut /\ contents' = contents /\ removals' = removals
  BY <1>1 DEF table, Table, Slots
<1>3. capacity \in Nat
  BY TableTypes DEF IInv
<1>4. ASSUME NEW k \in due' PROVE Lies(k, iter)'
  <2>1. PICK i \in Slots : pos <= i /\ keys[i] = k
    BY <1>1
  <2>2. pos < capacity /\ i \in Nat
    BY <1>3, <2>1, SMT DEF Slots
  <2>3. i # pos
    BY <1>1, <2>1, <2>2
  <2>4. i > pos
    BY <1>3, <2>1, <2>2, <2>3, SMT
  <2> QED
    BY <1>1, <1>2, <2>1, <2>4 DEF Lies
<1>5. iter' # NoPosition
  BY <1>1, SMT DEF NoPosition
<1>6. Ahead'
  BY <1>4, <1>5 DEF Ahead
<1>7. Types'
  BY <1>1, <1>2 DEF IInv, Types
<1>8. Kept' /\ Roomy'
  BY <1>2 DEF IInv, Kept, Roomy
<1> QED
  BY <1>6, <1>7, <1>8 DEF IInv

LEMMA BeginKeeps == ASSUME IInv, begin PROVE IInv'
<1> DEFINE pos == IF size > 0 THEN Seek(0) ELSE capacity
           todo == {keys[i] : i \in Occupied}
<1>1. /\ capacity \in Nat /\ size \in Nat /\ size = Cardinality(Occupied)
      /\ keys \in [Slots -> Key \cup {Empty}]
      /\ IsFiniteSet(Occupied)
  BY TableTypes, FullIsFinite DEF IInv
<1>2. \A i \in Occupied : i \in Slots /\ keys[i] # Empty /\ i \in Nat
  BY <1>1 DEF Occupied, Slots
<1>3. pos \in 0 .. capacity /\ \A i \in Occupied : pos <= i
  <2>1. CASE size > 0
    <3>1. Kept /\ 0 \in 0 .. capacity
      BY <1>1 DEF IInv
    <3>2. Seek(0) \in 0 .. capacity /\ \A i \in Occupied : i >= 0 => Seek(0) <= i
      BY <3>1, SeekStops
    <3> QED
      BY <1>2, <2>1, <3>2
  <2>2. CASE ~(size > 0)
    <3>1. Occupied = {}
      BY <1>1, <2>2, FS_EmptySet
    <3> QED
      BY <1>1, <2>2, <3>1
  <2> QED
    BY <2>1, <2>2
<1>4. todo \in SUBSET Key
  BY <1>1, <1>2
<1>5. \A k \in todo : \E i \in Slots : pos <= i /\ keys[i] = k
  BY <1>2, <1>3
<1>6. Visit(pos, todo)
  BY DEF begin
<1> HIDE DEF pos, todo
<1> QED
  BY <1>3, <1>4, <1>5, <1>6, VisitKeeps

LEMMA AdvanceKeeps == ASSUME IInv, advance PROVE IInv'
<1>1. /\ capacity \in Nat /\ keys \in [Slots -> Key \cup {Empty}] /\ Kept
      /\ due \in SUBSET Key /\ Empty \notin Key
  BY TableTypes, HashTableAssumption DEF IInv, Types
<1>2. iter \in 0 .. capacity - 1 /\ Visit(Seek(iter + 1), due)
  BY DEF advance
<1>3. iter + 1 \in 0 .. capacity /\ iter # NoPosition
  BY <1>1, <1>2, SMT DEF NoPosition
<1>4. /\ Seek(iter + 1) \in 0 .. capacity
      /\ \A i \in Occupied : i >= iter + 1 => Seek(iter + 1) <= i
  BY <1>1, <1>3, SeekStops
<1>5. ASSUME NEW k \in due PROVE \E i \in Slots : Seek(iter + 1) <= i /\ keys[i] = k
  <2>1. PICK i \in Slots : i > iter /\ keys[i] = k
    BY <1>3 DEF IInv, Ahead, Lies
  <2>2. i \in Occupied /\ i >= iter + 1
    BY <1>1, <1>2, <2>1 DEF Occupied, Slots
  <2> QED
    BY <1>4, <2>1, <2>2
<1> QED
  BY <1>1, <1>2, <1>4, <1>5, VisitKeeps

LEMMA NextKeeps == IInv /\ [Next]_vars => IInv'
<1> SUFFICES ASSUME IInv, [Next]_vars PROVE IInv'
  OBVIOUS
<1>1. CASE \E k \in Key, v \in Value : insert(k, v)
  BY <1>1, InsertKeeps
<1>2. CASE \E k \in Key : remove(k)
  BY <1>2, RemoveKeeps
<1>3. CASE clear
  <2>1. Become(EmptyTable(0)) /\ Forget
    BY <1>3 DEF clear
  <2>2. 0 \in Nat /\ (0 > 0 => 0 >= 4)
    OBVIOUS
  <2> QED
    BY <2>1, <2>2, ForgetKeeps
<1>4. CASE assign
  <2>1. Become(EmptyTable(find_prime(Requested))) /\ Forget
    BY <1>4 DEF assign
  <2>2. Requested \in Nat /\ Requested >= 4
    BY HashTableAssumption, SMT
  <2>3. find_prime(Requested) \in Nat /\ find_prime(Requested) >= 4
    BY <2>2, PrimeIsLarger
  <2> QED
    BY <2>1, <2>3, ForgetKeeps
<1>5. CASE begin
  BY <1>5, BeginKeeps
<1>6. CASE advance
  BY <1>6, AdvanceKeeps
<1>7. CASE UNCHANGED vars
  BY <1>7 DEF vars, table, IInv, Types, Kept, Table, Roomy, Ahead, Lies, Slots
<1> QED
  BY <1>1, <1>2, <1>3, <1>4, <1>5, <1>6, <1>7 DEF Next

LEMMA Invariance == Spec => []IInv
  BY InitIInv, NextKeeps, PTL DEF Spec

----------------------------------------------------------------------------
\* The variables of a table keep their types, whatever is called: the size is
\* never more than the slots, and an iterator never past them.
THEOREM TypeOKHolds == Spec => []TypeOK
<1>1. IInv => TypeOK
  <2> SUFFICES ASSUME IInv PROVE TypeOK
    OBVIOUS
  <2>1. /\ capacity \in Nat /\ size \in Nat /\ size = Cardinality(Occupied)
        /\ keys \in [Slots -> Key \cup {Empty}]
        /\ values \in [Slots -> Value \cup {Empty}]
    BY TableTypes DEF IInv
  <2>2. capacity = 0 => size = 0
    <3>1. capacity = 0 => Occupied = {}
      BY <2>1, SMT DEF Occupied, Slots
    <3> QED
      BY <2>1, <3>1, FS_EmptySet
  <2>3. size \in 0 .. capacity
    BY <2>1, <2>2, SMT DEF IInv, Roomy
  <2> QED
    BY <2>1, <2>3 DEF IInv, Types, TypeOK, Maps
<1> QED
  BY <1>1, Invariance, PTL

\* insert, remove and resize keep count of the slots, and leave one free, so that
\* the next probe of find_available_position ends.
THEOREM HasRoomHolds == Spec => []HasRoom
<1>1. IInv => HasRoom
  BY TableTypes DEF IInv, Roomy, HasRoom
<1> QED
  BY <1>1, Invariance, PTL

\* lookup finds what was inserted and nothing else, except for the keys that
\* were behind a slot which remove freed.
THEOREM LookupExactHolds == Spec => []LookupExact
<1>1. IInv => LookupExact
  <2> SUFFICES ASSUME IInv, capacity > 0, NEW k \in Key, k \notin cut
               PROVE  /\ lookup(k) = contents[k]
                      /\ Cardinality({i \in Slots : keys[i] = k}) <= 1
    BY DEF LookupExact
  <2>1. /\ Good(Table, cut, contents) /\ contents \in Maps
        /\ Shaped(Table) /\ Slot(Table) = Slots
        /\ Table.keys = keys /\ Table.values = values /\ Table.capacity = capacity
        /\ capacity \in Nat /\ Empty \notin Key
    BY TableTypes, HashTableAssumption DEF IInv, Types, Kept, Table
  <2>2. lookup(k) = contents[k]
    <3> DEFINE pos == find_available_position(keys, capacity, k)
    <3>1. IF contents[k] = Empty THEN pos = NoPosition \/ keys[pos] = Empty
          ELSE pos \in Slots /\ keys[pos] = k /\ values[pos] = contents[k]
      BY <2>1, FindIsRight
    <3>2. lookup(k) = IF pos # NoPosition /\ keys[pos] # Empty THEN values[pos] ELSE Empty
      BY DEF lookup
    <3> HIDE DEF pos
    <3>3. NoPosition \notin Slots
      BY <2>1, SMT DEF NoPosition, Slots
    <3> QED
      BY <2>1, <3>1, <3>2, <3>3
  <2>3. Cardinality({i \in Slots : keys[i] = k}) <= 1
    <3> DEFINE S == {i \in Slots : keys[i] = k}
    <3>1. \A i \in S, j \in S : i = j
      BY <2>1, OneSlot DEF Good
    <3>2. CASE S = {}
      BY <3>2, FS_EmptySet
    <3>3. CASE S # {}
      <4>1. PICK i \in S : TRUE
        BY <3>3
      <4>2. S = {i}
        BY <3>1, <4>1
      <4>3. Cardinality({i}) = 1
        BY FS_Singleton
      <4> HIDE DEF S
      <4> QED
        BY <4>2, <4>3 DEF S
    <3> QED
      BY <3>2, <3>3
  <2> QED
    BY <2>2, <2>3
<1> QED
  BY <1>1, Invariance, PTL

\* An iterator that has come to the end has visited every key that was there when
\* it began and was not removed, although insert and remove went on under it.
THEOREM WalkMissesNothingHolds == Spec => []WalkMissesNothing
<1>1. IInv => WalkMissesNothing
  <2> SUFFICES ASSUME IInv, iter = capacity, NEW k \in due PROVE FALSE
    BY DEF WalkMissesNothing
  <2>1. capacity \in Nat
    BY TableTypes DEF IInv
  <2>2. iter # NoPosition
    BY <2>1, SMT DEF NoPosition
  <2>3. PICK i \in Slots : i > iter
    BY <2>2 DEF IInv, Ahead, Lies
  <2> QED
    BY <2>1, <2>3, SMT DEF Slots
<1> QED
  BY <1>1, Invariance, PTL

\* Whenever insert may call resize, the calls of insert that resize itself makes
\* do not call it again: the arrays they would replace are those it fills.
THEOREM ResizeNeverNests == Spec => [](capacity > 0 => RehashFits)
<1>1. IInv => (capacity > 0 => RehashFits)
  <2> SUFFICES ASSUME IInv, capacity > 0 PROVE RehashFits
    OBVIOUS
  <2>1. capacity \in Nat /\ capacity >= 4 /\ contents \in Maps /\ Good(Table, cut, contents)
    BY TableTypes DEF IInv, Types, Kept, Roomy
  <2> QED
    BY <2>1, RehashedIsRight
<1> QED
  BY <1>1, Invariance, PTL

=============================================================================
