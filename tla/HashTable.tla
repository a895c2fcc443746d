----------------------------- MODULE HashTable -----------------------------
(***************************************************************************)
(* qs::hash_table: open addressing with linear probing. The index of exact *)
(* queries, the sets of words and the results of a document are tables of  *)
(* this kind. A slot holds a key or is Empty (is_gravestone is set both in *)
(* a slot never used and in one whose key was removed).                    *)
(*                                                                         *)
(* A caller may have one iterator open. It holds the position and the      *)
(* arrays it was made with, so growth and clear end it.                    *)
(*                                                                         *)
(* History: contents is what a map given the same calls would hold; cut    *)
(* the keys that a remove has cut off from their home slot; due the keys   *)
(* the open walk still has to visit; removals counts the calls of remove.  *)
(***************************************************************************)
EXTENDS Integers, FiniteSets, Sequences, SequencesExt

CONSTANTS
  Key, Value, Empty,
  Hash,         \* hash_functor of each key
  Primes,       \* get_prime's table, cut down
  Requested,    \* the argument of the constructor
  MaxRemovals   \* bound: keys taken out in a behaviour

ASSUME HashTableAssumption ==
  /\ Empty \notin Key \cup Value
  /\ Hash \in [Key -> Nat]
  /\ Primes \in Seq(Nat \ (0 .. 3))
  /\ Requested \in Nat \ (0 .. 3)
  /\ MaxRemovals \in Nat

VARIABLES
  keys, values,     \* the two arrays, indexed from 0 to capacity - 1
  size, capacity,
  iter,             \* pos of the open iterator, or NoPosition
  contents,         \* contents[k]: the value of k in the map, or Empty
  cut, due, removals

table == <<keys, values, size, capacity>>
vars == <<table, iter, contents, cut, due, removals>>

Slots == 0 .. capacity - 1
NoPosition == -1
Occupied == {i \in Slots : keys[i] # Empty}

find_prime(n) ==
  LET larger == {i \in DOMAIN Primes : n < Primes[i]}
  IN  IF larger = {} THEN n ELSE Primes[Min(larger)]

\* The slot i steps from the key's home slot, round the end of the array.
Probe(k, cap, i) == (Hash[k] + i) % cap

\* The first slot from there on that holds the key or nothing.
find_available_position(ks, cap, k) ==
  LET stops == {i \in 0 .. cap - 1 : ks[Probe(k, cap, i)] \in {Empty, k}}
  IN  IF stops = {} THEN NoPosition ELSE Probe(k, cap, Min(stops))

\* The table t after key k with value v went into the slot found for it, unless
\* k is there already: insert past its call of maybe_resize.
Place(t, k, v) ==
  LET pos == find_available_position(t.keys, t.capacity, k)
  IN  IF t.keys[pos] # Empty THEN t
      ELSE [t EXCEPT !.keys[pos] = k, !.values[pos] = v, !.size = @ + 1]

Table == [keys |-> keys, values |-> values, size |-> size, capacity |-> capacity]

EmptyTable(cap) ==
  [keys |-> [i \in 0 .. cap - 1 |-> Empty], values |-> [i \in 0 .. cap - 1 |-> Empty],
   size |-> 0, capacity |-> cap]

\* Slip: the old slots are copied as they are.
CopyOver ==
  LET cap == find_prime(2 * capacity)
      old(arr) == [i \in 0 .. cap - 1 |-> IF i \in Slots THEN arr[i] ELSE Empty]
  IN  [keys |-> old(keys), values |-> old(values), size |-> size, capacity |-> cap]

\* resize puts the old keys, in the order of the old array, into a larger table.
Rehashed ==
  LET after[i \in 0 .. capacity] ==   \* the first i slots
        IF i = 0 THEN EmptyTable(find_prime(2 * capacity))
        ELSE IF keys[i - 1] = Empty THEN after[i - 1]
        ELSE Place(after[i - 1], keys[i - 1], values[i - 1])
  IN  after[capacity]

\* Slip: the table grows only when it is full.
GrowWhenFull == IF size >= capacity THEN Rehashed ELSE Table

\* maybe_resize, at a load factor of 0.75.
Resized == IF 4 * size >= 3 * capacity THEN Rehashed ELSE Table

----------------------------------------------------------------------------
Init ==
  /\ capacity = find_prime(Requested)
  /\ keys = EmptyTable(capacity).keys
  /\ values = EmptyTable(capacity).values
  /\ size = 0
  /\ iter = NoPosition
  /\ contents = [k \in Key |-> Empty]
  /\ cut = {}
  /\ due = {}
  /\ removals = 0

Become(t) ==
  /\ keys' = t.keys
  /\ values' = t.values
  /\ size' = t.size
  /\ capacity' = t.capacity

\* The arrays are given back, or to another table: nothing may be asked of an
\* iterator any more.
EndWalk == iter' = NoPosition /\ due' = {}

\* A table that was cleared has capacity 0: to insert into it divides by zero.
insert(k, v) ==
  /\ capacity > 0
  /\ Become(Place(Resized, k, v))
  /\ contents' = [contents EXCEPT ![k] = IF @ = Empty THEN v ELSE @]
  /\ IF capacity' = capacity THEN UNCHANGED <<iter, due>> ELSE EndWalk
  /\ UNCHANGED <<cut, removals>>

\* What lookup returns: the value of k, or Empty for end().
lookup(k) ==
  LET pos == find_available_position(keys, capacity, k)
  IN  IF pos # NoPosition /\ keys[pos] # Empty THEN values[pos] ELSE Empty

\* The keys whose probe, from the home slot to where they are, passes slot pos.
Past(pos) ==
  LET steps(k, to) == (to + capacity - Probe(k, capacity, 0)) % capacity
  IN  {keys[i] : i \in {j \in Occupied : steps(keys[j], pos) < steps(keys[j], j)}}

remove(k) ==
  /\ capacity > 0
  /\ removals < MaxRemovals
  /\ LET pos == find_available_position(keys, capacity, k)
     IN  IF pos # NoPosition /\ keys[pos] # Empty
         THEN /\ Become([Table EXCEPT !.keys[pos] = Empty, !.values[pos] = Empty,
                                      !.size = @ - 1])
              /\ cut' = cut \cup Past(pos)
         ELSE UNCHANGED <<table, cut>>
  /\ contents' = [contents EXCEPT ![k] = Empty]
  /\ due' = due \ {k}
  /\ removals' = removals + 1
  /\ UNCHANGED iter

Forget ==
  /\ contents' = [k \in Key |-> Empty]
  /\ cut' = {}
  /\ EndWalk
  /\ UNCHANGED removals

\* Slip: capacity keeps its value.
ClearKeepsCapacity == Become([EmptyTable(0) EXCEPT !.capacity = capacity]) /\ Forget

\* clear gives the arrays back; on a cleared table it does nothing. A table that
\* another one is made of or assigned from is left the same way.
clear == Become(EmptyTable(0)) /\ Forget

\* A new table is moved into this one. Its own arrays are not given back.
assign == Become(EmptyTable(find_prime(Requested))) /\ Forget

\* The first occupied slot from pos on, or the end.
Seek(pos) ==
  LET ahead == {i \in Occupied : i >= pos}
  IN  IF ahead = {} THEN capacity ELSE Min(ahead)

\* begin() and operator*: the key at the first position has been visited.
Visit(pos, keysDue) ==
  /\ iter' = pos
  /\ due' = IF pos < capacity THEN keysDue \ {keys[pos]} ELSE keysDue
  /\ UNCHANGED <<table, contents, cut, removals>>

begin == Visit(IF size > 0 THEN Seek(0) ELSE capacity, {keys[i] : i \in Occupied})

\* Slip: the iterator moves on to the slot after the next occupied one.
AdvanceTwice ==
  /\ iter \in 0 .. capacity - 1
  /\ Visit(IF iter + 1 = capacity THEN capacity ELSE Seek(iter + 2), due)

\* operator++, called only when the iterator is not end().
advance ==
  /\ iter \in 0 .. capacity - 1
  /\ Visit(Seek(iter + 1), due)

Next ==
  \/ \E k \in Key, v \in Value : insert(k, v)
  \/ \E k \in Key : remove(k)
  \/ clear
  \/ assign
  \/ begin
  \/ advance

Spec == Init /\ [][Next]_vars

----------------------------------------------------------------------------
TypeOK ==
  /\ capacity \in Nat
  /\ keys \in [Slots -> Key \cup {Empty}]
  /\ values \in [Slots -> Value \cup {Empty}]
  /\ size \in 0 .. capacity
  /\ iter \in {NoPosition} \cup 0 .. capacity
  /\ contents \in [Key -> Value \cup {Empty}]
  /\ cut \subseteq Key
  /\ due \subseteq Key
  /\ removals \in 0 .. MaxRemovals

\* size counts the occupied slots, and after every call a table still in use has
\* a free one: a probe, which on a full table never ends or returns -1 as a
\* position, ends. (maybe_resize runs before the key goes in, not after.)
HasRoom ==
  /\ size = Cardinality(Occupied)
  /\ capacity > 0 => size < capacity

\* Every key inserted is found with the value it was first inserted with, through
\* collisions, wrap-around and growth, every other key is not, and no key is in
\* two slots. The exceptions are exactly the keys that were behind a slot which
\* remove freed: these it loses, and a second insert stores them again.
LookupExact ==
  capacity > 0 => \A k \in Key \ cut :
     /\ lookup(k) = contents[k]
     /\ Cardinality({i \in Slots : keys[i] = k}) <= 1

\* A walk from begin() to end() visits every key that was in the table when it
\* began and has not been removed since, although keys are inserted and removed
\* under the iterator: as long as the table does not grow, no key moves.
WalkMissesNothing == iter = capacity => due = {}

=============================================================================
