------------------------------ MODULE SkipList ------------------------------
(***************************************************************************)
(* qs::skip_list: a sorted list under towers of random height. The         *)
(* children of an entry of a BK-tree are kept in one, sorted by distance.  *)
(*                                                                         *)
(* levels[i] is the linked list of level i from nodes[i] on; a place in it *)
(* is an index, 0 for a null pointer, so prev and next are the places next *)
(* to it and bottom is the place of the same key one level down. One step  *)
(* is one turn of the loop of find_node or insert_node.                    *)
(*                                                                         *)
(* data_list, which owns the keys, is left out: insert appends to it first *)
(* of all, a key that is there already too, and no level points to that    *)
(* element.                                                                *)
(***************************************************************************)
EXTENDS Integers, Sequences, FiniteSets, SequencesExt

CONSTANTS
  L,      \* the number of levels
  Key,    \* numbers; cmp is their difference
  Unset   \* a size nobody set

ASSUME SkipListAssumption == L \in Nat \ {0} /\ Key \subseteq Nat /\ Unset \notin Nat

VARIABLES
  levels, size,
  pc,             \* "idle", "find" or "insert"
  data,           \* the key looked for or to insert
  level, n,       \* the level and the place the descent is at
  descent_path,   \* per level, the place the new node goes after
  result,         \* of the last call: a find found its key
  source,         \* the keys a copy has still to insert
  keys            \* history: the keys inserted

list == <<levels, size, keys>>
call == <<pc, data, level, n, descent_path, result>>
vars == <<list, call, source>>

Level == 0 .. L - 1
Free == pc = "idle" /\ source = {}
Searching == pc \in {"find", "insert"}

First(i) == IF levels[i] = <<>> THEN 0 ELSE 1
At == levels[level][n]
AtEnd == n = Len(levels[level])

\* The call returns, and its locals are gone.
Return ==
  /\ pc' = "idle" /\ data' = 0 /\ level' = 0 /\ n' = 0
  /\ descent_path' = [i \in Level |-> 0]

\* Where the descent goes on one level below place p: under its node, or at the
\* head.
Below(p) ==
  IF p = 0 THEN First(level - 1)
  ELSE CHOOSE q \in DOMAIN levels[level - 1] : levels[level - 1][q] = levels[level][p]

----------------------------------------------------------------------------
Init ==
  /\ levels = [i \in Level |-> <<>>]
  /\ size = 0
  /\ pc = "idle" /\ data = 0 /\ level = 0 /\ n = 0
  /\ descent_path = [i \in Level |-> 0]
  /\ result = FALSE
  /\ source = {}
  /\ keys = {}

find(k) ==
  /\ Free
  /\ pc' = "find" /\ data' = k
  /\ level' = L - 1 /\ n' = First(L - 1)
  /\ result' = FALSE
  /\ UNCHANGED <<list, descent_path, source>>

\* The copy constructor and copy assignment insert the keys of another list, whose
\* keys are from, in the order of its data_list. The constructor leaves size as
\* it finds it; assignment keeps the keys that are there.
CopyConstruct(from) ==
  /\ Free
  /\ levels' = [i \in Level |-> <<>>]
  /\ size' = Unset
  /\ source' = from
  /\ keys' = from
  /\ UNCHANGED call

Assign(from) ==
  /\ Free
  /\ source' = from
  /\ keys' = keys \cup from
  /\ UNCHANGED <<levels, size, call>>

\* insert is called by the client, or by a copy.
Called(k) ==
  /\ pc = "idle"
  /\ source # {} => k \in source
  /\ source' = source \ {k}

Larger == IF size = Unset THEN Unset ELSE size + 1

\* The first key: a tower of random height over empty levels.
InsertFirst(k) ==
  /\ Called(k)
  /\ levels[0] = <<>>
  /\ \E height \in Level :
       levels' = [i \in Level |-> IF i <= height THEN <<k>> ELSE levels[i]]
  /\ size' = Larger
  /\ keys' = keys \cup {k}
  /\ UNCHANGED call

insert(k) ==
  /\ Called(k)
  /\ levels[0] # <<>>
  /\ pc' = "insert" /\ data' = k
  /\ level' = L - 1 /\ n' = First(L - 1)
  /\ result' = FALSE
  /\ UNCHANGED <<list, descent_path>>

\* The descent leaves a level behind place p.
Descend(p) ==
  /\ descent_path' = [descent_path EXCEPT ![level] = IF pc = "insert" THEN p ELSE @]
  /\ level' = level - 1
  /\ n' = Below(p)
  /\ UNCHANGED <<list, pc, data, result, source>>

SkipEmptyLevel == Searching /\ n = 0 /\ level # 0 /\ Descend(0)

\* Slip: the descent goes on below the node that is past the key.
DescendPast == Searching /\ n # 0 /\ level # 0 /\ At > data /\ Descend(n)

DescendBefore == Searching /\ n # 0 /\ level # 0 /\ At > data /\ Descend(n - 1)

DescendAtEnd == Searching /\ n # 0 /\ level # 0 /\ At < data /\ AtEnd /\ Descend(n)

\* On to the next node. Find, on the lowest level, goes on past larger keys.
Advance ==
  /\ Searching
  /\ n # 0
  /\ \/ At < data /\ ~AtEnd
     \/ pc = "find" /\ level = 0 /\ At # data
  /\ n' = IF AtEnd THEN 0 ELSE n + 1
  /\ UNCHANGED <<list, pc, data, level, descent_path, result, source>>

\* The key is there: find returns its node, insert leaves the list as it is.
Found ==
  /\ Searching
  /\ n # 0
  /\ At = data
  /\ Return
  /\ result' = (pc = "find")
  /\ UNCHANGED <<list, source>>

NotFound ==
  /\ pc = "find"
  /\ n = 0
  /\ level = 0
  /\ Return
  /\ result' = FALSE
  /\ UNCHANGED <<list, source>>

\* Slip: the tower is one level lower than it should be, and may have none.
InsertNoBottom ==
  /\ pc = "insert"
  /\ n # 0
  /\ level = 0
  /\ At > data \/ AtEnd
  /\ At # data
  /\ LET path == [descent_path EXCEPT ![0] = IF At > data THEN n - 1 ELSE n]
     IN  \E height \in Level :
           levels' = [i \in Level |-> IF i < height
                                      THEN InsertAt(levels[i], path[i] + 1, data)
                                      ELSE levels[i]]
  /\ size' = Larger
  /\ keys' = keys \cup {data}
  /\ Return
  /\ UNCHANGED <<result, source>>

\* insert_with_path, at the place found on the lowest level: a tower of random
\* height.
InsertWithPath ==
  /\ pc = "insert"
  /\ n # 0
  /\ level = 0
  /\ At > data \/ AtEnd
  /\ At # data
  /\ LET path == [descent_path EXCEPT ![0] = IF At > data THEN n - 1 ELSE n]
     IN  \E height \in Level :
           levels' = [i \in Level |-> IF i <= height
                                      THEN InsertAt(levels[i], path[i] + 1, data)
                                      ELSE levels[i]]
  /\ size' = Larger
  /\ keys' = keys \cup {data}
  /\ Return
  /\ UNCHANGED <<result, source>>

Next ==
  \/ \E k \in Key : find(k) \/ insert(k) \/ InsertFirst(k)
  \/ \E from \in SUBSET Key : CopyConstruct(from) \/ Assign(from)
  \/ SkipEmptyLevel \/ DescendBefore \/ DescendAtEnd
  \/ Advance
  \/ Found \/ NotFound
  \/ InsertWithPath

Spec == Init /\ [][Next]_vars

----------------------------------------------------------------------------
Elements(s) == {s[i] : i \in DOMAIN s}

\* What a copy has still to insert and is not there yet.
Coming ==
  (source \cup IF pc = "insert" THEN {data} ELSE {}) \ Elements(levels[0])

\* Every level is in strict order, so begin to end is the list sorted; a node of
\* a level has one below it; the lowest level holds each key that was inserted or
\* copied once, and size, unless the list is a copy, counts it.
LevelsSorted ==
  /\ \A i \in Level : \A p, q \in DOMAIN levels[i] : p < q => levels[i][p] < levels[i][q]
  /\ \A i \in Level \ {0} : Elements(levels[i]) \subseteq Elements(levels[i - 1])
  /\ Elements(levels[0]) = keys \ Coming
  /\ size \in {Len(levels[0]), Unset}

\* The descent never passes the key: a find of a key that is there, and an
\* insert, have left only smaller keys on their left, at every level and however
\* the towers stand, and on each level an insert has left behind the new node
\* belongs right after the place it remembers.
DescentKeepsKey ==
  /\ Searching /\ (pc = "insert" \/ data \in keys) =>
       \A p \in DOMAIN levels[level] : p < n \/ n = 0 => levels[level][p] < data
  /\ pc = "insert" =>
       \A i \in level + 1 .. L - 1 : \A p \in DOMAIN levels[i] :
         levels[i][p] < data <=> p <= descent_path[i]

\* find finds the keys that were inserted, and no other.
FindExact == [][pc = "find" /\ pc' = "idle" => result' = (data \in keys)]_vars

=============================================================================
