------------------------------- MODULE BkTree -------------------------------
(***************************************************************************)
(* qs::bk_tree: the index of words by distance. An entry's children have   *)
(* different distances from it, and every entry below the child at         *)
(* distance n has distance n from the entry too, so a search leaves out    *)
(* the children the triangle inequality rules out. The tree is walked with *)
(* a stack kept in a qs::vector.                                           *)
(*                                                                         *)
(* One step is one turn of a loop. add is what core.cpp does with a tree:  *)
(* find, and insert when there is no such entry. The children of an entry, *)
(* a skip list in the code, are a sequence in the order of the list.       *)
(***************************************************************************)
EXTENDS Integers, Sequences, FiniteSets, SequencesExt

CONSTANTS
  Word, Null,
  Dist(_, _),   \* the tree's dist_func
  Threshold     \* the thresholds matched with

\* A word has at most MAX_WORD_LENGTH letters, so there are finitely many.
ASSUME BkTreeAssumption ==
  /\ IsFiniteSet(Word)
  /\ \A v, w \in Word : Dist(v, w) \in Nat
  /\ \A v, w \in Word : Dist(v, w) = Dist(w, v) /\ (Dist(v, w) = 0 <=> v = w)
  /\ \A u, v, w \in Word : Dist(u, w) <= Dist(u, v) + Dist(v, w)
  /\ Threshold \subseteq Nat
  /\ Null \notin Word

VARIABLES
  root, children, distance_from_parent, depth,    \* the tree
  pc,               \* the loop it is in
  word, threshold,  \* the arguments
  curr_node,
  child,            \* index of the child the search looks at, 0 between nodes
  stack,            \* the nodes still to visit; its length is curr_stack_pos
  size, capacity,   \* those of the vector that holds the stack
  ret,              \* the entries found
  local_depth,
  added             \* history: the words of the finished calls of add

tree == <<root, children, distance_from_parent, depth>>
walk == <<curr_node, child, stack, size, capacity>>
vars == <<tree, pc, word, threshold, walk, ret, local_depth, added>>

Stack == INSTANCE Vector WITH Reserved <- depth * 2

Larger(m, n) == IF m > n THEN m ELSE n

Init ==
  /\ root = Null
  /\ children = [w \in Word |-> <<>>]
  /\ distance_from_parent = [w \in Word |-> 0]
  /\ depth = 0
  /\ pc = "idle"
  /\ word = Null /\ threshold = 0
  /\ curr_node = Null /\ child = 0 /\ stack = <<>> /\ size = 0 /\ capacity = 0
  /\ ret = <<>>
  /\ local_depth = 0
  /\ added = {}

----------------------------------------------------------------------------
(* The search both find and match make.                                    *)

\* The stack is made and, unless the tree is empty, the root goes onto it.
Begin(loop, w, t) ==
  /\ pc = "idle"
  /\ pc' = loop /\ word' = w /\ threshold' = t
  /\ curr_node' = Null /\ child' = 0 /\ ret' = <<>>
  /\ stack' = IF root = Null THEN <<>> ELSE <<root>>
  /\ size' = Len(stack')
  /\ capacity' = depth * 2
  /\ UNCHANGED <<tree, local_depth, added>>

match(w, t) == Begin("match", w, t)
find(w) == Begin("find", w, 0)

\* Slip: an entry at the threshold is not a match.
PopStrict ==
  /\ pc = "match"
  /\ child = 0
  /\ stack # <<>>
  /\ curr_node' = stack[Len(stack)]
  /\ stack' = SubSeq(stack, 1, Len(stack) - 1)
  /\ ret' = IF Dist(curr_node', word) < threshold THEN Append(ret, curr_node') ELSE ret
  /\ child' = 1
  /\ UNCHANGED <<tree, pc, word, threshold, size, capacity, local_depth, added>>

\* match takes a node off the stack.
Pop ==
  /\ pc = "match"
  /\ child = 0
  /\ stack # <<>>
  /\ curr_node' = stack[Len(stack)]
  /\ stack' = SubSeq(stack, 1, Len(stack) - 1)
  /\ ret' = IF Dist(curr_node', word) <= threshold THEN Append(ret, curr_node') ELSE ret
  /\ child' = 1
  /\ UNCHANGED <<tree, pc, word, threshold, size, capacity, local_depth, added>>

\* find does, and returns when it is the entry looked for.
PopFound ==
  /\ pc = "find"
  /\ child = 0
  /\ stack # <<>>
  /\ curr_node' = stack[Len(stack)]
  /\ stack' = SubSeq(stack, 1, Len(stack) - 1)
  /\ IF Dist(curr_node', word) = 0
     THEN pc' = "idle" /\ ret' = <<curr_node'>> /\ added' = added \cup {word} /\ child' = 0
     ELSE UNCHANGED <<pc, ret, added>> /\ child' = 1
  /\ UNCHANGED <<tree, word, threshold, size, capacity, local_depth>>

\* How far the child looked at is from its parent, and how far the parent is
\* from the word.
Near == distance_from_parent[children[curr_node][child]]
D == Dist(curr_node, word)

Scanning == pc \in {"find", "match"} /\ child > 0

\* Slip: the loop over the children, in rising order, ends at the first that is
\* too near.
SkipEndsScan ==
  /\ Scanning
  /\ child <= Len(children[curr_node])
  /\ Near < D - threshold
  /\ child' = 0
  /\ UNCHANGED <<tree, pc, word, threshold, curr_node, stack, size, capacity, ret,
                 local_depth, added>>

SkipChild ==
  /\ Scanning
  /\ child <= Len(children[curr_node])
  /\ Near < D - threshold
  /\ child' = child + 1
  /\ UNCHANGED <<tree, pc, word, threshold, curr_node, stack, size, capacity, ret,
                 local_depth, added>>

\* Slip: the vector is not asked for room.
PushUnchecked ==
  /\ Scanning
  /\ child <= Len(children[curr_node])
  /\ Near \in D - threshold .. D + threshold
  /\ stack' = Append(stack, children[curr_node][child])
  /\ size' = Larger(size, Len(stack'))
  /\ child' = child + 1
  /\ UNCHANGED <<tree, pc, word, threshold, curr_node, capacity, ret, local_depth, added>>

PushChild ==
  /\ Scanning
  /\ child <= Len(children[curr_node])
  /\ Near \in D - threshold .. D + threshold
  /\ Stack!set(Len(stack))
  /\ stack' = Append(stack, children[curr_node][child])
  /\ child' = child + 1
  /\ UNCHANGED <<tree, pc, word, threshold, curr_node, ret, local_depth, added>>

\* The loop over the children ends, at the last or at one too far.
EndScan ==
  /\ Scanning
  /\ child <= Len(children[curr_node]) => Near > D + threshold
  /\ child' = 0
  /\ UNCHANGED <<tree, pc, word, threshold, curr_node, stack, size, capacity, ret,
                 local_depth, added>>

MatchReturn ==
  /\ pc = "match"
  /\ child = 0
  /\ stack = <<>>
  /\ pc' = "idle"
  /\ UNCHANGED <<tree, word, threshold, walk, ret, local_depth, added>>

\* find returns null, and add inserts the word.
FindReturn ==
  /\ pc = "find"
  /\ child = 0
  /\ stack = <<>>
  /\ pc' = "insert"
  /\ curr_node' = root
  /\ local_depth' = 1
  /\ UNCHANGED <<tree, word, threshold, child, stack, size, capacity, ret, added>>

----------------------------------------------------------------------------
(* insert.                                                                 *)

InsertRoot ==
  /\ pc = "insert"
  /\ root = Null
  /\ root' = word
  /\ depth' = depth + 1
  /\ pc' = "idle"
  /\ added' = added \cup {word}
  /\ UNCHANGED <<children, distance_from_parent, word, threshold, walk, ret, local_depth>>

\* The children of the node at hand that are as far from it as the new entry is.
SameDistance ==
  {c \in Range(children[curr_node]) : distance_from_parent[c] = Dist(curr_node, word)}

\* Where the new entry belongs among them: behind the p nearer ones.
Divides(p) ==
  \A i \in DOMAIN children[curr_node] :
    distance_from_parent[children[curr_node][i]] < Dist(curr_node, word) <=> i <= p

Descend ==
  /\ pc = "insert"
  /\ root # Null
  /\ curr_node' \in SameDistance
  /\ local_depth' = local_depth + 1
  /\ UNCHANGED <<tree, pc, word, threshold, child, stack, size, capacity, ret, added>>

\* Slip: the depth of the tree is that of the last insertion.
AttachLastDepth ==
  /\ pc = "insert"
  /\ root # Null
  /\ SameDistance = {}
  /\ distance_from_parent' = [distance_from_parent EXCEPT ![word] = Dist(curr_node, word)]
  /\ \E p \in 0 .. Len(children[curr_node]) :
       /\ Divides(p)
       /\ children' = [children EXCEPT ![curr_node] = InsertAt(@, p + 1, word)]
  /\ depth' = local_depth + 1
  /\ pc' = "idle"
  /\ added' = added \cup {word}
  /\ UNCHANGED <<root, word, threshold, walk, ret, local_depth>>

\* The entry becomes a child of the node at hand, in its place in the skip list.
Attach ==
  /\ pc = "insert"
  /\ root # Null
  /\ SameDistance = {}
  /\ distance_from_parent' = [distance_from_parent EXCEPT ![word] = Dist(curr_node, word)]
  /\ \E p \in 0 .. Len(children[curr_node]) :
       /\ Divides(p)
       /\ children' = [children EXCEPT ![curr_node] = InsertAt(@, p + 1, word)]
  /\ depth' = Larger(depth, local_depth + 1)
  /\ pc' = "idle"
  /\ added' = added \cup {word}
  /\ UNCHANGED <<root, word, threshold, walk, ret, local_depth>>

----------------------------------------------------------------------------
Step ==
  \/ Pop \/ PopFound
  \/ SkipChild \/ PushChild \/ EndScan
  \/ MatchReturn \/ FindReturn
  \/ InsertRoot \/ Descend \/ Attach

Next ==
  \/ \E w \in Word : find(w)
  \/ \E w \in Word, t \in Threshold : match(w, t)
  \/ Step

Spec == Init /\ [][Next]_vars

----------------------------------------------------------------------------
\* match returns the entries within the threshold, each once: no subtree is left
\* out that has one, in whatever order the words came in.
MatchExact ==
  [][pc = "match" /\ pc' = "idle" =>
       /\ Range(ret') = {w \in added : Dist(w, word) <= threshold}
       /\ Len(ret') = Cardinality(Range(ret'))]_vars

\* find fails only for a word that was never added, so no word is in the tree
\* twice.
FindExact == pc = "insert" => word \notin added

\* The stack has room for the next child: set neither throws nor writes past the
\* end, although the vector is made for twice the depth of the tree and a node
\* may have more children than that.
StackFits == pc \in {"find", "match"} /\ root # Null => Len(stack) <= size /\ size < capacity

\* The words n levels below the root.
Level ==
  LET L[n \in 0 .. Cardinality(Word)] ==
        IF n = 0 THEN {root} \ {Null}
        ELSE UNION {Range(children[w]) : w \in L[n - 1]}
  IN  L

\* depth is the number of levels of the tree, and every word added is in one.
DepthExact ==
  /\ Level[depth] = {}
  /\ depth > 0 => Level[depth - 1] # {}
  /\ added = UNION {Level[n] : n \in 0 .. depth}

=============================================================================
