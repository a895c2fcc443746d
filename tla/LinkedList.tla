----------------------------- MODULE LinkedList -----------------------------
(***************************************************************************)
(* qs::linked_list and qs::queue with strings for elements, pointer by     *)
(* pointer. The engine moves a document, with the string that owns its     *)
(* text, from the list docs to the queue finished_results in this way.     *)
(*                                                                         *)
(* A caller may have one iterator open, of either kind. What a freed node  *)
(* holds is erased. History: due are the nodes the walk has to visit yet.  *)
(***************************************************************************)
EXTENDS Strings, FiniteSets

CONSTANTS Node, List

ASSUME LinkedListAssumption ==
  /\ Place = Node \cup Variable
  /\ Node \cap Variable = {}
  /\ IsFiniteSet(Node)
  /\ NULL \notin Node

VARIABLES
  nodes,            \* those allocated
  next, prev,
  head, tail, size,
  built,            \* the lists that are constructed
  iter,             \* the node of the open iterator, NULL at the end
  walk,             \* "forward", "reverse" or "none" for no iterator
  due

links == <<nodes, next, prev>>
lists == <<head, tail, size, built>>
iterator == <<iter, walk, due>>
vars == <<strings, links, lists, iterator>>

Init ==
  /\ InitStrings
  /\ nodes = {}
  /\ next = [n \in Node |-> NULL]
  /\ prev = [n \in Node |-> NULL]
  /\ head = [l \in List |-> NULL]
  /\ tail = [l \in List |-> NULL]
  /\ size = [l \in List |-> 0]
  /\ built = {}
  /\ iter = NULL
  /\ walk = "none"
  /\ due = {}

\* The nodes met from n on by the pointers in step. There are no more than Node
\* has; a chain that does not end is cut after the first that is met twice.
Chain(step, n) ==
  LET onward[p \in (Node \cup {NULL}) \X (0 .. Cardinality(Node))] ==
        IF p[1] = NULL THEN <<>>
        ELSE <<p[1]>> \o IF p[2] = 0 THEN <<>> ELSE onward[<<step[p[1]], p[2] - 1>>]
  IN  onward[<<n, Cardinality(Node)>>]

Forward(l) == Chain(next, head[l])
Backward(l) == Chain(prev, tail[l])
OnList(l) == Range(Forward(l))

\* What a caller can reach.
Sources == Variable \cup UNION {OnList(l) : l \in built}

\* The iterator after the nodes in gone were freed; one that points to such a
\* node must not be used again.
KeepIterator(gone) ==
  IF iter \in gone
  THEN iter' = NULL /\ walk' = "none" /\ due' = {}
  ELSE iter' = iter /\ walk' = walk /\ due' = due \ gone

----------------------------------------------------------------------------
\* Elements. p is where the value comes from: a variable or another element.

Construct(l) ==
  /\ l \notin built
  /\ built' = built \cup {l}
  /\ head' = [head EXCEPT ![l] = NULL]
  /\ tail' = [tail EXCEPT ![l] = NULL]
  /\ size' = [size EXCEPT ![l] = 0]
  /\ UNCHANGED <<strings, links, iterator>>

\* append at the end, the value in its node n already.
LinkLast(l, n) ==
  /\ l \in built
  /\ nodes' = nodes \cup {n}
  /\ prev' = [prev EXCEPT ![n] = tail[l]]
  /\ tail' = [tail EXCEPT ![l] = n]
  /\ size' = [size EXCEPT ![l] = @ + 1]
  /\ IF head[l] = NULL /\ tail[l] = NULL
     THEN head' = [head EXCEPT ![l] = n] /\ next' = [next EXCEPT ![n] = NULL]
     ELSE head' = head /\ next' = [next EXCEPT ![n] = NULL, ![tail[l]] = n]
  /\ UNCHANGED <<built, iterator>>

appendCopy(l, n, p) ==
  /\ Readable(p)
  /\ \E b \in Free : Remember(CopyConstruct(memory, n, p, b))
  /\ LinkLast(l, n)

appendMove(l, n, p) ==
  /\ Remember(MoveConstruct(memory, n, p))
  /\ LinkLast(l, n)

\* list_node's operator==, which compares contents, after the step.
SameNode(m, n) ==
  /\ Text([heap |-> heap', str |-> str'], m) = Text([heap |-> heap', str |-> str'], n)
  /\ next'[m] = next'[n]
  /\ prev'[m] = prev'[n]

\* Slip: nodes are the same that have the same value.
AppendAfterByValue(l, at, n, p) ==
  /\ Readable(p)
  /\ \E b \in Free : Remember(CopyConstruct(memory, n, p, b))
  /\ nodes' = nodes \cup {n}
  /\ next' = [next EXCEPT ![n] = next[at], ![at] = n]
  /\ prev' = IF next[at] = NULL THEN [prev EXCEPT ![n] = at]
             ELSE [prev EXCEPT ![n] = at, ![next[at]] = n]
  /\ tail' = [tail EXCEPT ![l] = IF Text(memory, at) = Text(memory, @) THEN n ELSE @]
  /\ size' = [size EXCEPT ![l] = @ + 1]
  /\ UNCHANGED <<head, built, iterator>>

\* append after node at, which is on list l. The test for the last node comes
\* when at is linked to n already, so that only the last one equals the last.
appendAfter(l, at, n, p) ==
  /\ Readable(p)
  /\ \E b \in Free : Remember(CopyConstruct(memory, n, p, b))
  /\ nodes' = nodes \cup {n}
  /\ next' = [next EXCEPT ![n] = next[at], ![at] = n]
  /\ prev' = IF next[at] = NULL THEN [prev EXCEPT ![n] = at]
             ELSE [prev EXCEPT ![n] = at, ![next[at]] = n]
  /\ tail' = [tail EXCEPT ![l] = IF SameNode(at, @) THEN n ELSE @]
  /\ size' = [size EXCEPT ![l] = @ + 1]
  /\ UNCHANGED <<head, built, iterator>>

prepend(l, at, n, p) ==
  /\ Readable(p)
  /\ \E b \in Free : Remember(CopyConstruct(memory, n, p, b))
  /\ nodes' = nodes \cup {n}
  /\ prev' = [prev EXCEPT ![n] = prev[at], ![at] = n]
  /\ next' = IF prev[at] = NULL THEN [next EXCEPT ![n] = at]
             ELSE [next EXCEPT ![n] = at, ![prev[at]] = n]
  /\ head' = [head EXCEPT ![l] = IF SameNode(at, @) THEN n ELSE @]
  /\ size' = [size EXCEPT ![l] = @ + 1]
  /\ UNCHANGED <<tail, built, iterator>>

\* remove past the destruction of the value in node.
Unlink(l, node) ==
  LET before == prev[node]
      after == next[node]
  IN  /\ next' = [n \in Node |-> IF n = node THEN NULL ELSE IF n = before THEN after ELSE next[n]]
      /\ prev' = [n \in Node |-> IF n = node THEN NULL ELSE IF n = after THEN before ELSE prev[n]]
      /\ head' = [head EXCEPT ![l] = IF @ = node THEN after ELSE @]
      /\ tail' = [tail EXCEPT ![l] = IF @ = node THEN before ELSE @]
      /\ size' = [size EXCEPT ![l] = @ - 1]
      /\ nodes' = nodes \ {node}
      /\ KeepIterator({node})
      /\ UNCHANGED built

remove(l, node) == Remember(Destruct(memory, {node})) /\ Unlink(l, node)

\* queue::dequeue moves the value of the head out, into v in the end, and removes
\* the node, whose string is empty by then.
dequeue(l, v) ==
  /\ l \in built
  /\ head[l] # NULL
  /\ Remember(Destruct(MoveAssign(memory, v, head[l]), {head[l]}))
  /\ Unlink(l, head[l])

----------------------------------------------------------------------------
\* Whole lists.

\* Slip: m keeps what it hands over.
HandOverCopy(l, m) ==
  /\ head' = [head EXCEPT ![l] = head[m]]
  /\ tail' = [tail EXCEPT ![l] = tail[m]]
  /\ size' = [size EXCEPT ![l] = size[m]]
  /\ UNCHANGED <<strings, links, iterator>>

\* l gets what m has, and m is left empty.
HandOver(l, m) ==
  /\ head' = [head EXCEPT ![l] = head[m], ![m] = NULL]
  /\ tail' = [tail EXCEPT ![l] = tail[m], ![m] = NULL]
  /\ size' = [size EXCEPT ![l] = size[m], ![m] = 0]
  /\ UNCHANGED <<strings, links, iterator>>

MoveConstructList(l, m) ==
  /\ l \notin built /\ m \in built
  /\ HandOver(l, m)
  /\ built' = built \cup {l}

\* The nodes l had are not deleted, nor is assigning a list to itself excepted.
MoveAssignList(l, m) ==
  /\ l \in built /\ m \in built
  /\ HandOver(l, m)
  /\ UNCHANGED built

\* Slip: the last node is not deleted.
DestroyButLast(l) ==
  /\ l \in built
  /\ built' = built \ {l}
  /\ LET gone == OnList(l) \ {tail[l]}
     IN  /\ Remember(Destruct(memory, gone))
         /\ nodes' = nodes \ gone
         /\ next' = [n \in Node |-> IF n \in gone THEN NULL ELSE next[n]]
         /\ prev' = [n \in Node |-> IF n \in gone THEN NULL ELSE prev[n]]
         /\ KeepIterator(gone)
  /\ head' = [head EXCEPT ![l] = NULL]
  /\ tail' = [tail EXCEPT ![l] = NULL]
  /\ size' = [size EXCEPT ![l] = 0]

\* The destructor deletes the nodes from head to the end.
Destroy(l) ==
  /\ l \in built
  /\ built' = built \ {l}
  /\ LET gone == OnList(l)
     IN  /\ Remember(Destruct(memory, gone))
         /\ nodes' = nodes \ gone
         /\ next' = [n \in Node |-> IF n \in gone THEN NULL ELSE next[n]]
         /\ prev' = [n \in Node |-> IF n \in gone THEN NULL ELSE prev[n]]
         /\ KeepIterator(gone)
  /\ head' = [head EXCEPT ![l] = NULL]
  /\ tail' = [tail EXCEPT ![l] = NULL]
  /\ size' = [size EXCEPT ![l] = 0]

----------------------------------------------------------------------------
\* Iterators.

StartAt(n, direction, l) ==
  /\ l \in built
  /\ iter' = n
  /\ walk' = direction
  /\ due' = OnList(l) \ {n}
  /\ UNCHANGED <<strings, links, lists>>

begin(l) == StartAt(head[l], "forward", l)
rbegin(l) == StartAt(tail[l], "reverse", l)

Following(n) == IF walk = "reverse" THEN prev[n] ELSE next[n]

\* Slip: a reverse iterator moves forward.
AdvanceForward ==
  /\ walk # "none"
  /\ iter # NULL
  /\ iter' = next[iter]
  /\ due' = due \ {iter'}
  /\ UNCHANGED <<strings, links, lists, walk>>

\* operator++ of either iterator, which is not at its end.
Advance ==
  /\ walk # "none"
  /\ iter # NULL
  /\ iter' = Following(iter)
  /\ due' = due \ {iter'}
  /\ UNCHANGED <<strings, links, lists, walk>>

ElementStep ==
  \E l \in built :
     \/ \E n \in Node \ nodes, p \in Sources :
           \/ appendCopy(l, n, p)
           \/ appendMove(l, n, p)
           \/ \E at \in OnList(l) : appendAfter(l, at, n, p) \/ prepend(l, at, n, p)
     \/ \E node \in OnList(l) : remove(l, node)
     \/ \E v \in Variable : dequeue(l, v)
     \/ begin(l)
     \/ rbegin(l)

\* The variables of the client, with elements of lists to read and move from.
VariableStep ==
  /\ StringStep(Sources)
  /\ UNCHANGED <<links, lists, iterator>>

Next ==
  \/ ElementStep
  \/ \E l \in List : Construct(l) \/ Destroy(l)
  \/ \E l, m \in List : MoveConstructList(l, m) \/ MoveAssignList(l, m)
  \/ Advance
  \/ VariableStep

Spec == Init /\ [][Next]_vars

----------------------------------------------------------------------------
\* The pointers of a list agree: going back from tail meets the nodes met going
\* on from head, in reverse; there are size of them, all allocated, and no other
\* list has them.
Linked ==
  \A l \in built :
     /\ Backward(l) = Reverse(Forward(l))
     /\ IsInjective(Forward(l))
     /\ size[l] = Len(Forward(l))
     /\ OnList(l) \subseteq nodes
     /\ \A m \in built \ {l} : OnList(l) \cap OnList(m) = {}

LeakedNodes == nodes \ Sources

\* Nothing leaks but by the two assignments that forget what they assign to: a
\* list assigned to by move, and a string assigned to by copy.
OnlyAssignmentsLeak ==
  [][ /\ LeakedNodes' \ LeakedNodes # {} => \E l, m \in List : MoveAssignList(l, m)
      /\ LeakedBuffers' \ LeakedBuffers # {} =>
           \E v \in Variable, q \in Place : CopyAssign(v, q)
    ]_vars

\* Lists that are changed during a walk do not make it miss a node that was on
\* the list when it began and has not been removed.
WalkMissesNothing == walk # "none" /\ iter = NULL => due = {}

TextsOf(path) == [i \in DOMAIN path |-> Text(memory, path[i])]

\* For a caller who looks at texts, lists are sequences and variables are values.
ListTexts == [l \in List |-> IF l \in built THEN TextsOf(Forward(l)) ELSE <<>>]
VariableTexts == [v \in Variable |-> Text(memory, v)]

Lists == INSTANCE Lists WITH elements <- ListTexts, content <- VariableTexts

ImplementsLists == Lists!Spec

=============================================================================
