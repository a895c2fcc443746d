-------------------------------- MODULE Lists --------------------------------
(***************************************************************************)
(* What qs::linked_list and qs::queue promise: a list is a sequence of     *)
(* texts, and nothing that is done to one list, element or variable shows  *)
(* in another. An element that was moved from is the empty text.           *)
(***************************************************************************)
EXTENDS Integers, Sequences, SequencesExt, Words

CONSTANTS
  List, Variable,
  Given         \* the texts variables are made of

VARIABLES
  built,        \* the lists that are constructed
  elements,     \* elements[l]: a sequence of texts
  content       \* content[v]: the text of the client's variable v

vars == <<built, elements, content>>

\* The elements, as pairs of a list and a place in it, and all texts about.
Element == UNION {{<<l, i>> : i \in DOMAIN elements[l]} : l \in built}
TextOf(e) == elements[e[1]][e[2]]
Texts == {content[v] : v \in Variable} \cup {TextOf(e) : e \in Element}

\* The lists after the text of element e was moved from.
Emptied(e) ==
  [l \in List |-> IF l = e[1] THEN ReplaceAt(elements[l], e[2], <<>>) ELSE elements[l]]

Init ==
  /\ built = {}
  /\ elements = [l \in List |-> <<>>]
  /\ content = [v \in Variable |-> <<>>]

----------------------------------------------------------------------------
Construct(l) ==
  /\ l \notin built
  /\ built' = built \cup {l}
  /\ UNCHANGED <<elements, content>>

Destroy(l) ==
  /\ l \in built
  /\ built' = built \ {l}
  /\ elements' = [elements EXCEPT ![l] = <<>>]
  /\ UNCHANGED content

\* l is constructed or assigned from m, which is empty from then on, even if it
\* is l.
MoveList(l, m) ==
  /\ m \in built
  /\ built' = built \cup {l}
  /\ elements' = [elements EXCEPT ![l] = elements[m], ![m] = <<>>]
  /\ UNCHANGED content

\* A copy of a text becomes the i-th element.
InsertCopy(l, i, t) ==
  /\ l \in built
  /\ elements' = [elements EXCEPT ![l] = InsertAt(@, i, t)]
  /\ UNCHANGED <<built, content>>

AppendVariable(l, v) ==
  /\ l \in built
  /\ elements' = [elements EXCEPT ![l] = Append(@, content[v])]
  /\ content' = [content EXCEPT ![v] = <<>>]
  /\ UNCHANGED built

\* The text of an element is moved to the end of a list; the element stays.
AppendElement(l, e) ==
  /\ l \in built
  /\ elements' = [k \in List |-> IF k = l THEN Append(Emptied(e)[k], TextOf(e))
                               ELSE Emptied(e)[k]]
  /\ UNCHANGED <<built, content>>

Erase(e) ==
  /\ elements' = [elements EXCEPT ![e[1]] = RemoveAt(@, e[2])]
  /\ UNCHANGED <<built, content>>

Dequeue(l, v) ==
  /\ l \in built
  /\ elements[l] # <<>>
  /\ elements' = [elements EXCEPT ![l] = Tail(@)]
  /\ content' = [content EXCEPT ![v] = Head(elements[l])]
  /\ UNCHANGED built

Take(v, e) ==
  /\ elements' = Emptied(e)
  /\ content' = [content EXCEPT ![v] = TextOf(e)]
  /\ UNCHANGED built

\* What a variable may be after one call on it: a text made or copied, itself
\* joined with another, or itself without one of its letters.
Results(v) ==
  Given \cup {<<>>} \cup Texts \cup {content[v] \o t : t \in Texts}
    \cup {Without(content[v], c) : c \in UNION {Range(t) : t \in Given}}

Write(v) ==
  /\ \E t \in Results(v) : content' = [content EXCEPT ![v] = t]
  /\ UNCHANGED <<built, elements>>

\* The text of u is moved to v.
MoveVariable(v, u) ==
  /\ content' = [content EXCEPT ![v] = content[u], ![u] = <<>>]
  /\ UNCHANGED <<built, elements>>

Next ==
  \/ \E v \in Variable : Write(v) \/ \E u \in Variable \ {v} : MoveVariable(v, u)
  \/ \E l \in List : Construct(l) \/ Destroy(l)
  \/ \E l, m \in List : MoveList(l, m)
  \/ \E l \in List, v \in Variable : AppendVariable(l, v) \/ Dequeue(l, v)
  \/ \E e \in Element : Erase(e) \/ (\E v \in Variable : Take(v, e))
  \/ \E e \in Element, l \in List : AppendElement(l, e)
  \/ \E l \in built, t \in Texts : \E i \in 1 .. Len(elements[l]) + 1 : InsertCopy(l, i, t)

Spec == Init /\ [][Next]_vars

=============================================================================
