------------------------------- MODULE Strings -------------------------------
(***************************************************************************)
(* qs::string: a pointer to a buffer of the heap, which the string owns. A *)
(* buffer has a room, cap in the code, and holds a text, whose length is   *)
(* len. A string that was moved from, or made without a text, points to    *)
(* NULL and has len and cap 0.                                             *)
(*                                                                         *)
(* The memory of a state is a record of heap and str, and the operators    *)
(* take a memory to the one after the call; b is the buffer new returned.   *)
(***************************************************************************)
EXTENDS Integers, Sequences, SequencesExt, Words

CONSTANTS
  Place,       \* where a string may be: variables, values of list nodes
  Variable,    \* those that are variables of the client
  Buffer, NULL,
  Given,       \* the texts strings are made of
  MaxLength    \* bound: of a text

ASSUME StringsAssumption ==
  /\ Variable \subseteq Place
  /\ NULL \notin Buffer
  /\ MaxLength \in Nat
  /\ \A t \in Given : t \in Seq(Range(t)) /\ Len(t) <= MaxLength

VARIABLES
  heap,   \* heap[b]: the text in b and its room
  str     \* str[p]: the buffer of the string at p

\* A buffer that is given back, or was never given out, has no room.
Freed == [text |-> <<>>, cap |-> 0]

memory == [heap |-> heap, str |-> str]
strings == <<heap, str>>

Remember(m) == heap' = m.heap /\ str' = m.str

InitStrings ==
  /\ heap = [b \in Buffer |-> Freed]
  /\ str = [p \in Place |-> NULL]

\* The buffers new may return.
Free == {b \in Buffer : heap[b] = Freed}
Letters == UNION {Range(t) : t \in Given}

\* operator==, data() and length(): what a string says.
Text(m, p) == IF m.str[p] = NULL THEN <<>> ELSE m.heap[m.str[p]].text

\* A string at p in a new buffer b with the text t and room for n characters.
Make(m, p, b, t, n) ==
  [heap |-> [m.heap EXCEPT ![b] = [text |-> t, cap |-> n + 1]],
   str |-> [m.str EXCEPT ![p] = b]]

CopyConstruct(m, p, q, b) == Make(m, p, b, Text(m, q), Len(Text(m, q)))

MoveConstruct(m, p, q) ==
  [heap |-> m.heap, str |-> [m.str EXCEPT ![p] = m.str[q], ![q] = NULL]]

\* The strings at the places in gone are destructed, each with its buffer.
Destruct(m, gone) ==
  [heap |-> [b \in Buffer |-> IF \E p \in gone : m.str[p] = b THEN Freed ELSE m.heap[b]],
   str |-> [p \in Place |-> IF p \in gone THEN NULL ELSE m.str[p]]]

MoveAssign(m, p, q) == IF p = q THEN m ELSE MoveConstruct(Destruct(m, {p}), p, q)

----------------------------------------------------------------------------
\* What the client does with its variables. The copies, and cat past the end of
\* the buffer, read the terminator of their source: it must not be NULL.

Readable(p) == str[p] # NULL

\* v = string(t), and v = string::with_size(n). The new string is made before the
\* old buffer of v is given back.
Assign(v) ==
  \E b \in Free :
     \/ \E t \in Given : Remember(Make(Destruct(memory, {v}), v, b, t, Len(t)))
     \/ \E n \in 1 .. MaxLength : Remember(Make(Destruct(memory, {v}), v, b, <<>>, n))

\* v = q, by copy. The buffer v had is not given back.
CopyAssign(v, q) ==
  /\ Readable(q)
  /\ v # q
  /\ \E b \in Free : Remember(CopyConstruct(memory, v, q, b))

\* v = std::move(q).
TakeOver(v, q) == v # q /\ Remember(MoveAssign(memory, v, q))

Joined(v, q) == Text(memory, v) \o Text(memory, q)

\* Slip: the terminator is not counted.
CatInPlaceTight(v, q) ==
  /\ Readable(v)
  /\ heap[str[v]].cap >= Len(Joined(v, q))
  /\ heap' = [heap EXCEPT ![str[v]].text = Joined(v, q)]
  /\ UNCHANGED str

\* cat when the buffer of v has room for both and the terminator.
CatInPlace(v, q) ==
  /\ Readable(v)
  /\ heap[str[v]].cap > Len(Joined(v, q))
  /\ heap' = [heap EXCEPT ![str[v]].text = Joined(v, q)]
  /\ UNCHANGED str

\* The string v in a new buffer made to measure for both.
JoinAnew(v, q) ==
  /\ Len(Joined(v, q)) <= MaxLength
  /\ \E b \in Free :
        Remember(Make(Destruct(memory, {v}), v, b, Joined(v, q), Len(Joined(v, q))))

\* cat otherwise; a string without a buffer has cap 0.
CatAnew(v, q) ==
  /\ Readable(q)
  /\ Readable(v) => heap[str[v]].cap <= Len(Joined(v, q))
  /\ JoinAnew(v, q)

\* v = v + q.
Plus(v, q) == JoinAnew(v, q)

\* sanitize with one letter in the set.
Sanitize(v, c) ==
  /\ Readable(v)
  /\ heap' = [heap EXCEPT ![str[v]].text = Without(@, c)]
  /\ UNCHANGED str

\* sources: where the strings are that v is given a copy or the contents of.
StringStep(sources) ==
  \E v \in Variable :
     \/ Assign(v)
     \/ \E q \in sources : CopyAssign(v, q) \/ TakeOver(v, q) \/ CatInPlace(v, q)
                          \/ CatAnew(v, q) \/ Plus(v, q)
     \/ \E c \in Letters : Sanitize(v, c)

----------------------------------------------------------------------------
Owned == {str[p] : p \in Place} \ {NULL}

\* Buffers no string points to any more.
LeakedBuffers == {b \in Buffer : heap[b] # Freed} \ Owned

\* Every string has a buffer to itself, one that is not freed and has room for
\* its text and the terminator: nothing is freed twice or written past its end.
BufferOwned ==
  /\ \A p \in Place : str[p] # NULL =>
        /\ heap[str[p]] # Freed
        /\ Len(heap[str[p]].text) < heap[str[p]].cap
  /\ \A p, q \in Place : str[p] = str[q] => p = q \/ str[p] = NULL

=============================================================================
