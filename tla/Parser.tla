------------------------------- MODULE Parser -------------------------------
(***************************************************************************)
(* qs::parse_string over qs::string_view::split: how StartQuery and        *)
(* MatchDocument take the words of their text. A view is the range of the  *)
(* places startp .. endp of the text; one step is one turn of the loop.    *)
(***************************************************************************)
EXTENDS Integers, Sequences, SequencesExt

CONSTANTS
  Letter,
  Delimiter,
  MaxLength    \* of a text

VARIABLES
  text,
  startp, endp,   \* the view of what is left; size 0 when it is empty
  pc,             \* "split" or "done"
  passed          \* history: the tokens f was called with

vars == <<text, startp, endp, pc, passed>>

\* The texts of core.h: at least one character is no space.
Text == {t \in BoundedSeq(Letter \cup {Delimiter}, MaxLength) :
           \E p \in DOMAIN t : t[p] \in Letter}

empty == startp > endp

\* The place the scan of split stops at: a delimiter, or the last character.
Stop == CHOOSE p \in startp .. endp :
          /\ p = endp \/ text[p] = Delimiter
          /\ \A q \in startp .. p - 1 : text[q] # Delimiter

----------------------------------------------------------------------------
Init ==
  /\ text \in Text
  /\ startp = 1 /\ endp = Len(text)
  /\ pc = "split"
  /\ passed = <<>>

\* A token up to a delimiter. One of no letters equals string_view::empty, and
\* the loop of parse_string ends.
SplitAtDelimiter ==
  /\ pc = "split"
  /\ ~empty
  /\ Stop # endp
  /\ startp' = Stop + 1
  /\ IF startp = Stop
     THEN pc' = "done" /\ UNCHANGED passed
     ELSE passed' = Append(passed, SubSeq(text, startp, Stop - 1)) /\ UNCHANGED pc
  /\ UNCHANGED <<text, endp>>

\* The token the text ends with.
SplitLast ==
  /\ pc = "split"
  /\ ~empty
  /\ Stop = endp
  /\ text[endp] # Delimiter
  /\ passed' = Append(passed, SubSeq(text, startp, endp))
  /\ startp' = endp + 1
  /\ UNCHANGED <<text, endp, pc>>

\* The text ends with a delimiter: split empties the view and returns no token,
\* whatever stands before the delimiter.
SplitTrailing ==
  /\ pc = "split"
  /\ ~empty
  /\ Stop = endp
  /\ text[endp] = Delimiter
  /\ startp' = endp + 1
  /\ pc' = "done"
  /\ UNCHANGED <<text, endp, passed>>

SplitEmpty ==
  /\ pc = "split"
  /\ empty
  /\ pc' = "done"
  /\ UNCHANGED <<text, startp, endp, passed>>

Next == SplitAtDelimiter \/ SplitLast \/ SplitTrailing \/ SplitEmpty

Spec == Init /\ [][Next]_vars

----------------------------------------------------------------------------
\* p .. q holds one whole word of the text.
IsWord(p, q) ==
  /\ \A r \in p .. q : text[r] \in Letter
  /\ p = 1 \/ text[p - 1] = Delimiter
  /\ q = Len(text) \/ text[q + 1] = Delimiter

\* Every word of a query or of a document is passed on: the text is a set of
\* words separated by spaces (core.h), wherever it has a space more.
EveryWordPassed ==
  pc = "done" =>
    \A p, q \in DOMAIN text : p <= q /\ IsWord(p, q)
      => Contains(passed, SubSeq(text, p, q))

=============================================================================
