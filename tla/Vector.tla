------------------------------- MODULE Vector -------------------------------
(***************************************************************************)
(* qs::vector: how a vector grows. Only its size and its capacity are      *)
(* kept; the elements it holds are its user's. The vector is made with     *)
(* room for Reserved elements.                                             *)
(***************************************************************************)
EXTENDS Integers

CONSTANT Reserved

VARIABLES size, capacity

vars == <<size, capacity>>

Init ==
  /\ size = 0
  /\ capacity = Reserved

\* maybe_resize: the quotient is one of integers, so the vector grows when its
\* last slot is about to be filled; capacity * 1.5 is cut to an integer.
Resized == IF ((size + 1) \div capacity) * 100 >= 75 THEN (capacity * 3) \div 2
           ELSE capacity

push ==
  /\ capacity' = Resized
  /\ size' = size + 1

\* set at an index that may be the one after the last.
set(index) ==
  /\ index < capacity
  /\ IF index < size THEN UNCHANGED vars ELSE push

Next == push \/ \E index \in 0 .. size : set(index)

Spec == Init /\ [][Next]_vars

----------------------------------------------------------------------------
\* There is always a free slot: push, which does not check, never writes past
\* the array, and set at the next index never throws.
HasSlot == size < capacity

\* A vector made with room for twice the elements it gets is never moved: the
\* addresses of its elements, which the constructor of scheduler hands to its
\* threads while it adds more, stay good.
StaysPut == 2 * size <= Reserved => capacity = Reserved

=============================================================================
