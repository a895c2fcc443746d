---------------------------- MODULE EditDistance ----------------------------
(***************************************************************************)
(* qs::edit_distance: the matrix of Levenshtein's algorithm in one buffer, *)
(* row by row, after the common prefix and suffix are cut off. One step is *)
(* one turn of a loop.                                                     *)
(***************************************************************************)
EXTENDS Words

CONSTANTS
  Letter,
  Word      \* the words compared

ASSUME EditDistanceAssumption == Word \subseteq Seq(Letter)

VARIABLES
  s1, s2,             \* the arguments
  max_str, min_str,   \* what is left of the longer and of the shorter one
  d, prev,            \* the buffer; the entry left above the one to compute
  i, j,               \* the loop variables
  pc,
  result

args == <<s1, s2>>
strs == <<max_str, min_str>>
row == <<d, prev, i, j>>
vars == <<args, strs, row, pc, result>>

max_len == Len(max_str)
min_len == Len(min_str)

----------------------------------------------------------------------------
Init ==
  /\ s1 \in Word /\ s2 \in Word
  /\ IF Len(s1) < Len(s2) THEN max_str = s2 /\ min_str = s1
                          ELSE max_str = s1 /\ min_str = s2
  /\ d = <<>> /\ prev = 0 /\ i = 0 /\ j = 0
  /\ pc = "prefix"
  /\ result = 0

SkipPrefix ==
  /\ pc = "prefix"
  /\ IF min_str # <<>> /\ max_str[1] = min_str[1]
     THEN max_str' = Tail(max_str) /\ min_str' = Tail(min_str) /\ pc' = pc
     ELSE UNCHANGED strs /\ pc' = "suffix"
  /\ UNCHANGED <<args, row, result>>

Front(s) == SubSeq(s, 1, Len(s) - 1)

\* Slip: the letters compared are those at one index, not the last of each.
SkipSuffixAtIndex ==
  /\ pc = "suffix"
  /\ IF min_str # <<>> /\ max_str[min_len] = min_str[min_len]
     THEN max_str' = Front(max_str) /\ min_str' = Front(min_str) /\ pc' = pc
     ELSE UNCHANGED strs /\ pc' = "table"
  /\ UNCHANGED <<args, row, result>>

SkipSuffix ==
  /\ pc = "suffix"
  /\ IF min_str # <<>> /\ max_str[max_len] = min_str[min_len]
     THEN max_str' = Front(max_str) /\ min_str' = Front(min_str) /\ pc' = pc
     ELSE UNCHANGED strs /\ pc' = "table"
  /\ UNCHANGED <<args, row, result>>

\* One word is all of the other's prefix and suffix.
Contained ==
  /\ pc = "table"
  /\ min_str = <<>>
  /\ result' = max_len
  /\ pc' = "done"
  /\ UNCHANGED <<args, strs, row>>

InitBuffer ==
  /\ pc = "table"
  /\ min_str # <<>>
  /\ d' = [k \in 0 .. max_len |-> k]
  /\ i' = 0
  /\ pc' = "row"
  /\ UNCHANGED <<args, strs, prev, j, result>>

\* Slip: d[0] keeps the value of the row above.
RowUnset ==
  /\ pc = "row"
  /\ i < min_len
  /\ i' = i + 1
  /\ prev' = i
  /\ j' = 1
  /\ pc' = "cell"
  /\ UNCHANGED <<args, strs, d, result>>

StartRow ==
  /\ pc = "row"
  /\ i < min_len
  /\ i' = i + 1
  /\ d' = [d EXCEPT ![0] = i + 1]
  /\ prev' = i
  /\ j' = 1
  /\ pc' = "cell"
  /\ UNCHANGED <<args, strs, result>>

\* Slip: prev is read after d[j] was written.
CellLate ==
  /\ pc = "cell"
  /\ j <= max_len
  /\ LET sub == prev + IF min_str[i] = max_str[j] THEN 0 ELSE 1
         best == Least({sub, d[j - 1] + 1, d[j] + 1})
     IN  /\ d' = [d EXCEPT ![j] = best]
         /\ prev' = best
  /\ j' = j + 1
  /\ UNCHANGED <<args, strs, i, pc, result>>

Cell ==
  /\ pc = "cell"
  /\ j <= max_len
  /\ LET sub == prev + IF min_str[i] = max_str[j] THEN 0 ELSE 1
     IN  d' = [d EXCEPT ![j] = Least({sub, d[j - 1] + 1, @ + 1})]
  /\ prev' = d[j]
  /\ j' = j + 1
  /\ UNCHANGED <<args, strs, i, pc, result>>

EndRow ==
  /\ pc = "cell"
  /\ j > max_len
  /\ pc' = "row"
  /\ UNCHANGED <<args, strs, row, result>>

Return ==
  /\ pc = "row"
  /\ i = min_len
  /\ result' = d[max_len]
  /\ pc' = "done"
  /\ UNCHANGED <<args, strs, row>>

Next ==
  \/ SkipPrefix \/ SkipSuffix
  \/ Contained \/ InitBuffer
  \/ StartRow \/ Cell \/ EndRow
  \/ Return

Spec == Init /\ [][Next]_vars

----------------------------------------------------------------------------
\* Cutting the common prefix and suffix off leaves the distance as it was.
CutKeepsDistance == Levenshtein(max_str, min_str) = Levenshtein(s1, s2)

\* The distance of the first m letters of the shorter and n of the longer word.
Entry(m, n) == Levenshtein(SubSeq(min_str, 1, m), SubSeq(max_str, 1, n))

\* The one buffer holds row i of the matrix up to column j and row i - 1 from
\* there on; the entry overwritten last, which the next one needs, is in prev.
BufferIsTwoRows ==
  pc = "cell" =>
    /\ \A k \in 0 .. max_len : d[k] = IF k < j THEN Entry(i, k) ELSE Entry(i - 1, k)
    /\ prev = Entry(i - 1, j - 1)

\* The result is the edit distance of the two words.
EditExact == pc = "done" => result = Levenshtein(s1, s2)

=============================================================================
