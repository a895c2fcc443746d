------------------------------- MODULE Words -------------------------------
(***************************************************************************)
(* Words as sequences of letters, and the two distances core.h defines a   *)
(* match by, as textbooks define them.                                     *)
(***************************************************************************)
EXTENDS Integers, Sequences, FiniteSets

WordsOver(alphabet, lengths) == UNION {[1 .. n -> alphabet] : n \in lengths}

\* The word s without the letter c.
Without(s, c) ==
  LET kept == {k \in DOMAIN s : s[k] # c}
  IN  [n \in 1 .. Cardinality(kept) |->
         s[CHOOSE k \in kept : Cardinality({m \in kept : m <= k}) = n]]

Least(S) == CHOOSE n \in S : \A m \in S : n <= m

\* The least number of letters to insert, delete or replace to turn s into t.
Levenshtein(s, t) ==
  LET L[p \in (0 .. Len(s)) \X (0 .. Len(t))] ==
        LET i == p[1]
            j == p[2]
        IN  IF i = 0 \/ j = 0 THEN i + j
            ELSE Least({L[<<i - 1, j>>] + 1, L[<<i, j - 1>>] + 1,
                        L[<<i - 1, j - 1>>] + IF s[i] = t[j] THEN 0 ELSE 1})
  IN  L[<<Len(s), Len(t)>>]

\* The number of places two words of one length differ in.
Hamming(s, t) == Cardinality({i \in DOMAIN s : s[i] # t[i]})

=============================================================================
