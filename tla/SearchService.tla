--------------------------- MODULE SearchService ---------------------------
(***************************************************************************)
(* What include/core.h promises the caller of the engine, with no index,   *)
(* no counter, no job and no thread: a set of active queries, and for each *)
(* document pushed with MatchDocument one answer, handed out once, in any  *)
(* order, that depends only on the queries active when the document was    *)
(* pushed.                                                                 *)
(***************************************************************************)
EXTENDS Naturals

CONSTANTS
  Query, Doc, Word,
  QueryDef,     \* [match_type, match_dist, words] of each query
  DocWords,     \* the words of each document
  WordLen,      \* the length of each word
  EditDist,     \* the edit distance of two words
  HammingDist,  \* the number of positions two words of one length differ in
  Pending       \* the answer of a document that has none yet

VARIABLES
  active,      \* the active queries
  due,         \* due[d]: the answer d was promised when it was pushed
  delivered    \* delivered[d]: the answer handed out for d

vars == <<active, due, delivered>>

\* MatchType of core.h: does a document's word w match a query's word v?
WordMatches(q, v, w) ==
  LET type == QueryDef[q].match_type
      dist == QueryDef[q].match_dist
  IN  \/ type = "exact" /\ v = w
      \/ type = "edit" /\ EditDist[v, w] <= dist
      \/ /\ type = "hamming"
         /\ WordLen[v] = WordLen[w]
         /\ HammingDist[v, w] <= dist

\* A query matches a document iff every word of the query is matched by some
\* word of the document.
Matches(q, d) ==
  \A v \in QueryDef[q].words : \E w \in DocWords[d] : WordMatches(q, v, w)

Init ==
  /\ active = {}
  /\ due = [d \in Doc |-> Pending]
  /\ delivered = [d \in Doc |-> Pending]

StartQuery(q) ==
  /\ q \notin active
  /\ active' = active \cup {q}
  /\ UNCHANGED <<due, delivered>>

EndQuery(q) ==
  /\ q \in active
  /\ active' = active \ {q}
  /\ UNCHANGED <<due, delivered>>

MatchDocument(d) ==
  /\ due[d] = Pending
  /\ due' = [due EXCEPT ![d] = {q \in active : Matches(q, d)}]
  /\ UNCHANGED <<active, delivered>>

GetNextAvailRes(d) ==
  /\ due[d] # Pending
  /\ delivered[d] = Pending
  /\ delivered' = [delivered EXCEPT ![d] = due[d]]
  /\ UNCHANGED <<active, due>>

Next ==
  \/ \E q \in Query : StartQuery(q) \/ EndQuery(q)
  \/ \E d \in Doc : MatchDocument(d) \/ GetNextAvailRes(d)

Spec == Init /\ [][Next]_vars

=============================================================================
