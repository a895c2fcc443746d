------------------------------ MODULE MCEngine ------------------------------
(***************************************************************************)
(* Engine with up to three queries, one of each match type, and two        *)
(* documents. qe has two words, so its match is put together from hits of  *)
(* two lookups; a and b differ in one letter, c has one letter more than a *)
(* and two more than b, so b of d1 finds both words of qe, and c one.      *)
(***************************************************************************)
EXTENDS Engine

CONSTANTS qe, qh, qx, d1, d2, a, b, c, Longest

MCQueryDef ==
  [q \in Query |->
     CASE q = qe -> [match_type |-> "edit", match_dist |-> 1, words |-> {a, b}]
       [] q = qh -> [match_type |-> "hamming", match_dist |-> 1, words |-> {a}]
       [] q = qx -> [match_type |-> "exact", match_dist |-> 0, words |-> {b}]]

MCDocWords == [d \in Doc |-> IF d = d1 THEN {b, c} ELSE {c}]

\* Longest is the length of c.
MCWordLen == [w \in Word |-> IF w = c THEN Longest ELSE 4]

MCHammingDist == [p \in Word \X Word |-> IF p[1] = p[2] THEN 0 ELSE 1]

MCEditDist ==
  [p \in Word \X Word |->
     IF p[1] = p[2] THEN 0 ELSE IF {p[1], p[2]} = {b, c} THEN 2 ELSE 1]

=============================================================================
