------------------------------ MODULE MCBkTree ------------------------------
(***************************************************************************)
(* BkTree on six words over two letters, by edit distance. 0000 as root    *)
(* has children at distances one to four, so a match with threshold two    *)
(* puts four at once on a stack made for four: its vector grows.           *)
(***************************************************************************)
EXTENDS BkTree, Words

MCWord == {<<0, 0, 0, 0>>, <<0, 0, 0, 1>>, <<0, 0, 1, 1>>, <<0, 1, 1, 1>>,
           <<1, 1, 1, 1>>, <<1, 0, 1>>}

Distances == [p \in Word \X Word |-> Levenshtein(p[1], p[2])]
MCDist(v, w) == Distances[v, w]

=============================================================================
