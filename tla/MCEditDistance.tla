--------------------------- MODULE MCEditDistance ---------------------------
(***************************************************************************)
(* EditDistance on every two words of one to four letters out of two.      *)
(***************************************************************************)
EXTENDS EditDistance

MCWord == WordsOver({0, 1}, 1 .. 4)

=============================================================================
