----------------------------- MODULE MCSkipList -----------------------------
(***************************************************************************)
(* SkipList with three levels and five keys, inserted in every order under *)
(* towers of every height.                                                 *)
(***************************************************************************)
EXTENDS SkipList

=============================================================================
