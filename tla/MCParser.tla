------------------------------ MODULE MCParser ------------------------------
(***************************************************************************)
(* Parser with every text of up to five characters over two letters and    *)
(* the delimiter.                                                          *)
(***************************************************************************)
EXTENDS Parser

=============================================================================
