--------------------------- MODULE MCCyclicBuffer ---------------------------
(***************************************************************************)
(* CyclicBuffer with one writer, one reader and two elements at a time.    *)
(***************************************************************************)
EXTENDS CyclicBuffer

CONSTANTS w1, r1

=============================================================================
