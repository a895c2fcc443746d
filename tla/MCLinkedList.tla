---------------------------- MODULE MCLinkedList ----------------------------
(***************************************************************************)
(* LinkedList with two lists, three nodes and one variable. Of the four    *)
(* strings three can have a buffer; buffers that leak are gone for good.   *)
(***************************************************************************)
EXTENDS LinkedList

CONSTANTS n1, n2, n3, b1, b2, b3, l1, l2, x

MCPlace == Node \cup Variable
MCGiven == {<<"a">>}

\* An address is like another, and so are the lists.
Alike == Permutations(Node) \cup Permutations(Buffer) \cup Permutations(List)

=============================================================================
