------------------------------ MODULE MC_BTree ------------------------------
(***************************************************************************)
(* Instances of BTree.                                                     *)
(***************************************************************************)
EXTENDS BTree

\* A tree of one leaf, and one of three levels.
MCLoads == {<<11>>, <<11, 13, 21, 23, 31, 33, 12, 22, 32>>}
============================================================================
