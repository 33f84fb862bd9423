---------------------------- MODULE MCTableHeap ----------------------------
(* Small instances of TableHeap: no two tuples share a byte, so that a tuple *)
(* read from the wrong place is seen.                                       *)
EXTENDS TableHeap, TLC

CONSTANTS t1, t2

\* The last one is too large for any page.
SmallTuples == {<<1>>, <<2, 3>>, <<4, 5, 6, 7, 8>>}
TxnSymmetry == Permutations(Txns)
=============================================================================
