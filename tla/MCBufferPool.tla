---------------------------- MODULE MCBufferPool ----------------------------
(* Small instances of BufferPool: two frames, three page ids, a zero and a  *)
(* non-zero content.                                                       *)
EXTENDS BufferPool, TLC

CONSTANTS c1, c2, c3, z, d

ClientSymmetry == Permutations(Clients)
=============================================================================
