----------------------------- MODULE MCRWLatch -----------------------------
(* Small instances of RWLatch. *)
EXTENDS RWLatch

CONSTANTS t1, t2, t3
=============================================================================
