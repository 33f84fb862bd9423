------------------------ MODULE MCParallelBufferPool ------------------------
(* Small instances of ParallelBufferPool. *)
EXTENDS ParallelBufferPool

CONSTANTS t1, t2
=============================================================================
