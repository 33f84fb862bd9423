-------------------------- MODULE MCExtendibleHash --------------------------
(* Small instances of ExtendibleHash.  A key's hash is the key itself.      *)
EXTENDS ExtendibleHash

CONSTANTS t1, t2, none, v1, v2

Identity == [k \in Keys |-> k]
=============================================================================
