---------------------------- MODULE MCLockManager ----------------------------
(* Small instances of LockManager. *)
EXTENDS LockManager, TLC

CONSTANTS r1, r2

AllRepeatable == [t \in Txns |-> "REPEATABLE_READ"]
\* One transaction of each isolation level, the oldest one repeatable.
Mixed == [t \in Txns |-> CASE t = 0 -> "REPEATABLE_READ"
                           [] t = 1 -> "READ_COMMITTED"
                           [] OTHER -> "READ_UNCOMMITTED"]
RidSymmetry == Permutations(Rids)
=============================================================================
