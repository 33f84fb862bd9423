------------------------------ MODULE Multimap ------------------------------
(***************************************************************************)
(* What a hash index promises: a set of key-value pairs, changed and read   *)
(* by atomic calls that return what they found.                            *)
(***************************************************************************)
CONSTANTS Key, Value, Thread

VARIABLES
  pairs,  \* the pairs in the index
  ret     \* what the last step returned, and to which thread

vars == <<pairs, ret>>

Init == pairs = {} /\ ret = <<>>

Returns(t, call, result) == ret' = <<t, call, result>>

Insert(t, k, v) ==
  /\ \E absent \in BOOLEAN :
       Returns(t, <<"Insert", k, v>>, absent) /\ absent = (<<k, v>> \notin pairs)
  /\ pairs' = pairs \cup {<<k, v>>}

Remove(t, k, v) ==
  /\ \E present \in BOOLEAN :
       Returns(t, <<"Remove", k, v>>, present) /\ present = (<<k, v>> \in pairs)
  /\ pairs' = pairs \ {<<k, v>>}

GetValue(t, k) ==
  /\ \E found \in SUBSET Value :
       Returns(t, <<"GetValue", k>>, found) /\ found = {v \in Value : <<k, v>> \in pairs}
  /\ UNCHANGED pairs

\* A step in which no call returns.
Quiet == ret' = <<>> /\ UNCHANGED pairs

Next ==
  \/ Quiet
  \/ \E t \in Thread, k \in Key :
       \/ GetValue(t, k)
       \/ \E v \in Value : Insert(t, k, v) \/ Remove(t, k, v)

Spec == Init /\ [][Next]_vars
=============================================================================
