SPECIFICATION Spec
CONSTANTS
  t1 = t1
  t2 = t2
  none = none
  v1 = v1
  v2 = v2
  Keys = {0, 1, 2, 5}
  Values = {v1}
  Hash <- Identity
  BUCKET_ARRAY_SIZE = 2
  MaxDepth = 3
  Threads = {t1, t2}
  NoThread = none
INVARIANT VerifyIntegrity
INVARIANT PairsReachable
PROPERTY NothingUnlinked
PROPERTY ImplementsMultimap
PROPERTY LatchReleased
CHECK_DEADLOCK FALSE
