SPECIFICATION FairSpec
CHECK_DEADLOCK FALSE
CONSTANTS
  t1 = t1
  t2 = t2
  num_instances = 2
  pool_size = 1
  Threads = {t1, t2}
  Creators = {t1, t2}
  MaxPageId = 5
INVARIANT OneHomePerPage
INVARIANT AllAskedBeforeNull
PROPERTY SomeCallReturns
