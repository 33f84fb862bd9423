SPECIFICATION FairSpec
CONSTANTS
  t1 = t1
  t2 = t2
  t3 = t3
  Threads = {t1, t2, t3}
  MAX_READERS = 3
INVARIANT TypeOK
INVARIANT MutualExclusion
INVARIANT FieldsAccounted
INVARIANT NoLostWakeup
PROPERTY ImplementsRWLock
PROPERTY WaitersServed
