SPECIFICATION Spec
CHECK_DEADLOCK FALSE
CONSTANTS
  r1 = r1
  r2 = r2
  Txns = {0, 1, 2}
  Rids = {r1, r2}
  Isolation <- AllRepeatable
INVARIANT NoWaitCycle
