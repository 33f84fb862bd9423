SPECIFICATION Spec
CONSTANTS
  c1 = c1
  c2 = c2
  c3 = c3
  z = z
  d = d
  Data = {z, d}
  Zero = z
  pool_size = 1
  num_instances = 1
  instance_index = 0
  MaxPageId = 1
  Clients = {c1, c2}
  Ops = {}
  WriteShared = TRUE
  CleanNew = FALSE
INVARIANT NoLostWrite
