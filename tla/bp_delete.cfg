SPECIFICATION Spec
CONSTANTS
  c1 = c1
  c2 = c2
  c3 = c3
  z = z
  d = d
  Data = {z}
  Zero = z
  pool_size = 2
  num_instances = 1
  instance_index = 0
  MaxPageId = 2
  Clients = {c1, c2}
  Ops = {"DeletePage", "FlushAllPages"}
  WriteShared = TRUE
  CleanNew = TRUE
INVARIANT PageTableConsistent
SYMMETRY ClientSymmetry
