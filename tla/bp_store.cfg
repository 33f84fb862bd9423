SPECIFICATION Spec
CONSTANTS
  c1 = c1
  c2 = c2
  c3 = c3
  z = z
  d = d
  Data = {z, d}
  Zero = z
  pool_size = 2
  num_instances = 2
  instance_index = 1
  MaxPageId = 5
  Clients = {c1, c2, c3}
  Ops = {"FlushPage"}
  WriteShared = FALSE
  CleanNew = FALSE
INVARIANT TypeOK
INVARIANT PageTableConsistent
INVARIANT FramePartition
INVARIANT PinsAccounted
INVARIANT NullOnlyWhenAllPinned
INVARIANT UnpinnedIsDurable
INVARIANT PinnedPageCoherent
PROPERTY ImplementsPageStore
SYMMETRY ClientSymmetry
