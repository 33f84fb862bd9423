SPECIFICATION Spec
CHECK_DEADLOCK FALSE
CONSTANTS
  t1 = t1
  t2 = t2
  PAGE_SIZE = 6
  SIZE_TABLE_PAGE_HEADER = 1
  SIZE_TUPLE = 1
  Tuples <- SmallTuples
  Txns = {t1, t2}
  MaxPages = 2
  MaxWrites = 4
  Checked = TRUE
  MayShrink = FALSE
INVARIANT Layout
INVARIANT CommittedView
INVARIANT ApplyFindsTuple
INVARIANT ScanSeesAll
SYMMETRY TxnSymmetry
