SPECIFICATION Spec
CHECK_DEADLOCK FALSE
CONSTANTS
  Half <- MCHalf
  Scale = 1
  FltMax = 40
  DblMax = 48
  Double <- MCDouble
  Contents <- MCContents
  Plans <- MCPlans
  NewTables = {"C"}
  Indexes <- MCIndexes
  MaxStatements = 2
INVARIANTS
  QueryAnswer
  IndexFollowsTable
PROPERTY
  Terminates
