SPECIFICATION Spec
CHECK_DEADLOCK FALSE
CONSTANTS
  Half <- MCHalf
  Scale = 1
  FltMax = 40
  DblMax = 48
  Double <- MCDouble
  Contents <- MCKeyContents
  Plans <- MCKeyPlans
  NewTables = {}
  Indexes = {}
  MaxStatements = 1
INVARIANT
  JoinKeysEqual
