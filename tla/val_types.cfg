SPECIFICATION Spec
CONSTANTS
  Half <- MCHalf
  Scale = 2
  FltMax = 288
  DblMax = 304
  Double <- MCDouble
  Literals <- MCLiterals
  Stored <- MCStored
  MaxColumns = 3
INVARIANTS
  ArithmeticExact
  ComparesInOrder
  CastsExact
  TupleReadsBack
