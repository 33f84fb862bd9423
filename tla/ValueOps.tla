------------------------------ MODULE ValueOps ------------------------------
(***************************************************************************)
(* Values at work: rows are built from literals, a column is read into an  *)
(* accumulator, and the operations of Values are applied to it one after   *)
(* the other, so that every result is an operand of the next operation.    *)
(***************************************************************************)
EXTENDS Tuples, FiniteSets

CONSTANTS
  Literals,     \* the values that the other operands are taken from
  Stored,       \* the values that rows are built from
  MaxColumns    \* bound: columns of a row

\* The values that the constructors of Value make: a number of its type, a
\* boolean or its NULL, a text.
Texts == [word : {Words[i] : i \in DOMAIN Words}, neg : BOOLEAN, int : Nat, frac : Int]
WellTyped(v) ==
  /\ v.type \in TypeId => v = [type |-> v.type, val |-> v.val]
  /\ v.type \in IntTypes => v.val \in (-Half[v.type]) .. (Half[v.type] - 1)
  /\ v.type = DECIMAL => v.val \in (-DblMax) .. DblMax /\ v.val = Double[v.val]
  /\ v.type = BOOLEANT => v.val \in {0, 1, -Half[TINYINT]}
  /\ v.type = VARCHAR => v.val \in Texts

\* A word is a string, and has a length.
ASSUME WordsAssumption == \A i \in DOMAIN Words : Len(Words[i]) \in Nat

ASSUME OperandsAssumption == \A v \in Literals \cup Stored : v.type \in TypeId /\ WellTyped(v)

VARIABLES
  acc,          \* the value under computation, or what was thrown
  row           \* the values of the row being built

vars == <<acc, row>>

Empty == [type |-> "INVALID", val |-> 0]
Running == acc.type \in TypeId

\* Bound: results beyond the modelled doubles are not computed with further.
InBounds(v) == v.type = DECIMAL => v.val \in (-DblMax) .. DblMax

SchemaOf(values) == [i \in DOMAIN values |-> values[i].type]

Init == acc = Empty /\ row = <<>>

\* values.emplace_back(v).
Emplace(v) ==
  /\ acc = Empty /\ Len(row) < MaxColumns
  /\ row' = Append(row, v)
  /\ UNCHANGED acc

\* The row is made a tuple and one of its columns is read.
Load(i) ==
  /\ acc = Empty
  /\ acc' = GetValue(Tuple(row, SchemaOf(row)), SchemaOf(row), i)
  /\ row' = <<>>

Become(v) == InBounds(v) /\ acc' = v /\ UNCHANGED row

Compute(op, v) == Running /\ CheckComparable(acc, v) /\ Become(Arithmetic(op, acc, v))
ComputeOnto(op, v) == Running /\ CheckComparable(v, acc) /\ Become(Arithmetic(op, v, acc))
TakeMin(v) == Running /\ CheckComparable(acc, v) /\ Become(ValueMin(acc, v))
TakeMax(v) == Running /\ CheckComparable(acc, v) /\ Become(ValueMax(acc, v))
TakeSqrt == Running /\ Become(Sqrt(acc))
Cast(t) == Running /\ Become(CastAs(acc, t))
FactoryCastTo(t) == Running /\ Become(ValueFactoryCastAs(acc, t))
Test(op, v) ==
  /\ Running /\ CheckComparable(acc, v)
  /\ LET c == Compare(op, acc, v) IN Become(IF c = "Throw" THEN TYPE_ERROR ELSE GetBooleanValue(c))

\* The caller has the result, or catches the exception, and starts anew.
Finish == acc # Empty /\ acc' = Empty /\ UNCHANGED row

Next ==
  \/ \E v \in Stored : Emplace(v)
  \/ \E i \in DOMAIN row : Load(i)
  \/ \E op \in ArithmeticOps, v \in Literals : Compute(op, v) \/ ComputeOnto(op, v)
  \/ \E v \in Literals : TakeMin(v) \/ TakeMax(v)
  \/ TakeSqrt
  \/ \E t \in TypeId : Cast(t) \/ FactoryCastTo(t)
  \/ \E op \in CompareOps, v \in Literals : Test(op, v)
  \/ Finish

Spec == Init /\ [][Next]_vars

-----------------------------------------------------------------------------
(* Properties. *)

NonNull(v) == v.type \in TypeId /\ ~IsNull(v)
Integers(V) == {v \in V : CheckInteger(v) /\ ~IsNull(v)}
Numbers(V) == {v \in V : v.type \in NumericTypes /\ ~IsNull(v)}

\* The result r of op on two integers is exact or refused.
ExactResult(op, l, r, res) ==
  LET t == Wider(l.type, r.type)
      n == CASE op = "Add" -> l.val + r.val
             [] op = "Subtract" -> l.val - r.val
             [] op = "Multiply" -> l.val * r.val
             [] op = "Divide" -> IF r.val = 0 THEN 0 ELSE Quot(l.val, r.val)
             [] op = "Modulo" -> IF r.val = 0 THEN 0 ELSE Rem(l.val, r.val)
  IN  IF op \in {"Divide", "Modulo"} /\ r.val = 0 THEN res = DIVIDE_BY_ZERO
      ELSE IF n \in (-Half[t]) .. (Half[t] - 1)
      THEN res.type = t /\ res.val = n
      ELSE res = OUT_OF_RANGE

\* The arithmetic of the integer types (AddValue ... ModuloValue) on two values
\* that are not NULL gives the exact result in the wider of the two types, or
\* throws OUT_OF_RANGE exactly when it does not fit, or DIVIDE_BY_ZERO: no
\* combination of widths lets a wrapped or truncated number through the casts
\* and the sign checks.  (The exact result may be the number that stands for
\* NULL: the code does not refuse it.)
ArithmeticExact ==
  \A r \in Integers(Literals), op \in ArithmeticOps :
    acc \in Integers({acc}) =>
      /\ ExactResult(op, acc, r, Arithmetic(op, acc, r))
      /\ ExactResult(op, r, acc, Arithmetic(op, r, acc))

\* Comparisons of two numbers decide their order: exactly between integers of
\* any two widths, and with a double if the integer is a double; a BIGINT that
\* is rounded may compare equal to a double next to it, but never on the wrong
\* side of it, and equal to one that is equal.  They agree when the operands
\* are swapped, and Min and Max (which use <, <=, > or >= depending on the
\* type) return one of the two that compares as a bound of both; an INTEGER or
\* BIGINT compared with a text that spells a whole number compares with that
\* number unless the text is refused.
ComparesInOrder ==
  \A r \in Numbers(Literals) : acc \in Numbers({acc}) =>
    LET x == Number(acc)
        y == Number(r)
        Truth(op) == CmpBool(op, x, y)
        exact == \/ CheckInteger(acc) /\ CheckInteger(r)
                 \/ AsDouble(acc) = x /\ AsDouble(r) = y
        text == CastAs(r, VARCHAR)
    IN  /\ exact => \A op \in CompareOps : Compare(op, acc, r) = Truth(op)
        /\ x <= y => Compare("<=", acc, r) = "CmpTrue"
        /\ x >= y => Compare(">=", acc, r) = "CmpTrue"
        /\ Compare("<", acc, r) = "CmpTrue" => x < y
        /\ Compare("<", acc, r) = Compare(">", r, acc)
        /\ Compare("<=", acc, r) = Compare(">=", r, acc)
        /\ \A m \in {ValueMin(acc, r)} :
             m \in {acc, r} /\ \A v \in {acc, r} : Compare("<=", m, v) = "CmpTrue"
        /\ \A m \in {ValueMax(acc, r)} :
             m \in {acc, r} /\ \A v \in {acc, r} : Compare(">=", m, v) = "CmpTrue"
        /\ acc.type \in {INTEGER, BIGINT} /\ CheckInteger(r) =>
             \A op \in CompareOps : Compare(op, acc, text) \in {"Throw", Truth(op)}

\* A cast between numbers gives the number itself, cut at the point, or throws
\* OUT_OF_RANGE, and never for a number within the limits of the type (the
\* doubles -2^63 and 2^63 pass BIGINT's check and become its NULL); an
\* integer that went through VARCHAR comes back; and the casts of ValueFactory
\* give what Value::CastAs gives, except on a NULL text and for NULL as
\* BOOLEAN, where CastAs throws.
CastsExact ==
  /\ acc \in Numbers({acc}) => \A t \in IntTypes :
       LET res == CastAs(acc, t)
           n == Quot(Number(acc), Scale)
       IN  IF Number(acc) \in (MinOf(t) * Scale) .. (MaxOf(t) * Scale)
           THEN res.type = t /\ res.val = n
           ELSE \/ res = OUT_OF_RANGE
                \/ t = BIGINT /\ Abs(Number(acc)) = Half[t] * Scale /\ res = NullOf(t)
  /\ acc \in Integers({acc}) => CastAs(CastAs(acc, VARCHAR), acc.type) = acc
  /\ Running => \A t \in TypeId :
       LET c == CastAs(acc, t)
           f == ValueFactoryCastAs(acc, t)
       IN  \/ c.type = f.type /\ (Threw(c) \/ c = f)
           \/ IsNull(acc) /\ (acc.type = VARCHAR \/ t = BOOLEANT) /\ Threw(c) /\ f = NullOf(t)

\* Every column of a tuple without NULL texts reads back the value it was built
\* from, every byte is written inside the allocated tuple, and a key tuple
\* made of any two columns compares equal to itself.
TupleReadsBack ==
  (\A i \in DOMAIN row : row[i] # NullOf(VARCHAR)) =>
    LET schema == SchemaOf(row)
        t == Tuple(row, schema)
    IN  /\ \A i \in DOMAIN row : GetValue(t, schema, i) = row[i]
        /\ \A k \in DOMAIN t.writes : t.writes[k].at + t.writes[k].len <= t.size
        /\ \A i, j \in DOMAIN row :
             LET key_schema == CopySchema(schema, <<j, i>>)
                 key == KeyFromTuple(t, schema, key_schema, <<j, i>>)
             IN  /\ GetValue(key, key_schema, 2) = row[i]
                 /\ CompareKeys(key, key, key_schema) = 0
=============================================================================
