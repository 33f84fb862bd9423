------------------------------- MODULE Values -------------------------------
(***************************************************************************)
(* The values of SQL expressions (src/type, src/include/type): the seven   *)
(* types of Type::k_types with their constructors, casts, comparisons and  *)
(* arithmetic, ValueFactory, and HashUtil::HashValue.                      *)
(*                                                                         *)
(* A value is a record with its type_id_ and its payload.  The code keeps  *)
(* "is NULL" in size_.len_, which every constructor derives from the       *)
(* payload (the least number of the type, a null pointer), so it is        *)
(* derived here too.  Integers keep a width, as a constant: Half[t] stands *)
(* for 2^7, 2^15, 2^31 and 2^63.  A double is a whole number of units of   *)
(* 1/Scale that the constant Double leaves as it is: Double rounds to the  *)
(* nearest double, as the conversion of an integer and every operation on  *)
(* doubles does.  DBL_LOWEST stands for NULL.  A text is the numeral it    *)
(* spells or a word.  An exception that leaves an operation is its result, *)
(* as a value of type "EXCEPTION".                                         *)
(***************************************************************************)
EXTENDS Integers, Sequences

CONSTANTS
  Half,      \* the integer types are -Half[t] .. Half[t] - 1
  Scale,     \* doubles are multiples of 1/Scale
  DblMax,    \* the largest double, in units of 1/Scale
  FltMax,    \* the largest float, in units of 1/Scale
  Double     \* the double nearest to a number of units of 1/Scale

TINYINT == "TINYINT"
SMALLINT == "SMALLINT"
INTEGER == "INTEGER"
BIGINT == "BIGINT"
DECIMAL == "DECIMAL"
BOOLEANT == "BOOLEAN"
VARCHAR == "VARCHAR"

IntTypes == {TINYINT, SMALLINT, INTEGER, BIGINT}
NumericTypes == IntTypes \cup {DECIMAL}
TypeId == NumericTypes \cup {BOOLEANT, VARCHAR}

\* The widths of the C++ types: two SMALLINTs multiply within an int, an int
\* is narrower than an int64_t, and a numeral has at most three digits.
ASSUME WidthAssumption ==
  /\ Half \in [IntTypes -> Nat \ {0, 1}]
  /\ Half[TINYINT] < Half[SMALLINT]
  /\ Half[SMALLINT] * Half[SMALLINT] <= Half[INTEGER]
  /\ Half[INTEGER] < Half[BIGINT]
  /\ Scale \in Nat \ {0}
  /\ FltMax \in Nat /\ DblMax \in Nat
  /\ Half[BIGINT] * Scale < FltMax /\ FltMax < DblMax
  /\ DblMax \div Scale < 1000

\* IEEE 754 rounding: it keeps the order and is the same on both sides of zero,
\* an int32_t is a double, and so are 2^63 and the limits, but INT64_MAX is not.
ASSUME DoubleAssumption ==
  LET Units == (-DblMax) .. DblMax
  IN  /\ Double \in [Units -> Units]
      /\ \A x, y \in Units : x <= y => Double[x] <= Double[y]
      /\ \A x \in Units : Double[Double[x]] = Double[x] /\ Double[-x] = -Double[x]
      /\ \A n \in 0 .. Half[INTEGER] : Double[n * Scale] = n * Scale
      /\ \A n \in {Half[BIGINT] - 1, Half[BIGINT]} : Double[n * Scale] = Half[BIGINT] * Scale
      /\ Double[FltMax] = FltMax /\ Double[DblMax] = DblMax

-----------------------------------------------------------------------------
(* Numbers. *)

Abs(n) == IF n < 0 THEN -n ELSE n

\* C++ division and remainder truncate towards zero.
Quot(x, y) == IF (x < 0) = (y < 0) THEN Abs(x) \div Abs(y) ELSE -(Abs(x) \div Abs(y))
Rem(x, y) == x - y * Quot(x, y)

\* static_cast to a two's complement type of the width of t.
Wrap(t, n) == ((n + Half[t]) % (2 * Half[t])) - Half[t]

\* sizeof: the order of the widths.
Wider(t1, t2) == IF Half[t1] >= Half[t2] THEN t1 ELSE t2

\* The type in which C++ computes with operands of types t1 and t2: both are
\* promoted to int at least.
Promoted(t1, t2) == Wider(Wider(t1, t2), INTEGER)

-----------------------------------------------------------------------------
(* Texts. *)

Words == <<"", "numeral", "apple", "f", "false", "t", "true", "varlen_null">>
Text(w) == [word |-> w, neg |-> FALSE, int |-> 0, frac |-> -1]

\* A numeral: its sign, its digits before the point, and those after it (-1 if
\* it has no point).
Numeral(neg, int, frac) == [word |-> "numeral", neg |-> neg, int |-> int, frac |-> frac]
Digits(n) == IF n < 10 THEN 1 ELSE IF n < 100 THEN 2 ELSE 3

\* The number of characters; std::to_string(double) prints six decimals.
TextLength(s) ==
  IF s.word # "numeral" THEN Len(s.word)
  ELSE (IF s.neg THEN 1 ELSE 0) + Digits(s.int) + (IF s.frac < 0 THEN 0 ELSE 7)

\* The order of the characters: the empty text, '-', digits, letters; a numeral
\* by its digits from the left, '.' coming before every digit.
Rank(s) ==
  CASE s.word = "" -> <<0, 0, 0, 0>>
    [] s.word = "numeral" -> <<IF s.neg THEN 1 ELSE 2,
                               s.int * (IF s.int < 10 THEN 100 ELSE IF s.int < 100 THEN 10 ELSE 1),
                               Digits(s.int), s.frac>>
    [] OTHER -> <<3, CHOOSE i \in DOMAIN Words : Words[i] = s.word, 0, 0>>

\* TypeUtil::CompareStrings: the sign of memcmp and then of the lengths.
CompareStrings(s1, s2) ==
  LET Less(a, b) == \E i \in 1 .. 4 : a[i] < b[i] /\ \A j \in 1 .. (i - 1) : a[j] = b[j]
  IN  IF s1 = s2 THEN 0 ELSE IF Less(Rank(s1), Rank(s2)) THEN -1 ELSE 1

-----------------------------------------------------------------------------
(* Constructors and the limits of the types. *)

Throw(kind) == [type |-> "EXCEPTION", val |-> kind]
OUT_OF_RANGE == Throw("OUT_OF_RANGE")
DIVIDE_BY_ZERO == Throw("DIVIDE_BY_ZERO")
NOT_IMPLEMENTED == Throw("NOT_IMPLEMENTED")
TYPE_ERROR == Throw("TYPE_ERROR")
INVALID_ARGUMENT == Throw("std::invalid_argument")
Threw(v) == v.type = "EXCEPTION"

NullText == Text("varlen_null")

\* The payload that stands for NULL.
NullPayload(t) ==
  CASE t \in IntTypes -> -Half[t]
    [] t = BOOLEANT -> -Half[TINYINT]
    [] t = DECIMAL -> -DblMax
    [] t = VARCHAR -> NullText

MinOf(t) == IF t = DECIMAL THEN -FltMax ELSE -Half[t] + 1
MaxOf(t) == IF t = DECIMAL THEN DblMax ELSE Half[t] - 1

\* Value(TypeId, intN_t): the number is truncated to the type.
IntValue(t, n) == [type |-> t, val |-> Wrap(IF t = BOOLEANT THEN TINYINT ELSE t, n)]
DecimalValue(d) == [type |-> DECIMAL, val |-> d]
VarcharValue(s) == [type |-> VARCHAR, val |-> s]

IsNull(v) == v.val = NullPayload(v.type)
NullOf(t) == [type |-> t, val |-> NullPayload(t)]

CheckInteger(v) == v.type \in IntTypes
CheckComparable(l, r) ==
  \/ l.type = BOOLEANT /\ r.type \in {BOOLEANT, VARCHAR}
  \/ l.type \in NumericTypes /\ r.type \in NumericTypes \cup {VARCHAR}
  \/ l.type = VARCHAR

GetTypeSize(t) ==
  CASE t \in {BOOLEANT, TINYINT} -> 1
    [] t = SMALLINT -> 2
    [] t = INTEGER -> 4
    [] t \in {BIGINT, DECIMAL} -> 8
    [] t = VARCHAR -> 0

GetMinValue(t) ==
  CASE t = BOOLEANT -> IntValue(t, 0)
    [] t = VARCHAR -> VarcharValue(Text(""))
    [] OTHER -> [type |-> t, val |-> MinOf(t)]
GetMaxValue(t) ==
  CASE t = BOOLEANT -> IntValue(t, 1)
    [] t = VARCHAR -> NullOf(VARCHAR)
    [] OTHER -> [type |-> t, val |-> MaxOf(t)]

IsCoercableFrom(to, from) ==
  \/ to = BOOLEANT
  \/ to \in NumericTypes /\ from \in NumericTypes \cup {VARCHAR}
  \/ to = VARCHAR

\* ValueFactory::GetBooleanValue(CmpBool), GetNullValueByType, GetZeroValueByType.
GetBooleanValue(cmp) ==
  CASE cmp = "CmpNull" -> NullOf(BOOLEANT)
    [] cmp = "CmpTrue" -> IntValue(BOOLEANT, 1)
    [] cmp = "CmpFalse" -> IntValue(BOOLEANT, 0)
GetNullValueByType(t) == NullOf(t)
GetZeroValueByType(t) ==
  CASE t = DECIMAL -> DecimalValue(0)
    [] t = VARCHAR -> VarcharValue(Numeral(FALSE, 0, -1))
    [] OTHER -> IntValue(t, 0)
-----------------------------------------------------------------------------
(* ToString, and the casts of Value::CastAs: one per type of the value.    *)

\* The number a numeric value stands for, in units of 1/Scale, and the double it
\* is converted to.
Number(v) == IF v.type = DECIMAL THEN v.val ELSE v.val * Scale
AsDouble(v) == IF v.type = DECIMAL THEN v.val ELSE Double[v.val * Scale]

\* The result of an operation on doubles.  Bound: beyond DblMax nothing is rounded.
Rounded(n) == IF n \in (-DblMax) .. DblMax THEN Double[n] ELSE n

ValueToString(v) ==
  CASE v.type \in IntTypes -> Numeral(v.val < 0, Abs(v.val), -1)
    [] v.type = DECIMAL -> Numeral(v.val < 0, Abs(v.val) \div Scale, Abs(v.val) % Scale)
    [] v.type = BOOLEANT -> Text(IF v.val = 1 THEN "true" ELSE "false")
    [] v.type = VARCHAR -> v.val

\* std::stoi and std::stoll read the digits before the point; t is the type
\* they return.  std::stod reads them all.
Stoi(t, s) ==
  LET n == IF s.neg THEN -s.int ELSE s.int
  IN  CASE s.word # "numeral" -> INVALID_ARGUMENT
        [] s.word = "numeral" /\ n \notin (-Half[t]) .. (Half[t] - 1) -> OUT_OF_RANGE
        [] OTHER -> IntValue(t, n)
Stod(s) ==
  LET n == s.int * Scale + (IF s.frac < 0 THEN 0 ELSE s.frac)
  IN  IF s.word # "numeral" THEN INVALID_ARGUMENT
      ELSE DecimalValue(Rounded(IF s.neg THEN -n ELSE n))

\* An integer value goes into the types of Narrower after a check, and into
\* the others as it is; NULL stays NULL.
CastInteger(Narrower, v, t) ==
  CASE t \notin NumericTypes \cup {VARCHAR} -> TYPE_ERROR
    [] t \in NumericTypes \cup {VARCHAR} /\ IsNull(v) -> NullOf(t)
    [] OTHER ->
         CASE t \in Narrower /\ v.val \notin MinOf(t) .. MaxOf(t) -> OUT_OF_RANGE
           [] t = DECIMAL -> DecimalValue(AsDouble(v))
           [] t = VARCHAR -> VarcharValue(ValueToString(v))
           [] OTHER -> IntValue(t, v.val)

TinyintCastAs(v, t) == CastInteger({}, v, t)
SmallintCastAs(v, t) == CastInteger({TINYINT}, v, t)
IntegerCastAs(v, t) == CastInteger({TINYINT, SMALLINT}, v, t)
\* Mutant: a BIGINT is not checked against the limits of INTEGER.
BigintCastUnchecked(v, t) == CastInteger({TINYINT, SMALLINT}, v, t)
BigintCastAs(v, t) == CastInteger({TINYINT, SMALLINT, INTEGER}, v, t)

\* A double goes into an integer type if it is within its limits, which are
\* converted for the comparison: those of BIGINT are rounded to -2^63 and 2^63.
DoubleAsInteger(d, t) ==
  IF d \in Double[MinOf(t) * Scale] .. Double[MaxOf(t) * Scale]
  THEN IntValue(t, Quot(d, Scale)) ELSE OUT_OF_RANGE

DecimalCastAs(v, t) ==
  CASE t = BOOLEANT -> TYPE_ERROR
    [] t # BOOLEANT /\ IsNull(v) -> NullOf(t)
    [] OTHER ->
         CASE t \in IntTypes -> DoubleAsInteger(v.val, t)
           [] t = DECIMAL -> v
           [] t = VARCHAR -> VarcharValue(ValueToString(v))

BooleanCastAs(v, t) ==
  CASE t = BOOLEANT -> v
    [] t = VARCHAR -> IF IsNull(v) THEN NullOf(VARCHAR) ELSE VarcharValue(ValueToString(v))
    [] OTHER -> TYPE_ERROR

\* "true", "t" and "1", "false", "f" and "0".
TextAsBoolean(s) ==
  CASE s.word \in {"true", "t"} \/ s = Numeral(FALSE, 1, -1) -> IntValue(BOOLEANT, 1)
    [] s.word \in {"false", "f"} \/ s = Numeral(FALSE, 0, -1) -> IntValue(BOOLEANT, 0)
    [] OTHER -> TYPE_ERROR

\* stoi's int is truncated to the two small types and only the NULL number is
\* refused; it is not refused for INTEGER.
StoiResult(n, t) ==
  CASE Threw(n) -> n
    [] ~Threw(n) /\ t # INTEGER /\ Wrap(t, n.val) < MinOf(t) -> OUT_OF_RANGE
    [] OTHER -> IntValue(t, n.val)
TextAsInteger(s, t) == StoiResult(Stoi(IF t = BIGINT THEN BIGINT ELSE INTEGER, s), t)

StodResult(d) ==
  IF ~Threw(d) /\ d.val \notin MinOf(DECIMAL) .. MaxOf(DECIMAL) THEN OUT_OF_RANGE ELSE d
TextAsDecimal(s) == StodResult(Stod(s))

\* A NULL text is cast like the word "varlen_null" that ValueToString makes of it.
VarlenCastAs(v, t) ==
  CASE t = BOOLEANT -> TextAsBoolean(v.val)
    [] t \in IntTypes -> TextAsInteger(v.val, t)
    [] t = DECIMAL -> TextAsDecimal(v.val)
    [] t = VARCHAR -> v

CastAs(v, t) ==
  CASE v.type = TINYINT -> TinyintCastAs(v, t)
    [] v.type = SMALLINT -> SmallintCastAs(v, t)
    [] v.type = INTEGER -> IntegerCastAs(v, t)
    [] v.type = BIGINT -> BigintCastAs(v, t)
    [] v.type = DECIMAL -> DecimalCastAs(v, t)
    [] v.type = BOOLEANT -> BooleanCastAs(v, t)
    [] v.type = VARCHAR -> VarlenCastAs(v, t)

-----------------------------------------------------------------------------
(* The casts of ValueFactory, a second implementation by the target type.  *)

\* A std::invalid_argument of stoi and its kin becomes an Exception here.
Caught(v) == IF v = INVALID_ARGUMENT THEN TYPE_ERROR ELSE v

\* Exact are the types that need no check to fit into t.
FactoryCast(Exact, v, t) ==
  CASE ~IsCoercableFrom(t, v.type) -> TYPE_ERROR
    [] IsCoercableFrom(t, v.type) /\ IsNull(v) -> NullOf(t)
    [] OTHER ->
         CASE v.type \in IntTypes ->
                IF v.type \in Exact \/ v.val \in MinOf(t) .. MaxOf(t)
                THEN IntValue(t, v.val) ELSE OUT_OF_RANGE
           [] v.type = DECIMAL -> DoubleAsInteger(v.val, t)
           [] v.type = VARCHAR -> Caught(TextAsInteger(v.val, t))

CastAsTinyInt(v) == FactoryCast({TINYINT}, v, TINYINT)
CastAsSmallInt(v) == FactoryCast({TINYINT, SMALLINT}, v, SMALLINT)
CastAsInteger(v) == FactoryCast({TINYINT, SMALLINT, INTEGER}, v, INTEGER)
CastAsBigInt(v) == FactoryCast(IntTypes, v, BIGINT)

CastAsDecimal(v) ==
  CASE ~IsCoercableFrom(DECIMAL, v.type) -> TYPE_ERROR
    [] IsCoercableFrom(DECIMAL, v.type) /\ IsNull(v) -> NullOf(DECIMAL)
    [] v.type \in NumericTypes /\ ~IsNull(v) -> DecimalValue(AsDouble(v))
    [] v.type = VARCHAR /\ ~IsNull(v) -> Caught(TextAsDecimal(v.val))

CastAsVarchar(v) == IF IsNull(v) THEN NullOf(VARCHAR) ELSE VarcharValue(ValueToString(v))

CastAsBoolean(v) ==
  CASE IsNull(v) -> NullOf(BOOLEANT)
    [] ~IsNull(v) /\ v.type = BOOLEANT -> v
    [] ~IsNull(v) /\ v.type = VARCHAR -> TextAsBoolean(v.val)
    [] OTHER -> TYPE_ERROR

ValueFactoryCastAs(v, t) ==
  CASE t = TINYINT -> CastAsTinyInt(v)
    [] t = SMALLINT -> CastAsSmallInt(v)
    [] t = INTEGER -> CastAsInteger(v)
    [] t = BIGINT -> CastAsBigInt(v)
    [] t = DECIMAL -> CastAsDecimal(v)
    [] t = VARCHAR -> CastAsVarchar(v)
    [] t = BOOLEANT -> CastAsBoolean(v)
-----------------------------------------------------------------------------
(* Comparisons: CmpTrue, CmpFalse, CmpNull, or the exception of a cast.    *)

CompareOps == {"=", "#", "<", "<=", ">", ">="}

\* GetCmpBool(x OP y).
CmpBool(op, x, y) ==
  IF \/ op = "=" /\ x = y
     \/ op = "#" /\ x # y
     \/ op = "<" /\ x < y
     \/ op = "<=" /\ x <= y
     \/ op = ">" /\ x > y
     \/ op = ">=" /\ x >= y
  THEN "CmpTrue" ELSE "CmpFalse"

\* GetCmpBool on the payloads, unless the cast of the right one threw.
CmpCast(op, x, c, y) == IF Threw(c) THEN "Throw" ELSE CmpBool(op, x, y)

\* In the comparisons, arithmetic, Min and Max of a type, c is the right value cast to
\* that type, right.CastAs(...), where the code needs it.

\* Mutant: both sides are compared as the type of the left one.
CompareTruncated(op, l, r, c) ==
  IF IsNull(l) \/ IsNull(r) THEN "CmpNull" ELSE CmpCast(op, Number(l), c, Number(c))

\* C++ compares two integers as they are, and any number with a double as doubles.
Compared(v, other) == IF other.type = DECIMAL THEN AsDouble(v) ELSE Number(v)

\* A number is compared with a number, and with a text after a cast of the text,
\* whose payload is used even if it stands for NULL.
CompareNumber(op, l, r, c) ==
  CASE IsNull(l) \/ IsNull(r) -> "CmpNull"
    [] ~IsNull(l) /\ ~IsNull(r) /\ r.type = VARCHAR -> CmpCast(op, Number(l), c, Number(c))
    [] OTHER -> CmpBool(op, Compared(l, r), Compared(r, l))

TinyintCompare(op, l, r, c) == CompareNumber(op, l, r, c)
SmallintCompare(op, l, r, c) == CompareNumber(op, l, r, c)
IntegerCompare(op, l, r, c) == CompareNumber(op, l, r, c)
BigintCompare(op, l, r, c) == CompareNumber(op, l, r, c)
DecimalCompare(op, l, r, c) == CompareNumber(op, l, r, c)

BooleanCompare(op, l, r, c) ==
  IF IsNull(l) \/ IsNull(r) THEN "CmpNull" ELSE CmpCast(op, l.val, c, c.val)

\* A text is compared with anything as a text.
VarlenCompare(op, l, r, c) ==
  IF IsNull(l) \/ IsNull(r) THEN "CmpNull" ELSE CmpBool(op, CompareStrings(l.val, c.val), 0)

CompareWith(op, l, r, c) ==
  CASE l.type = TINYINT -> TinyintCompare(op, l, r, c)
    [] l.type = SMALLINT -> SmallintCompare(op, l, r, c)
    [] l.type = INTEGER -> IntegerCompare(op, l, r, c)
    [] l.type = BIGINT -> BigintCompare(op, l, r, c)
    [] l.type = DECIMAL -> DecimalCompare(op, l, r, c)
    [] l.type = BOOLEANT -> BooleanCompare(op, l, r, c)
    [] l.type = VARCHAR -> VarlenCompare(op, l, r, c)
Compare(op, l, r) == CompareWith(op, l, r, CastAs(r, l.type))

-----------------------------------------------------------------------------
(* Arithmetic. *)

ArithmeticOps == {"Add", "Subtract", "Multiply", "Divide", "Modulo"}

\* The templates of IntegerParentType: the result is computed in the promoted
\* type, where it wraps, must survive the cast to one of the operands' types,
\* and is returned in the wider of them if the signs (the quotient) agree.
Computed(t1, t2, n) == Wrap(Promoted(t1, t2), n)
Survives(t1, t2, n) == n = Wrap(t1, n) \/ n = Wrap(t2, n)
Narrowed(t1, t2, n) == Wrap(Wider(t1, t2), Computed(t1, t2, n))
Returned(t1, t2, n, agrees) ==
  IF Survives(t1, t2, Computed(t1, t2, n)) /\ agrees
  THEN IntValue(Wider(t1, t2), Narrowed(t1, t2, n)) ELSE OUT_OF_RANGE

AddValue(t1, t2, x, y) ==
  LET sum == Narrowed(t1, t2, x + y)
  IN  Returned(t1, t2, x + y, ~(x > 0 /\ y > 0 /\ sum < 0) /\ ~(x < 0 /\ y < 0 /\ sum > 0))

SubtractValue(t1, t2, x, y) ==
  LET diff == Narrowed(t1, t2, x - y)
  IN  Returned(t1, t2, x - y, ~(x > 0 /\ y < 0 /\ diff < 0) /\ ~(x < 0 /\ y > 0 /\ diff > 0))

\* Mutant: the product is not divided back.
MultiplyUndivided(t1, t2, x, y) == Returned(t1, t2, x * y, TRUE)
MultiplyValue(t1, t2, x, y) ==
  Returned(t1, t2, x * y, y # 0 => Quot(Narrowed(t1, t2, x * y), y) = x)

DivideValue(t1, t2, x, y) == IF y = 0 THEN DIVIDE_BY_ZERO ELSE IntValue(Wider(t1, t2), Quot(x, y))
ModuloValue(t1, t2, x, y) == IF y = 0 THEN DIVIDE_BY_ZERO ELSE IntValue(Wider(t1, t2), Rem(x, y))

IntegerMethod(op, l, r) ==
  CASE op = "Add" -> AddValue(l.type, r.type, l.val, r.val)
    [] op = "Subtract" -> SubtractValue(l.type, r.type, l.val, r.val)
    [] op = "Multiply" -> MultiplyValue(l.type, r.type, l.val, r.val)
    [] op = "Divide" -> DivideValue(l.type, r.type, l.val, r.val)
    [] op = "Modulo" -> ModuloValue(l.type, r.type, l.val, r.val)

\* NumericType::ValMod, for doubles.
ValMod(x, y) == x - y * Quot(x, y)

\* The operators of doubles, on units of 1/Scale; what is finer than a unit is cut
\* before the result is rounded.
DoubleOp(op, x, y) ==
  Rounded(CASE op = "Add" -> x + y
            [] op = "Subtract" -> x - y
            [] op = "Multiply" -> Quot(x * y, Scale)
            [] op = "Divide" -> Quot(x * Scale, y)
            [] op = "Modulo" -> ValMod(x, y))

\* NULL of the wider type; a text is no operand.
OperateNullInt(t, r) ==
  CASE r.type \in IntTypes -> NullOf(Wider(t, r.type))
    [] r.type = DECIMAL -> NullOf(DECIMAL)
    [] OTHER -> TYPE_ERROR
TinyintOperateNull(l, r) == OperateNullInt(TINYINT, r)
SmallintOperateNull(l, r) == OperateNullInt(SMALLINT, r)
IntegerOperateNull(l, r) == OperateNullInt(INTEGER, r)
BigintOperateNull(l, r) == OperateNullInt(BIGINT, r)
DecimalOperateNull(l, r) == NullOf(DECIMAL)

OperateNull(l, r) ==
  CASE l.type = TINYINT -> TinyintOperateNull(l, r)
    [] l.type = SMALLINT -> SmallintOperateNull(l, r)
    [] l.type = INTEGER -> IntegerOperateNull(l, r)
    [] l.type = BIGINT -> BigintOperateNull(l, r)
    [] l.type = DECIMAL -> DecimalOperateNull(l, r)
    [] OTHER -> NOT_IMPLEMENTED

\* right.IsZero() of Divide and Modulo: a text has none.
DivisorError(op, r) ==
  CASE op \in {"Divide", "Modulo"} /\ r.type = VARCHAR -> NOT_IMPLEMENTED
    [] op \in {"Divide", "Modulo"} /\ r.type # VARCHAR /\ r.val = 0 -> DIVIDE_BY_ZERO
    [] OTHER -> r

OrThrow(e, v) == IF Threw(e) THEN e ELSE v

IntegerArithmeticOf(op, l, r, c) ==
  LET right == IF r.type = VARCHAR THEN c ELSE r
  IN  IF IsNull(l) \/ IsNull(r) THEN OperateNull(l, r)
      ELSE OrThrow(DivisorError(op, r),
             IF r.type = DECIMAL THEN DecimalValue(DoubleOp(op, AsDouble(l), r.val))
             ELSE OrThrow(right, IntegerMethod(op, l, right)))

TinyintArithmetic(op, l, r, c) == IntegerArithmeticOf(op, l, r, c)
SmallintArithmetic(op, l, r, c) == IntegerArithmeticOf(op, l, r, c)
IntegerArithmetic(op, l, r, c) == IntegerArithmeticOf(op, l, r, c)
BigintArithmetic(op, l, r, c) == IntegerArithmeticOf(op, l, r, c)

DecimalArithmetic(op, l, r, c) ==
  IF IsNull(l) \/ IsNull(r) THEN OperateNull(l, r)
  ELSE OrThrow(DivisorError(op, r), OrThrow(c, DecimalValue(DoubleOp(op, l.val, c.val))))

\* Value::Add, Subtract, ...; the other types inherit Type's exceptions.
ArithmeticWith(op, l, r, c) ==
  CASE l.type = TINYINT -> TinyintArithmetic(op, l, r, c)
    [] l.type = SMALLINT -> SmallintArithmetic(op, l, r, c)
    [] l.type = INTEGER -> IntegerArithmetic(op, l, r, c)
    [] l.type = BIGINT -> BigintArithmetic(op, l, r, c)
    [] l.type = DECIMAL -> DecimalArithmetic(op, l, r, c)
    [] OTHER -> NOT_IMPLEMENTED
Arithmetic(op, l, r) == ArithmeticWith(op, l, r, CastAs(r, l.type))

\* The square root, cut to a unit; NullResult is what NULL gives.
SqrtOf(NullResult, v) ==
  CASE IsNull(v) -> NullResult
    [] ~IsNull(v) /\ v.val < 0 -> Throw("DECIMAL")
    [] OTHER -> DecimalValue(Rounded(CHOOSE s \in 0 .. DblMax :
                  s * s <= AsDouble(v) * Scale /\ (s + 1) * (s + 1) > AsDouble(v) * Scale))
TinyintSqrt(v) == SqrtOf(NullOf(DECIMAL), v)
SmallintSqrt(v) == SqrtOf(NullOf(DECIMAL), v)
IntegerSqrt(v) == SqrtOf(OperateNull(v, v), v)
BigintSqrt(v) == SqrtOf(NullOf(DECIMAL), v)
DecimalSqrt(v) == SqrtOf(NullOf(DECIMAL), v)
Sqrt(v) ==
  CASE v.type = TINYINT -> TinyintSqrt(v)
    [] v.type = SMALLINT -> SmallintSqrt(v)
    [] v.type = INTEGER -> IntegerSqrt(v)
    [] v.type = BIGINT -> BigintSqrt(v)
    [] v.type = DECIMAL -> DecimalSqrt(v)
    [] OTHER -> NOT_IMPLEMENTED

\* Min and Max return the left value if it compares op with the right one.
Chosen(cmp, l, r, c) ==
  CASE cmp = "Throw" -> c
    [] cmp = "CmpTrue" -> l
    [] cmp = "CmpFalse" -> r
Choose(op, l, r, c) ==
  IF IsNull(l) \/ IsNull(r) THEN OperateNull(l, r) ELSE Chosen(CompareWith(op, l, r, c), l, r, c)
IntegerParentMin(l, r, c) == Choose("<", l, r, c)
IntegerParentMax(l, r, c) == Choose(">=", l, r, c)
DecimalMin(l, r, c) == Choose("<=", l, r, c)
DecimalMax(l, r, c) == Choose(">=", l, r, c)
VarlenMin(l, r, c) == Choose("<", l, r, c)
VarlenMax(l, r, c) == Choose(">", l, r, c)

MinWith(l, r, c) ==
  CASE CheckInteger(l) -> IntegerParentMin(l, r, c)
    [] l.type = DECIMAL -> DecimalMin(l, r, c)
    [] l.type = VARCHAR -> VarlenMin(l, r, c)
    [] OTHER -> NOT_IMPLEMENTED
MaxWith(l, r, c) ==
  CASE CheckInteger(l) -> IntegerParentMax(l, r, c)
    [] l.type = DECIMAL -> DecimalMax(l, r, c)
    [] l.type = VARCHAR -> VarlenMax(l, r, c)
    [] OTHER -> NOT_IMPLEMENTED
ValueMin(l, r) == MinWith(l, r, CastAs(r, l.type))
ValueMax(l, r) == MaxWith(l, r, CastAs(r, l.type))

-----------------------------------------------------------------------------
\* HashUtil::HashValue, as the bytes it hashes: the hash is taken to be free of
\* collisions.  Integers of every width are hashed as int64_t.
HashValue(v) ==
  CASE v.type \in IntTypes -> <<"int64_t", v.val>>
    [] v.type = BOOLEANT -> <<"bool", v.val>>
    [] v.type = DECIMAL -> <<"double", v.val>>
    [] v.type = VARCHAR -> <<"bytes", v.val>>
=============================================================================
