--------------------------- MODULE ValueOpsProofs ---------------------------
(***************************************************************************)
(* Proofs about ValueOps, for every choice of widths, literals and rows    *)
(* that its assumptions allow: whatever a computation reaches is a value   *)
(* of its type (ValuesInv), and of such values integer arithmetic is exact *)
(* or refused, comparisons keep the order of the numbers whatever a double *)
(* rounds, casts keep the number or throw, the two implementations of a    *)
(* cast agree, and a tuple reads back the values it was built from.        *)
(***************************************************************************)
EXTENDS ValueOps, SequenceTheorems, WellFoundedInduction, TLAPS

-----------------------------------------------------------------------------
(* Division, remainder and products.                                       *)

\* Two equal factors: the distance of two multiples of d is no less than d.
LEMMA Apart ==
  ASSUME NEW d \in Nat, NEW k \in Int, k # 0
  PROVE  d * k >= d \/ d * k <= -d
PROOF
<1>1. CASE k >= 1
  <2>1. PICK j \in Nat : k = j + 1
    BY <1>1
  <2>2. d * k = d * j + d /\ d * j >= 0
    BY <2>1
  <2> QED BY <2>2
<1>2. CASE k <= -1
  <2>1. PICK j \in Nat : k = -(j + 1)
    <3>1. -k - 1 \in Nat /\ k = -((-k - 1) + 1)
      BY <1>2
    <3> QED BY <3>1
  <2>2. d * k = -(d * j + d) /\ d * j >= 0
    BY <2>1
  <2> QED BY <2>2
<1> QED BY <1>1, <1>2

\* Quotient and remainder of natural numbers.
LEMMA DivFacts ==
  ASSUME NEW a \in Nat, NEW b \in Nat \ {0}
  PROVE  \E q \in Nat, r \in 0 .. (b - 1) :
           q = a \div b /\ r = a % b /\ a = b * q + r /\ q <= a
PROOF
<1>1. PICK q \in Int, r \in Int : q = a \div b /\ r = a % b
  OBVIOUS
<1>2. a = b * q + r /\ r >= 0 /\ r < b
  BY <1>1
<1>3. q >= 0
  <2>1. SUFFICES ASSUME q < 0 PROVE FALSE
    OBVIOUS
  <2>2. b * q <= -b
    BY <2>1, Apart
  <2> QED BY <1>2, <2>2
<1>4. q <= b * q
  <2>1. PICK c \in Nat : b = c + 1
    <3>1. b - 1 \in Nat /\ b = (b - 1) + 1
      OBVIOUS
    <3> QED BY <3>1
  <2>2. b * q = c * q + q /\ c * q >= 0
    BY <1>3, <2>1
  <2> QED BY <2>2
<1>5. PICK m \in Int : m = b * q
  OBVIOUS
<1>6. q \in Nat /\ r \in 0 .. (b - 1) /\ q <= a
  BY <1>2, <1>3, <1>4, <1>5
<1> QED BY <1>1, <1>2, <1>6, Zenon

\* The quotient of two integers, and how far the product with the divisor is
\* from the dividend.
LEMMA QuotFacts ==
  ASSUME NEW x \in Int, NEW y \in Int, y # 0
  PROVE  /\ Quot(x, y) \in Int /\ Rem(x, y) \in Int
         /\ Abs(Rem(x, y)) < Abs(y)
         /\ -Abs(x) <= Quot(x, y) /\ Quot(x, y) <= Abs(x)
PROOF
<1>1. PICK a \in Nat, b \in Nat \ {0} : a = Abs(x) /\ b = Abs(y)
  BY DEF Abs
<1>2. PICK q \in Nat, r \in 0 .. (b - 1) : q = a \div b /\ a = b * q + r /\ q <= a
  BY DivFacts, Zenon
<1>3. Quot(x, y) = IF (x < 0) = (y < 0) THEN q ELSE -q
  BY <1>1, <1>2 DEF Quot
<1>4. PICK p \in Int : p = b * q
  OBVIOUS
<1>5. y * Quot(x, y) = IF x < 0 THEN -p ELSE p
  <2>1. y = b \/ y = -b
    BY <1>1 DEF Abs
  <2>2. b * (-q) = -p /\ (-b) * q = -p /\ (-b) * (-q) = p
    BY <1>4
  <2>3. CASE y > 0
    <3>1. y = b
      BY <1>1, <2>3 DEF Abs
    <3>2. CASE x < 0
      BY <1>3, <2>2, <2>3, <3>1, <3>2
    <3>3. CASE ~ (x < 0)
      BY <1>3, <1>4, <2>3, <3>1, <3>3
    <3> QED BY <3>2, <3>3
  <2>4. CASE y < 0
    <3>1. y = -b
      BY <1>1, <2>4 DEF Abs
    <3>2. CASE x < 0
      BY <1>3, <2>2, <2>4, <3>1, <3>2
    <3>3. CASE ~ (x < 0)
      BY <1>3, <2>2, <2>4, <3>1, <3>3
    <3> QED BY <3>2, <3>3
  <2> QED BY <2>3, <2>4
<1>6. Rem(x, y) = IF x < 0 THEN -r ELSE r
  <2>1. x = IF x < 0 THEN -(p + r) ELSE p + r
    BY <1>1, <1>2, <1>4 DEF Abs
  <2>2. PICK z \in Int : z = y * Quot(x, y) /\ z = IF x < 0 THEN -p ELSE p
    BY <1>5
  <2>3. Rem(x, y) = x - z
    BY <2>2 DEF Rem
  <2> QED BY <2>1, <2>2, <2>3
<1>7. Quot(x, y) \in Int /\ -a <= Quot(x, y) /\ Quot(x, y) <= a
  BY <1>2, <1>3
<1>8. Rem(x, y) \in Int /\ Abs(Rem(x, y)) < b
  BY <1>2, <1>6 DEF Abs
<1> QED BY <1>1, <1>7, <1>8

\* Division undoes a product.
LEMMA QuotBack ==
  ASSUME NEW x \in Int, NEW y \in Int, y # 0
  PROVE  Quot(x * y, y) = x
PROOF
<1>1. PICK n \in Int : n = x * y
  OBVIOUS
<1>2. Quot(n, y) \in Int /\ Rem(n, y) \in Int /\ Abs(Rem(n, y)) < Abs(y)
  BY QuotFacts
<1>3. PICK k \in Int : k = x - Quot(n, y)
  BY <1>2
<1>4. Rem(n, y) = y * k
  BY <1>1, <1>2, <1>3 DEF Rem
<1>5. SUFFICES ASSUME k # 0 PROVE FALSE
  BY <1>1, <1>2, <1>3
<1>6. CASE y > 0
  <2>1. y * k >= y \/ y * k <= -y
    BY <1>5, <1>6, Apart
  <2> QED BY <1>2, <1>4, <1>6, <2>1 DEF Abs
<1>7. CASE y < 0
  <2>1. PICK d \in Nat : d = -y
    BY <1>7
  <2>2. d * k >= d \/ d * k <= -d
    BY <1>5, Apart
  <2>3. y * k = -(d * k)
    BY <2>1
  <2> QED BY <1>2, <1>4, <1>7, <2>1, <2>2, <2>3 DEF Abs
<1> QED BY <1>6, <1>7

-----------------------------------------------------------------------------
(* The integer types.                                                      *)

\* The numbers of a type.
RangeOf(t) == (-Half[t]) .. (Half[t] - 1)

\* The widths of the integer types.
LEMMA Widths ==
  /\ \A t \in IntTypes : Half[t] \in Nat /\ Half[t] >= 2
  /\ Half[TINYINT] < Half[SMALLINT] /\ Half[SMALLINT] < Half[INTEGER] /\ Half[INTEGER] < Half[BIGINT]
  /\ 2 * Half[SMALLINT] <= Half[INTEGER]
  /\ Half[SMALLINT] * Half[SMALLINT] <= Half[INTEGER]
PROOF
<1>1. \A t \in IntTypes : Half[t] \in Nat /\ Half[t] >= 2
  BY WidthAssumption
<1>2. PICK a \in Nat, b \in Nat, c \in Nat, d \in Nat :
        /\ a = Half[TINYINT] /\ b = Half[SMALLINT] /\ c = Half[INTEGER] /\ d = Half[BIGINT]
        /\ a >= 2 /\ a < b /\ b * b <= c /\ c < d
  BY <1>1, WidthAssumption DEF IntTypes
<1>3. PICK e \in Nat : b = e + 2
  <2>1. b - 2 \in Nat /\ b = (b - 2) + 2
    BY <1>2
  <2> QED BY <2>1
<1>4. b * b = e * b + 2 * b /\ e * b >= 0
  BY <1>3
<1>5. 2 * b <= c /\ b < c
  <2>1. PICK m \in Int, l \in Int : m = b * b /\ l = e * b
    OBVIOUS
  <2>2. m = l + 2 * b /\ l >= 0 /\ m <= c
    BY <1>2, <1>4, <2>1
  <2> QED BY <1>2, <2>2
<1> QED BY <1>1, <1>2, <1>5

\* What the conversion to a two's complement type makes of a number: a number of
\* the type, the same one if it fits, and otherwise one that is a multiple of
\* the type's size away.
LEMMA WrapFacts ==
  ASSUME NEW t \in IntTypes, NEW n \in Int
  PROVE  /\ Wrap(t, n) \in RangeOf(t)
         /\ n \in RangeOf(t) => Wrap(t, n) = n
         /\ n \notin RangeOf(t) => Wrap(t, n) - n >= 2 * Half[t] \/ n - Wrap(t, n) >= 2 * Half[t]
PROOF
<1>1. PICK h \in Nat : h = Half[t] /\ h >= 2
  BY Widths
<1>2. PICK b \in Nat \ {0}, a \in Int : b = 2 * h /\ a = n + h
  BY <1>1
<1>3. PICK q \in Int, r \in Int : r = a % b /\ a = b * q + r /\ r >= 0 /\ r < b
  <2>1. PICK c \in Int, d \in Int : c = a \div b /\ d = a % b
    OBVIOUS
  <2>2. a = b * c + d /\ d >= 0 /\ d < b
    BY <2>1
  <2> QED BY <2>1, <2>2, Zenon
<1>4. a = b * q + r /\ r >= 0 /\ r < b
  BY <1>3
<1>5. Wrap(t, n) = r - h
  BY <1>1, <1>2, <1>3 DEF Wrap
<1>6. PICK m \in Int : m = b * q
  OBVIOUS
<1>7. q = 0 => m = 0
  BY <1>6
<1>8. q # 0 => m >= b \/ m <= -b
  BY <1>6, Apart
<1>9. a = m + r
  BY <1>4, <1>6, Zenon
<1>10. Wrap(t, n) \in RangeOf(t)
  BY <1>1, <1>2, <1>4, <1>5 DEF RangeOf
<1>11. ASSUME n \in RangeOf(t) PROVE Wrap(t, n) = n
  <2>1. q = 0
    BY <1>1, <1>2, <1>4, <1>8, <1>9, <1>11 DEF RangeOf
  <2> QED BY <1>2, <1>5, <1>7, <1>9, <2>1
<1>12. ASSUME n \notin RangeOf(t)
       PROVE  Wrap(t, n) - n >= 2 * Half[t] \/ n - Wrap(t, n) >= 2 * Half[t]
  <2>1. q # 0
    BY <1>1, <1>2, <1>4, <1>7, <1>9, <1>12 DEF RangeOf
  <2> QED BY <1>1, <1>2, <1>5, <1>8, <1>9, <2>1
<1> QED BY <1>10, <1>11, <1>12

\* The wider of two types, and the type C++ computes in, which is that one or
\* the wider INTEGER.
LEMMA WiderFacts ==
  ASSUME NEW t1 \in IntTypes, NEW t2 \in IntTypes
  PROVE  /\ Wider(t1, t2) \in {t1, t2} /\ Wider(t1, t2) = Wider(t2, t1)
         /\ Half[t1] <= Half[Wider(t1, t2)] /\ Half[t2] <= Half[Wider(t1, t2)]
         /\ Promoted(t1, t2) \in IntTypes
         /\ \/ Promoted(t1, t2) = Wider(t1, t2)
            \/ Promoted(t1, t2) = INTEGER /\ Half[Wider(t1, t2)] <= Half[SMALLINT]
PROOF
<1>1. PICK w \in {t1, t2} : /\ w = Wider(t1, t2) /\ Half[t1] <= Half[w] /\ Half[t2] <= Half[w]
                            /\ w = Wider(t2, t1)
  BY Widths DEF Wider, IntTypes, TINYINT, SMALLINT, INTEGER, BIGINT
<1>2. Promoted(t1, t2) = IF Half[w] >= Half[INTEGER] THEN w ELSE INTEGER
  BY <1>1 DEF Promoted, Wider
<1>3. w \in IntTypes /\ INTEGER \in IntTypes
  BY DEF IntTypes
<1>4. Half[w] >= Half[INTEGER] \/ Half[w] <= Half[SMALLINT]
  BY <1>3, Widths DEF IntTypes
<1> QED BY <1>1, <1>2, <1>3, <1>4

-----------------------------------------------------------------------------
(* The templates of IntegerParentType.                                     *)

\* The check lets a right result pass, and refuses one that wrapped.
Decides(w, n, res, agrees) ==
  /\ n \in RangeOf(w) /\ res = n => agrees
  /\ n \notin RangeOf(w) /\ res \in RangeOf(w) /\ (res - n >= 2 * Half[w] \/ n - res >= 2 * Half[w]) => ~agrees

\* The result is the number, or refused when it is none of the type.
ReturnsExactly(t1, t2, n, agrees, w) ==
  Returned(t1, t2, n, agrees) = IF n \in RangeOf(w) THEN [type |-> w, val |-> n] ELSE OUT_OF_RANGE

\* Returned is exact: with a check that lets the right results pass, and that
\* refuses what wrapped in the type it was computed in.
LEMMA ReturnedExact ==
  ASSUME NEW t1 \in IntTypes, NEW t2 \in IntTypes, NEW n \in Int, NEW agrees \in BOOLEAN,
         NEW w, w = Wider(t1, t2),
         Promoted(t1, t2) = w \/ n \in RangeOf(Promoted(t1, t2)),
         Decides(w, n, Narrowed(t1, t2, n), agrees)
  PROVE  ReturnsExactly(t1, t2, n, agrees, w)
PROOF
<1>1. PICK p \in IntTypes : p = Promoted(t1, t2)
  BY WiderFacts
<1>2. /\ w \in IntTypes /\ w \in {t1, t2} /\ Half[t1] <= Half[w] /\ Half[t2] <= Half[w]
      /\ p = w \/ (p = INTEGER /\ Half[w] <= Half[SMALLINT])
  BY <1>1, WiderFacts
<1>3. /\ Half[w] \in Nat /\ Half[t1] \in Nat /\ Half[t2] \in Nat /\ Half[p] \in Nat
      /\ Half[w] <= Half[p]
  <2>1. Half[SMALLINT] \in Nat /\ Half[INTEGER] \in Nat /\ Half[SMALLINT] < Half[INTEGER]
    BY Widths DEF IntTypes
  <2>2. Half[w] \in Nat /\ Half[t1] \in Nat /\ Half[t2] \in Nat /\ Half[p] \in Nat
    BY <1>2, Widths
  <2> QED BY <1>2, <2>1, <2>2
<1>4. PICK c : c = Computed(t1, t2, n)
  OBVIOUS
<1>5. c = Wrap(p, n)
  BY <1>1, <1>4 DEF Computed
<1>6. c \in RangeOf(p) /\ (n \in RangeOf(p) => c = n)
  BY <1>5, WrapFacts
<1>7. c \in Int
  BY <1>3, <1>6 DEF RangeOf
<1>8. Narrowed(t1, t2, n) = Wrap(w, c)
  BY <1>4 DEF Narrowed
<1>9. CASE n \in RangeOf(w)
  <2>1. c = n
    BY <1>3, <1>6, <1>9 DEF RangeOf
  <2>2. Wrap(w, n) = n
    BY <1>2, <1>9, WrapFacts
  <2>3. Survives(t1, t2, c) /\ Narrowed(t1, t2, n) = n
    BY <1>2, <1>8, <2>1, <2>2 DEF Survives
  <2>4. IntValue(w, n) = [type |-> w, val |-> n]
    BY <1>2, <2>2 DEF IntValue, IntTypes, BOOLEANT, TINYINT, SMALLINT, INTEGER, BIGINT
  <2>5. agrees
    BY <1>9, <2>3, Zenon DEF Decides
  <2> QED BY <1>4, <1>9, <2>3, <2>4, <2>5, Zenon DEF Returned, ReturnsExactly
<1>10. CASE n \notin RangeOf(w)
  <2>1. CASE n \in RangeOf(p)
    <3>1. c = n
      BY <1>6, <2>1
    <3>2. Wrap(t1, n) \in RangeOf(w) /\ Wrap(t2, n) \in RangeOf(w)
      <4>1. Wrap(t1, n) \in RangeOf(t1) /\ Wrap(t2, n) \in RangeOf(t2)
        BY WrapFacts
      <4> QED BY <1>2, <1>3, <4>1 DEF RangeOf
    <3>3. ~ Survives(t1, t2, c)
      <4>1. n # Wrap(t1, n) /\ n # Wrap(t2, n)
        BY <1>10, <3>2, Zenon
      <4> QED BY <3>1, <4>1, Zenon DEF Survives
    <3> QED BY <1>4, <1>10, <3>3, Zenon DEF Returned, ReturnsExactly
  <2>2. CASE n \notin RangeOf(p)
    <3>1. p = w
      BY <1>1, <2>2
    <3>2. c \in RangeOf(w) /\ (c - n >= 2 * Half[w] \/ n - c >= 2 * Half[w])
      BY <1>5, <1>6, <2>2, <3>1, WrapFacts
    <3>3. Narrowed(t1, t2, n) = c
      BY <1>2, <1>7, <1>8, <3>2, WrapFacts
    <3>4. ~agrees
      BY <1>10, <3>2, <3>3, Zenon DEF Decides
    <3> QED BY <1>10, <3>4, Zenon DEF Returned, ReturnsExactly
  <2> QED BY <2>1, <2>2
<1> QED BY <1>9, <1>10

\* A number of a type that is not the one that stands for NULL.
Operand(t, x) == x \in RangeOf(t) /\ x # -Half[t]

\* An operand is a number of its type.
LEMMA OperandFacts ==
  ASSUME NEW t1 \in IntTypes, NEW t2 \in IntTypes, NEW x, NEW y, Operand(t1, x), Operand(t2, y),
         NEW w, w = Wider(t1, t2)
  PROVE  /\ w \in IntTypes /\ Half[w] \in Nat /\ Half[w] >= 2
         /\ x \in Int /\ -Half[w] < x /\ x < Half[w]
         /\ y \in Int /\ -Half[w] < y /\ y < Half[w]
PROOF
<1>1. /\ w \in {t1, t2} /\ Half[t1] <= Half[w] /\ Half[t2] <= Half[w]
  BY WiderFacts
<1>2. /\ Half[w] \in Nat /\ Half[t1] \in Nat /\ Half[t2] \in Nat /\ Half[w] >= 2
  BY <1>1, Widths
<1> QED BY <1>1, <1>2 DEF Operand, RangeOf

\* Sums, differences and products of two small numbers fit into the promoted
\* type.
LEMMA PromotedHolds ==
  ASSUME NEW t1 \in IntTypes, NEW t2 \in IntTypes, NEW w, w = Wider(t1, t2), NEW n \in Int,
         \/ -2 * Half[w] < n /\ n < 2 * Half[w]
         \/ -(Half[w] * Half[w]) < n /\ n < Half[w] * Half[w]
  PROVE  Promoted(t1, t2) = w \/ n \in RangeOf(Promoted(t1, t2))
PROOF
<1>1. SUFFICES ASSUME Promoted(t1, t2) # w PROVE n \in RangeOf(INTEGER)
  BY WiderFacts
<1>2. PICK h \in Nat, s \in Nat, i \in Nat :
        /\ h = Half[w] /\ s = Half[SMALLINT] /\ i = Half[INTEGER]
        /\ h <= s /\ 2 * s <= i /\ s * s <= i
  BY <1>1, WiderFacts, Widths DEF IntTypes
<1>3. h * h <= s * s
  <2>1. PICK d \in Nat : s = h + d
    <3>1. s - h \in Nat /\ s = h + (s - h)
      BY <1>2
    <3> QED BY <3>1
  <2>2. s * s = h * h + 2 * (h * d) + d * d /\ h * d >= 0 /\ d * d >= 0
    BY <2>1
  <2> QED BY <2>2
<1>4. PICK m \in Int, l \in Int : m = h * h /\ l = s * s
  OBVIOUS
<1>5. m <= l /\ l <= i
  BY <1>2, <1>3, <1>4
<1>6. (-2 * h < n /\ n < 2 * h) \/ (-m < n /\ n < m)
  <2>1. Half[w] = h /\ Half[w] * Half[w] = m
    BY <1>2, <1>4, Zenon
  <2> QED BY <2>1, Zenon
<1>7. -i < n /\ n < i
  BY <1>2, <1>5, <1>6
<1> QED BY <1>2, <1>7 DEF RangeOf

\* AddValue: the exact sum, or the exception when it does not fit.
LEMMA AddExact ==
  ASSUME NEW t1 \in IntTypes, NEW t2 \in IntTypes, NEW x, NEW y, Operand(t1, x), Operand(t2, y),
         NEW w, w = Wider(t1, t2)
  PROVE  AddValue(t1, t2, x, y) =
           IF x + y \in RangeOf(w) THEN [type |-> w, val |-> x + y] ELSE OUT_OF_RANGE
PROOF
<1>1. PICK h \in Nat : h = Half[w] /\ h >= 2
  BY OperandFacts
<1>2. /\ x \in Int /\ -h < x /\ x < h /\ y \in Int /\ -h < y /\ y < h
  BY <1>1, OperandFacts
<1>3. PICK n \in Int : n = x + y
  BY <1>2
<1>4. PICK sum : sum = Narrowed(t1, t2, n)
  OBVIOUS
<1>5. PICK agrees \in BOOLEAN : agrees = (~(x > 0 /\ y > 0 /\ sum < 0) /\ ~(x < 0 /\ y < 0 /\ sum > 0))
  BY Zenon
<1>6. Promoted(t1, t2) = w \/ n \in RangeOf(Promoted(t1, t2))
  <2>1. -2 * Half[w] < n /\ n < 2 * Half[w]
    BY <1>1, <1>2, <1>3
  <2> QED BY <2>1, PromotedHolds
<1>7. n \in RangeOf(w) /\ sum = n => agrees
  <2>1. n \in RangeOf(w) /\ sum = n => ~(x > 0 /\ y > 0 /\ sum < 0) /\ ~(x < 0 /\ y < 0 /\ sum > 0)
    BY <1>2, <1>3
  <2> QED BY <1>5, <2>1, Zenon
<1>8. /\ n \notin RangeOf(w) /\ sum \in RangeOf(w) /\ (sum - n >= 2 * Half[w] \/ n - sum >= 2 * Half[w])
      => ~agrees
  <2> SUFFICES ASSUME n \notin RangeOf(w), sum \in RangeOf(w),
                      sum - n >= 2 * Half[w] \/ n - sum >= 2 * Half[w]
               PROVE  ~agrees
    OBVIOUS
  <2>1. ~(~(x > 0 /\ y > 0 /\ sum < 0) /\ ~(x < 0 /\ y < 0 /\ sum > 0))
    BY <1>1, <1>2, <1>3 DEF RangeOf
  <2> QED BY <1>5, <2>1, Zenon
<1>9. Returned(t1, t2, n, agrees) = IF n \in RangeOf(w) THEN [type |-> w, val |-> n] ELSE OUT_OF_RANGE
  <2>1. Decides(w, n, Narrowed(t1, t2, n), agrees)
    BY <1>4, <1>7, <1>8, Zenon DEF Decides
  <2>2. ReturnsExactly(t1, t2, n, agrees, w)
    BY <1>6, <2>1, ReturnedExact, Zenon
  <2> QED BY <2>2, Zenon DEF ReturnsExactly
<1>10. AddValue(t1, t2, x, y) = Returned(t1, t2, n, agrees)
  BY <1>3, <1>4, <1>5, Zenon DEF AddValue
<1> QED BY <1>3, <1>9, <1>10, Zenon

\* SubtractValue: likewise.
LEMMA SubtractExact ==
  ASSUME NEW t1 \in IntTypes, NEW t2 \in IntTypes, NEW x, NEW y, Operand(t1, x), Operand(t2, y),
         NEW w, w = Wider(t1, t2)
  PROVE  SubtractValue(t1, t2, x, y) =
           IF x - y \in RangeOf(w) THEN [type |-> w, val |-> x - y] ELSE OUT_OF_RANGE
PROOF
<1>1. PICK h \in Nat : h = Half[w] /\ h >= 2
  BY OperandFacts
<1>2. /\ x \in Int /\ -h < x /\ x < h /\ y \in Int /\ -h < y /\ y < h
  BY <1>1, OperandFacts
<1>3. PICK n \in Int : n = x - y
  BY <1>2
<1>4. PICK diff : diff = Narrowed(t1, t2, n)
  OBVIOUS
<1>5. PICK agrees \in BOOLEAN : agrees = (~(x > 0 /\ y < 0 /\ diff < 0) /\ ~(x < 0 /\ y > 0 /\ diff > 0))
  BY Zenon
<1>6. Promoted(t1, t2) = w \/ n \in RangeOf(Promoted(t1, t2))
  <2>1. -2 * Half[w] < n /\ n < 2 * Half[w]
    BY <1>1, <1>2, <1>3
  <2> QED BY <2>1, PromotedHolds
<1>7. n \in RangeOf(w) /\ diff = n => agrees
  <2>1. n \in RangeOf(w) /\ diff = n => ~(x > 0 /\ y < 0 /\ diff < 0) /\ ~(x < 0 /\ y > 0 /\ diff > 0)
    BY <1>2, <1>3
  <2> QED BY <1>5, <2>1, Zenon
<1>8. /\ n \notin RangeOf(w) /\ diff \in RangeOf(w) /\ (diff - n >= 2 * Half[w] \/ n - diff >= 2 * Half[w])
      => ~agrees
  <2> SUFFICES ASSUME n \notin RangeOf(w), diff \in RangeOf(w),
                      diff - n >= 2 * Half[w] \/ n - diff >= 2 * Half[w]
               PROVE  ~agrees
    OBVIOUS
  <2>1. ~(~(x > 0 /\ y < 0 /\ diff < 0) /\ ~(x < 0 /\ y > 0 /\ diff > 0))
    BY <1>1, <1>2, <1>3 DEF RangeOf
  <2> QED BY <1>5, <2>1, Zenon
<1>9. Returned(t1, t2, n, agrees) = IF n \in RangeOf(w) THEN [type |-> w, val |-> n] ELSE OUT_OF_RANGE
  <2>1. Decides(w, n, Narrowed(t1, t2, n), agrees)
    BY <1>4, <1>7, <1>8, Zenon DEF Decides
  <2>2. ReturnsExactly(t1, t2, n, agrees, w)
    BY <1>6, <2>1, ReturnedExact, Zenon
  <2> QED BY <2>2, Zenon DEF ReturnsExactly
<1>10. SubtractValue(t1, t2, x, y) = Returned(t1, t2, n, agrees)
  BY <1>3, <1>4, <1>5, Zenon DEF SubtractValue
<1> QED BY <1>3, <1>9, <1>10, Zenon

\* IntValue does not change a number of the type.
LEMMA IntValueExact ==
  ASSUME NEW t \in IntTypes, NEW n \in RangeOf(t)
  PROVE  IntValue(t, n) = [type |-> t, val |-> n]
PROOF
<1>1. n \in Int
  BY Widths DEF RangeOf
<1>2. Wrap(t, n) = n
  BY <1>1, WrapFacts
<1>3. t # BOOLEANT
  BY DEF IntTypes, BOOLEANT, TINYINT, SMALLINT, INTEGER, BIGINT
<1> QED BY <1>2, <1>3 DEF IntValue

\* The product of two numbers below h is below h * h.
LEMMA ProductBelow ==
  ASSUME NEW h \in Nat, NEW x \in Int, -h < x, x < h, NEW y \in Int, -h < y, y < h
  PROVE  -(h * h) < x * y /\ x * y < h * h
PROOF
<1>1. ASSUME NEW a \in Nat, NEW b \in Nat, a < h, b < h PROVE a * b < h * h /\ a * b >= 0
  <2>1. PICK c \in Nat, d \in Nat : h = a + 1 + c /\ h = b + 1 + d
    <3>1. h - a - 1 \in Nat /\ h - b - 1 \in Nat /\ h = a + 1 + (h - a - 1) /\ h = b + 1 + (h - b - 1)
      BY <1>1
    <3> QED BY <3>1
  <2>2. h * h = (a + 1 + c) * (b + 1 + d)
    BY <2>1
  <2>3. (a + 1 + c) * (b + 1 + d) = a * b + a * (1 + d) + (1 + c) * b + (1 + c) * (1 + d)
    OBVIOUS
  <2>4. a * (1 + d) >= 0 /\ (1 + c) * b >= 0 /\ (1 + c) * (1 + d) >= 1 /\ a * b >= 0
    <3>1. (1 + c) * (1 + d) = 1 + c + d + c * d /\ c * d >= 0
      OBVIOUS
    <3>2. a * (1 + d) >= 0 /\ (1 + c) * b >= 0 /\ a * b >= 0
      OBVIOUS
    <3> QED BY <3>1, <3>2
  <2>5. PICK m1 \in Int, m2 \in Int, m3 \in Int, m4 \in Int :
          m1 = a * (1 + d) /\ m2 = (1 + c) * b /\ m3 = (1 + c) * (1 + d) /\ m4 = a * b
    OBVIOUS
  <2> QED BY <2>2, <2>3, <2>4, <2>5
<1>2. PICK a \in Nat, b \in Nat : a = Abs(x) /\ b = Abs(y) /\ a < h /\ b < h
  BY DEF Abs
<1>3. PICK p \in Int : p = a * b
  OBVIOUS
<1>4. x * y = p \/ x * y = -p
  <2>1. (x = a \/ x = -a) /\ (y = b \/ y = -b)
    BY <1>2 DEF Abs
  <2>2. a * (-b) = -p /\ (-a) * b = -p /\ (-a) * (-b) = p
    BY <1>3
  <2> QED BY <1>3, <2>1, <2>2
<1>5. p < h * h /\ p >= 0
  BY <1>1, <1>2, <1>3
<1>6. PICK q \in Int, z \in Int : q = h * h /\ z = x * y
  OBVIOUS
<1> QED BY <1>4, <1>5, <1>6

\* MultiplyValue: a product that wrapped does not divide back.
LEMMA MultiplyExact ==
  ASSUME NEW t1 \in IntTypes, NEW t2 \in IntTypes, NEW x, NEW y, Operand(t1, x), Operand(t2, y),
         NEW w, w = Wider(t1, t2)
  PROVE  MultiplyValue(t1, t2, x, y) =
           IF x * y \in RangeOf(w) THEN [type |-> w, val |-> x * y] ELSE OUT_OF_RANGE
PROOF
<1>1. PICK h \in Nat : h = Half[w] /\ h >= 2
  BY OperandFacts
<1>2. /\ x \in Int /\ -h < x /\ x < h /\ y \in Int /\ -h < y /\ y < h
  BY <1>1, OperandFacts
<1>3. PICK n \in Int : n = x * y
  BY <1>2
<1>4. PICK m : m = Narrowed(t1, t2, n)
  OBVIOUS
<1>5. PICK agrees \in BOOLEAN : agrees = (y # 0 => Quot(m, y) = x)
  BY Zenon
<1>6. Promoted(t1, t2) = w \/ n \in RangeOf(Promoted(t1, t2))
  <2>1. -(h * h) < n /\ n < h * h
    BY <1>2, <1>3, ProductBelow
  <2>2. -(Half[w] * Half[w]) < n /\ n < Half[w] * Half[w]
    BY <1>1, <2>1, Zenon
  <2> QED BY <2>2, PromotedHolds
<1>7. n \in RangeOf(w) /\ m = n => agrees
  <2>1. y # 0 => Quot(n, y) = x
    BY <1>2, <1>3, QuotBack
  <2> QED BY <1>5, <2>1, Zenon
<1>8. /\ n \notin RangeOf(w) /\ m \in RangeOf(w) /\ (m - n >= 2 * Half[w] \/ n - m >= 2 * Half[w])
      => ~agrees
  <2> SUFFICES ASSUME n \notin RangeOf(w), m \in RangeOf(w),
                      m - n >= 2 * Half[w] \/ n - m >= 2 * Half[w]
               PROVE  ~agrees
    OBVIOUS
  <2>1. m \in Int /\ 0 \in RangeOf(w)
    BY <1>1 DEF RangeOf
  <2>2. y # 0
    BY <1>2, <1>3, <2>1
  <2>3. Quot(m, y) # x
    <3> SUFFICES ASSUME Quot(m, y) = x PROVE FALSE
      OBVIOUS
    <3>1. Abs(Rem(m, y)) < Abs(y) /\ Rem(m, y) \in Int
      BY <1>2, <2>1, <2>2, QuotFacts
    <3>2. y * x = n
      BY <1>2, <1>3
    <3>3. Rem(m, y) = m - n
      BY <3>2, Zenon DEF Rem
    <3> QED BY <1>1, <1>2, <2>1, <3>1, <3>3 DEF Abs
  <2> QED BY <1>5, <2>2, <2>3, Zenon
<1>9. Returned(t1, t2, n, agrees) = IF n \in RangeOf(w) THEN [type |-> w, val |-> n] ELSE OUT_OF_RANGE
  <2>1. Decides(w, n, Narrowed(t1, t2, n), agrees)
    BY <1>4, <1>7, <1>8, Zenon DEF Decides
  <2>2. ReturnsExactly(t1, t2, n, agrees, w)
    BY <1>6, <2>1, ReturnedExact, Zenon
  <2> QED BY <2>2, Zenon DEF ReturnsExactly
<1>10. MultiplyValue(t1, t2, x, y) = Returned(t1, t2, n, agrees)
  BY <1>3, <1>4, <1>5, Zenon DEF MultiplyValue
<1> QED BY <1>3, <1>9, <1>10, Zenon

\* DivideValue and ModuloValue: quotient and remainder always fit.
LEMMA DivideExact ==
  ASSUME NEW t1 \in IntTypes, NEW t2 \in IntTypes, NEW x, NEW y, Operand(t1, x), Operand(t2, y),
         y # 0, NEW w, w = Wider(t1, t2)
  PROVE  /\ Quot(x, y) \in RangeOf(w) /\ Rem(x, y) \in RangeOf(w)
         /\ DivideValue(t1, t2, x, y) = [type |-> w, val |-> Quot(x, y)]
         /\ ModuloValue(t1, t2, x, y) = [type |-> w, val |-> Rem(x, y)]
PROOF
<1>1. /\ w \in IntTypes /\ Half[w] \in Nat
      /\ x \in Int /\ -Half[w] < x /\ x < Half[w] /\ y \in Int /\ -Half[w] < y /\ y < Half[w]
  BY OperandFacts
<1>2. /\ Quot(x, y) \in Int /\ Rem(x, y) \in Int
      /\ Abs(Rem(x, y)) < Abs(y)
      /\ -Abs(x) <= Quot(x, y) /\ Quot(x, y) <= Abs(x)
  BY <1>1, QuotFacts
<1>3. Quot(x, y) \in RangeOf(w) /\ Rem(x, y) \in RangeOf(w)
  BY <1>1, <1>2 DEF Abs, RangeOf
<1>4. /\ IntValue(w, Quot(x, y)) = [type |-> w, val |-> Quot(x, y)]
      /\ IntValue(w, Rem(x, y)) = [type |-> w, val |-> Rem(x, y)]
  BY <1>1, <1>3, IntValueExact
<1> QED BY <1>3, <1>4 DEF DivideValue, ModuloValue

\* NULL of an integer type is its least number.
LEMMA NullInteger ==
  ASSUME NEW t \in IntTypes
  PROVE  NullPayload(t) = -Half[t]
BY DEF NullPayload, IntTypes, TINYINT, SMALLINT, INTEGER, BIGINT, DECIMAL, BOOLEANT, VARCHAR

\* The arithmetic of two integers that are not NULL, as Value::Add and its kin
\* reach it.
LEMMA IntegerArithmeticExact ==
  ASSUME NEW l, NEW r, l.type \in IntTypes, r.type \in IntTypes,
         Operand(l.type, l.val), Operand(r.type, r.val), NEW op \in ArithmeticOps
  PROVE  ExactResult(op, l, r, Arithmetic(op, l, r))
PROOF
<1>0. PICK x, y : x = l.val /\ y = r.val
  OBVIOUS
<1>1. PICK t1 \in IntTypes, t2 \in IntTypes : t1 = l.type /\ t2 = r.type /\ x = l.val /\ y = r.val
  BY <1>0
<1>2. PICK w : w = Wider(t1, t2)
  OBVIOUS
<1>3. Operand(t1, x) /\ Operand(t2, y)
  BY <1>1
<1>4. ~IsNull(l) /\ ~IsNull(r)
  BY <1>1, <1>3, NullInteger DEF IsNull, Operand
<1>5. r.type # VARCHAR /\ r.type # DECIMAL /\ ~Threw(r)
  BY DEF IntTypes, VARCHAR, DECIMAL, TINYINT, SMALLINT, INTEGER, BIGINT, Threw
<1>6. Arithmetic(op, l, r) = OrThrow(DivisorError(op, r), IntegerMethod(op, l, r))
  <2>1. Arithmetic(op, l, r) = IntegerArithmeticOf(op, l, r, CastAs(r, l.type))
    BY DEF Arithmetic, ArithmeticWith, TinyintArithmetic, SmallintArithmetic, IntegerArithmetic,
           BigintArithmetic, IntTypes, TINYINT, SMALLINT, INTEGER, BIGINT, DECIMAL
  <2>2. OrThrow(r, IntegerMethod(op, l, r)) = IntegerMethod(op, l, r)
    BY <1>5 DEF OrThrow
  <2> QED BY <1>4, <1>5, <2>1, <2>2 DEF IntegerArithmeticOf
<1>7. CASE op \in {"Divide", "Modulo"} /\ y = 0
  <2>1. DivisorError(op, r) = DIVIDE_BY_ZERO
    BY <1>1, <1>5, <1>7 DEF DivisorError
  <2>2. Arithmetic(op, l, r) = DIVIDE_BY_ZERO
    BY <1>6, <2>1 DEF OrThrow, Threw, DIVIDE_BY_ZERO, Throw
  <2> QED BY <1>1, <1>7, <2>2 DEF ExactResult
<1>8. CASE ~ (op \in {"Divide", "Modulo"} /\ y = 0)
  <2>1. DivisorError(op, r) = r
    BY <1>1, <1>5, <1>8 DEF DivisorError
  <2>2. Arithmetic(op, l, r) = IntegerMethod(op, l, r)
    BY <1>5, <1>6, <2>1 DEF OrThrow
  <2>3. CASE op = "Add"
    <3>1. Arithmetic(op, l, r) = AddValue(t1, t2, x, y)
      BY <1>1, <2>2, <2>3 DEF IntegerMethod
    <3>2. AddValue(t1, t2, x, y) = IF x + y \in RangeOf(w) THEN [type |-> w, val |-> x + y] ELSE OUT_OF_RANGE
      BY <1>2, <1>3, AddExact
    <3> QED BY <1>1, <1>2, <2>3, <3>1, <3>2 DEF ExactResult, RangeOf
  <2>4. CASE op = "Subtract"
    <3>1. Arithmetic(op, l, r) = SubtractValue(t1, t2, x, y)
      BY <1>1, <2>2, <2>4 DEF IntegerMethod
    <3>2. SubtractValue(t1, t2, x, y) =
            IF x - y \in RangeOf(w) THEN [type |-> w, val |-> x - y] ELSE OUT_OF_RANGE
      BY <1>2, <1>3, SubtractExact
    <3> QED BY <1>1, <1>2, <2>4, <3>1, <3>2 DEF ExactResult, RangeOf
  <2>5. CASE op = "Multiply"
    <3>1. Arithmetic(op, l, r) = MultiplyValue(t1, t2, x, y)
      BY <1>1, <2>2, <2>5 DEF IntegerMethod
    <3>2. MultiplyValue(t1, t2, x, y) =
            IF x * y \in RangeOf(w) THEN [type |-> w, val |-> x * y] ELSE OUT_OF_RANGE
      BY <1>2, <1>3, MultiplyExact
    <3> QED BY <1>1, <1>2, <2>5, <3>1, <3>2 DEF ExactResult, RangeOf
  <2>6. CASE op = "Divide"
    <3>1. Arithmetic(op, l, r) = DivideValue(t1, t2, x, y)
      BY <1>1, <2>2, <2>6 DEF IntegerMethod
    <3>2. Quot(x, y) \in RangeOf(w) /\ DivideValue(t1, t2, x, y) = [type |-> w, val |-> Quot(x, y)]
      BY <1>2, <1>3, <1>8, <2>6, DivideExact
    <3> QED BY <1>1, <1>2, <1>8, <2>6, <3>1, <3>2 DEF ExactResult, RangeOf
  <2>7. CASE op = "Modulo"
    <3>1. Arithmetic(op, l, r) = ModuloValue(t1, t2, x, y)
      BY <1>1, <2>2, <2>7 DEF IntegerMethod
    <3>2. Rem(x, y) \in RangeOf(w) /\ ModuloValue(t1, t2, x, y) = [type |-> w, val |-> Rem(x, y)]
      BY <1>2, <1>3, <1>8, <2>7, DivideExact
    <3> QED BY <1>1, <1>2, <1>8, <2>7, <3>1, <3>2 DEF ExactResult, RangeOf
  <2> QED BY <2>3, <2>4, <2>5, <2>6, <2>7 DEF ArithmeticOps
<1> QED BY <1>7, <1>8

-----------------------------------------------------------------------------
(* Doubles.                                                                *)

\* Multiples of Scale are ordered like their factors.
LEMMA Scaled ==
  ASSUME NEW s \in Nat \ {0}, NEW a \in Int, NEW b \in Int
  PROVE  a <= b <=> a * s <= b * s
PROOF
<1>1. ASSUME NEW c \in Int, NEW d \in Int, c < d PROVE c * s < d * s
  <2>1. PICK k \in Int : k = d - c /\ k # 0 /\ k > 0
    BY <1>1
  <2>2. d * s = c * s + s * k
    BY <2>1
  <2>3. s * k > 0
    BY <2>1
  <2>4. PICK m \in Int, l \in Int, j \in Int : m = d * s /\ l = c * s /\ j = s * k
    OBVIOUS
  <2> QED BY <2>2, <2>3, <2>4
<1>2. CASE a < b
  BY <1>1, <1>2
<1>3. CASE b < a
  BY <1>1, <1>3
<1>4. CASE a = b
  BY <1>4
<1> QED BY <1>2, <1>3, <1>4

\* The numbers that are rounded.
Units == (-DblMax) .. DblMax

\* Rounding gives a double, keeps the order, and is the same on both sides of zero.
LEMMA DoubleFacts ==
  ASSUME NEW x \in Units, NEW y \in Units
  PROVE  /\ x \in Int /\ -x \in Units
         /\ Double[x] \in Units /\ Double[x] \in Int
         /\ x <= y => Double[x] <= Double[y]
         /\ Double[Double[x]] = Double[x] /\ Double[-x] = -Double[x]
PROOF
<1>1. DblMax \in Nat
  BY WidthAssumption
<1>2. /\ Double[x] \in Units /\ (x <= y => Double[x] <= Double[y])
      /\ Double[Double[x]] = Double[x] /\ Double[-x] = -Double[x]
  BY DoubleAssumption DEF Units
<1>3. \A z \in Units : z \in Int /\ -z \in Units
  BY <1>1 DEF Units
<1> QED BY <1>2, <1>3

\* Every integer is rounded, and one of at most 32 bits is a double.
LEMMA IntegerDouble ==
  ASSUME NEW t \in IntTypes, NEW n \in RangeOf(t)
  PROVE  /\ n \in Int /\ n * Scale \in Units
         /\ t # BIGINT => Double[n * Scale] = n * Scale
PROOF
<1>1. PICK s \in Nat \ {0} : s = Scale
  BY WidthAssumption
<1>2. PICK h \in Nat, k \in Nat : h = Half[t] /\ k = Half[BIGINT] /\ h <= k
  BY Widths DEF IntTypes
<1>3. n \in Int /\ -h <= n /\ n <= h /\ -k <= n /\ n <= k
  BY <1>2 DEF RangeOf
<1>4. PICK m \in Int, l \in Int, u \in Int : m = n * s /\ l = (-k) * s /\ u = k * s
  BY <1>3
<1>5. l <= m /\ m <= u
  BY <1>3, <1>4, Scaled
<1>6. l = -u
  BY <1>4
<1>7. u < DblMax /\ DblMax \in Nat
  <2>1. u = Half[BIGINT] * Scale
    BY <1>1, <1>2, <1>4, Zenon
  <2> QED BY <2>1, WidthAssumption
<1>8. m \in Units /\ -m \in Units
  BY <1>5, <1>6, <1>7 DEF Units
<1>9. ASSUME t # BIGINT PROVE Double[m] = m
  <2>1. h <= Half[INTEGER] /\ Half[INTEGER] \in Nat
    BY <1>2, <1>9, Widths DEF IntTypes
  <2>2. ASSUME NEW j \in 0 .. Half[INTEGER] PROVE Double[j * s] = j * s
    BY <1>1, <2>2, DoubleAssumption
  <2>3. CASE n >= 0
    <3>1. n \in 0 .. Half[INTEGER]
      BY <1>2, <1>3, <2>1, <2>3
    <3> QED BY <1>4, <2>2, <3>1, Zenon
  <2>4. CASE n < 0
    <3>1. -n \in 0 .. Half[INTEGER]
      BY <1>2, <1>3, <2>1, <2>4
    <3>2. (-n) * s = -m
      BY <1>3, <1>4
    <3>3. Double[-m] = -m
      BY <2>2, <3>1, <3>2, Zenon
    <3>4. Double[-m] = -Double[m] /\ Double[m] \in Int
      BY <1>8, DoubleFacts
    <3> QED BY <3>3, <3>4
  <2> QED BY <1>3, <2>3, <2>4
<1> QED BY <1>1, <1>3, <1>4, <1>8, <1>9

\* The result of an operation on doubles is a double, or beyond them.
IsDouble(d) == d \in Units => d = Double[d]

\* The definition of Rounded.
LEMMA RoundedIsDouble ==
  ASSUME NEW n
  PROVE  IsDouble(Rounded(n))
PROOF
<1>1. CASE n \in Units
  <2>1. Rounded(n) = Double[n]
    BY <1>1 DEF Rounded, Units
  <2>2. Double[Double[n]] = Double[n]
    BY <1>1, DoubleFacts
  <2> QED BY <2>1, <2>2 DEF IsDouble
<1>2. CASE n \notin Units
  BY <1>2, Zenon DEF Rounded, Units, IsDouble
<1> QED BY <1>1, <1>2

-----------------------------------------------------------------------------
(* Comparisons.                                                            *)

\* A numeric value is a number of units of 1/Scale, and so is the double it is
\* converted to: the number rounded, and a DECIMAL as it is.
LEMMA NumberFacts ==
  ASSUME NEW v, WellTyped(v), v.type \in NumericTypes
  PROVE  /\ v.val \in Int /\ Number(v) \in Int /\ Number(v) \in Units
         /\ v.type \in IntTypes => Number(v) = v.val * Scale /\ v.val \in RangeOf(v.type)
         /\ AsDouble(v) = Double[Number(v)] /\ IsDouble(AsDouble(v))
         /\ v.type = DECIMAL => AsDouble(v) = Number(v)
PROOF
<1>1. Scale \in Nat /\ DblMax \in Nat
  BY WidthAssumption
<1>2. CASE v.type \in IntTypes
  <2>1. v.val \in RangeOf(v.type)
    BY <1>2, Widths DEF WellTyped, RangeOf
  <2>2. v.type # DECIMAL
    BY <1>2 DEF IntTypes, TINYINT, SMALLINT, INTEGER, BIGINT, DECIMAL
  <2>3. Number(v) = v.val * Scale /\ AsDouble(v) = Double[v.val * Scale]
    BY <2>2 DEF Number, AsDouble
  <2>4. v.val \in Int /\ v.val * Scale \in Units
    BY <1>2, <2>1, IntegerDouble
  <2>5. Number(v) \in Int /\ Double[Double[Number(v)]] = Double[Number(v)]
    BY <2>3, <2>4, DoubleFacts
  <2> QED BY <2>1, <2>2, <2>3, <2>4, <2>5 DEF IsDouble
<1>3. CASE v.type = DECIMAL
  <2>1. v.val \in Units /\ v.val = Double[v.val]
    BY <1>3 DEF WellTyped, Units
  <2>2. v.val \in Int
    BY <2>1, DoubleFacts
  <2>3. Number(v) = v.val /\ AsDouble(v) = v.val /\ v.type \notin IntTypes
    BY <1>3 DEF Number, AsDouble, IntTypes, TINYINT, SMALLINT, INTEGER, BIGINT, DECIMAL
  <2> QED BY <2>1, <2>2, <2>3 DEF IsDouble
<1> QED BY <1>2, <1>3 DEF NumericTypes

\* What two numbers are compared as: the numbers, or both of them rounded.
LEMMA ComparedFacts ==
  ASSUME NEW l, NEW r, WellTyped(l), WellTyped(r), l.type \in NumericTypes, r.type \in NumericTypes
  PROVE  /\ \/ Compared(l, r) = Number(l) /\ Compared(r, l) = Number(r)
            \/ Compared(l, r) = Double[Number(l)] /\ Compared(r, l) = Double[Number(r)]
         /\ Compared(l, r) \in {Number(l), AsDouble(l)} /\ Compared(r, l) \in {Number(r), AsDouble(r)}
         /\ l.type \in IntTypes /\ r.type \in IntTypes =>
              Compared(l, r) = Number(l) /\ Compared(r, l) = Number(r)
PROOF
<1>1. ASSUME NEW v, v \in {l, r}
      PROVE  AsDouble(v) = Double[Number(v)] /\ (v.type = DECIMAL => AsDouble(v) = Number(v))
  BY <1>1, NumberFacts
<1>2. DECIMAL \notin IntTypes
  BY DEF IntTypes, TINYINT, SMALLINT, INTEGER, BIGINT, DECIMAL
<1> QED BY <1>1, <1>2 DEF Compared

\* So the order of the numbers is the order of what is compared, unless
\* rounding makes two numbers one.
LEMMA ComparedInOrder ==
  ASSUME NEW l, NEW r, WellTyped(l), WellTyped(r), l.type \in NumericTypes, r.type \in NumericTypes
  PROVE  /\ Compared(l, r) \in Int
         /\ Number(l) <= Number(r) => Compared(l, r) <= Compared(r, l)
         /\ Number(r) <= Number(l) => Compared(r, l) <= Compared(l, r)
PROOF
<1>1. PICK x \in Units, y \in Units : x = Number(l) /\ y = Number(r)
  BY NumberFacts
<1>2. /\ x \in Int /\ Double[x] \in Int /\ (x <= y => Double[x] <= Double[y])
      /\ (y <= x => Double[y] <= Double[x])
  BY DoubleFacts
<1>3. \/ Compared(l, r) = x /\ Compared(r, l) = y
      \/ Compared(l, r) = Double[x] /\ Compared(r, l) = Double[y]
  BY <1>1, ComparedFacts
<1> QED BY <1>1, <1>2, <1>3

\* Numbers of any two types are compared as numbers.
LEMMA NumbersCompare ==
  ASSUME NEW l, NEW r, NEW c, l.type \in NumericTypes, r.type \in NumericTypes,
         ~IsNull(l), ~IsNull(r), NEW op
  PROVE  CompareWith(op, l, r, c) = CmpBool(op, Compared(l, r), Compared(r, l))
PROOF
<1>1. CompareWith(op, l, r, c) = CompareNumber(op, l, r, c)
  BY DEF CompareWith, TinyintCompare, SmallintCompare, IntegerCompare, BigintCompare, DecimalCompare,
         NumericTypes, IntTypes, TINYINT, SMALLINT, INTEGER, BIGINT, DECIMAL, BOOLEANT, VARCHAR
<1>2. r.type # VARCHAR
  BY DEF NumericTypes, IntTypes, TINYINT, SMALLINT, INTEGER, BIGINT, DECIMAL, VARCHAR
<1> QED BY <1>1, <1>2 DEF CompareNumber

\* Min and Max of two numbers.
LEMMA NumbersMinMax ==
  ASSUME NEW l, NEW r, l.type \in NumericTypes, r.type \in NumericTypes,
         ~IsNull(l), ~IsNull(r), NEW x \in Int, NEW y \in Int, x = Compared(l, r), y = Compared(r, l)
  PROVE  /\ (ValueMin(l, r) = l /\ x <= y) \/ (ValueMin(l, r) = r /\ y <= x)
         /\ (ValueMax(l, r) = l /\ x >= y) \/ (ValueMax(l, r) = r /\ y >= x)
PROOF
<1>1. PICK c : c = CastAs(r, l.type)
  OBVIOUS
<1>2. ASSUME NEW op \in CompareOps
      PROVE  Choose(op, l, r, c) = IF CmpBool(op, x, y) = "CmpTrue" THEN l ELSE r
  <2>1. CompareWith(op, l, r, c) = CmpBool(op, x, y)
    BY NumbersCompare
  <2>2. CmpBool(op, x, y) \in {"CmpTrue", "CmpFalse"}
    BY DEF CmpBool
  <2> QED BY <2>1, <2>2 DEF Choose, Chosen
<1>3. {"<", "<=", ">="} \subseteq CompareOps
  BY DEF CompareOps
<1>4. CmpBool("<", x, y) = "CmpTrue" <=> x < y
  BY DEF CmpBool
<1>5. CmpBool("<=", x, y) = "CmpTrue" <=> x <= y
  BY DEF CmpBool
<1>6. CmpBool(">=", x, y) = "CmpTrue" <=> x >= y
  BY DEF CmpBool
<1>7. (Choose("<", l, r, c) = l /\ x <= y) \/ (Choose("<", l, r, c) = r /\ y <= x)
  <2>1. Choose("<", l, r, c) = IF CmpBool("<", x, y) = "CmpTrue" THEN l ELSE r
    BY <1>2, <1>3, Zenon
  <2> QED BY <1>4, <2>1
<1>8. (Choose("<=", l, r, c) = l /\ x <= y) \/ (Choose("<=", l, r, c) = r /\ y <= x)
  <2>1. Choose("<=", l, r, c) = IF CmpBool("<=", x, y) = "CmpTrue" THEN l ELSE r
    BY <1>2, <1>3, Zenon
  <2> QED BY <1>5, <2>1
<1>9. (Choose(">=", l, r, c) = l /\ x >= y) \/ (Choose(">=", l, r, c) = r /\ y >= x)
  <2>1. Choose(">=", l, r, c) = IF CmpBool(">=", x, y) = "CmpTrue" THEN l ELSE r
    BY <1>2, <1>3, Zenon
  <2> QED BY <1>6, <2>1
<1>10. CASE l.type \in IntTypes
  <2>1. ValueMin(l, r) = Choose("<", l, r, c) /\ ValueMax(l, r) = Choose(">=", l, r, c)
    BY <1>1, <1>10 DEF ValueMin, ValueMax, MinWith, MaxWith, CheckInteger, IntegerParentMin, IntegerParentMax,
       IntTypes, TINYINT, SMALLINT, INTEGER, BIGINT, DECIMAL, VARCHAR
  <2> QED BY <1>7, <1>9, <2>1
<1>11. CASE l.type = DECIMAL
  <2>1. ValueMin(l, r) = Choose("<=", l, r, c) /\ ValueMax(l, r) = Choose(">=", l, r, c)
    BY <1>1, <1>11 DEF ValueMin, ValueMax, MinWith, MaxWith, CheckInteger, DecimalMin, DecimalMax,
       IntTypes, TINYINT, SMALLINT, INTEGER, BIGINT, DECIMAL, VARCHAR
  <2> QED BY <1>8, <1>9, <2>1
<1> QED BY <1>10, <1>11 DEF NumericTypes

\* What an integer spells as a text.
Spelled(n) == Numeral(n < 0, Abs(n), -1)

\* stoi reads what to_string wrote, if it fits.
LEMMA StoiSpelled ==
  ASSUME NEW t \in IntTypes, NEW n \in Int
  PROVE  Stoi(t, Spelled(n)) = IF n \in RangeOf(t) THEN [type |-> t, val |-> n] ELSE OUT_OF_RANGE
PROOF
<1>1. PICK s : s = Spelled(n)
  OBVIOUS
<1>2. s.word = "numeral" /\ (IF s.neg THEN -s.int ELSE s.int) = n
  <2>1. s = [word |-> "numeral", neg |-> n < 0, int |-> Abs(n), frac |-> -1]
    BY <1>1, Zenon DEF Spelled, Numeral
  <2>2. s.word = "numeral" /\ s.int = Abs(n) /\ s.neg = (n < 0)
    BY <2>1, Zenon
  <2>3. CASE n < 0
    <3>1. -Abs(n) = n
      BY <2>3 DEF Abs
    <3>2. s.neg
      BY <2>2, <2>3, Zenon
    <3> QED BY <2>2, <3>1, <3>2, Zenon
  <2>4. CASE ~ (n < 0)
    <3>1. Abs(n) = n
      BY <2>4 DEF Abs
    <3>2. ~s.neg
      BY <2>2, <2>4, Zenon
    <3> QED BY <2>2, <3>1, <3>2, Zenon
  <2> QED BY <2>3, <2>4
<1>3. n \in RangeOf(t) => IntValue(t, n) = [type |-> t, val |-> n]
  BY IntValueExact
<1> QED BY <1>1, <1>2, <1>3 DEF Stoi, RangeOf

\* An integer that is not NULL as a text.
LEMMA IntegerAsText ==
  ASSUME NEW v, v.type \in IntTypes, ~IsNull(v)
  PROVE  /\ CastAs(v, VARCHAR) = VarcharValue(Spelled(v.val))
         /\ CastAs(v, VARCHAR).type = VARCHAR /\ CastAs(v, VARCHAR).val = Spelled(v.val)
         /\ ~IsNull(CastAs(v, VARCHAR))
PROOF
<1>1. ASSUME NEW N \in SUBSET IntTypes
      PROVE  CastInteger(N, v, VARCHAR) = VarcharValue(ValueToString(v))
  BY DEF CastInteger, NumericTypes, IntTypes, TINYINT, SMALLINT, INTEGER, BIGINT, DECIMAL, VARCHAR
<1>2. CastAs(v, VARCHAR) = VarcharValue(ValueToString(v))
  BY <1>1 DEF CastAs, TinyintCastAs, SmallintCastAs, IntegerCastAs, BigintCastAs,
     IntTypes, TINYINT, SMALLINT, INTEGER, BIGINT, DECIMAL, BOOLEANT, VARCHAR
<1>3. ValueToString(v) = Spelled(v.val)
  BY DEF ValueToString, Spelled, IntTypes, TINYINT, SMALLINT, INTEGER, BIGINT, DECIMAL, BOOLEANT, VARCHAR
<1>4. Spelled(v.val) # NullText
  BY DEF Spelled, Numeral, NullText, Text
<1>5. NullPayload(VARCHAR) = NullText
  BY DEF NullPayload, IntTypes, TINYINT, SMALLINT, INTEGER, BIGINT, DECIMAL, BOOLEANT, VARCHAR
<1> QED BY <1>2, <1>3, <1>4, <1>5 DEF VarcharValue, IsNull

\* A text that spells an integer is cast to INTEGER and BIGINT as that number,
\* or refused.
LEMMA SpelledCast ==
  ASSUME NEW t \in {INTEGER, BIGINT}, NEW n \in Int, NEW v, v.type = VARCHAR, v.val = Spelled(n)
  PROVE  CastAs(v, t) \in {OUT_OF_RANGE, [type |-> t, val |-> n]}
PROOF
<1>1. CastAs(v, t) = TextAsInteger(Spelled(n), t)
  BY DEF CastAs, VarlenCastAs, IntTypes, TINYINT, SMALLINT, INTEGER, BIGINT, DECIMAL, BOOLEANT, VARCHAR
<1>2. t \in IntTypes
  BY DEF IntTypes
<1>3. TextAsInteger(Spelled(n), t) = StoiResult(Stoi(t, Spelled(n)), t)
  BY DEF TextAsInteger, INTEGER, BIGINT
<1>4. CASE n \in RangeOf(t)
  <2>1. PICK r : r = [type |-> t, val |-> n]
    OBVIOUS
  <2>2. Stoi(t, Spelled(n)) = r
    BY <1>2, <1>4, <2>1, StoiSpelled
  <2>3. ~Threw(r) /\ IntValue(t, r.val) = r
    BY <1>2, <1>4, <2>1, IntValueExact DEF Threw, INTEGER, BIGINT
  <2>4. StoiResult(r, t) \in {OUT_OF_RANGE, r}
    BY <2>3 DEF StoiResult
  <2> QED BY <1>1, <1>3, <2>1, <2>2, <2>4
<1>5. CASE n \notin RangeOf(t)
  <2>1. Stoi(t, Spelled(n)) = OUT_OF_RANGE
    BY <1>2, <1>5, StoiSpelled
  <2>2. StoiResult(OUT_OF_RANGE, t) = OUT_OF_RANGE
    BY DEF StoiResult, Threw, OUT_OF_RANGE, Throw
  <2> QED BY <1>1, <1>3, <2>1, <2>2
<1> QED BY <1>4, <1>5

\* An INTEGER or BIGINT and a text that spells an integer.
LEMMA TextCompare ==
  ASSUME NEW l, NEW r, WellTyped(l), WellTyped(r), l.type \in {INTEGER, BIGINT}, r.type \in IntTypes,
         ~IsNull(l), ~IsNull(r), NEW op
  PROVE  Compare(op, l, CastAs(r, VARCHAR)) \in {"Throw", CmpBool(op, Number(l), Number(r))}
PROOF
<1>1. PICK text : text = CastAs(r, VARCHAR)
  OBVIOUS
<1>2. text.type = VARCHAR /\ text.val = Spelled(r.val) /\ ~IsNull(text)
  BY <1>1, IntegerAsText
<1>3. r.val \in Int /\ Number(r) = r.val * Scale
  BY NumberFacts DEF NumericTypes
<1>4. PICK c : c = CastAs(text, l.type)
  OBVIOUS
<1>5. c \in {OUT_OF_RANGE, [type |-> l.type, val |-> r.val]}
  BY <1>2, <1>3, <1>4, SpelledCast
<1>6. Compare(op, l, text) = CmpCast(op, Number(l), c, Number(c))
  <2>1. Compare(op, l, text) = CompareNumber(op, l, text, c)
    BY <1>4 DEF Compare, CompareWith, IntegerCompare, BigintCompare,
       TINYINT, SMALLINT, INTEGER, BIGINT, DECIMAL, BOOLEANT, VARCHAR
  <2> QED BY <1>2, <2>1 DEF CompareNumber
<1>7. CASE c = OUT_OF_RANGE
  BY <1>1, <1>6, <1>7 DEF CmpCast, Threw, OUT_OF_RANGE, Throw
<1>8. CASE c = [type |-> l.type, val |-> r.val]
  <2>1. ~Threw(c) /\ Number(c) = r.val * Scale
    BY <1>8 DEF Threw, Number, INTEGER, BIGINT, DECIMAL
  <2> QED BY <1>1, <1>3, <1>6, <2>1 DEF CmpCast
<1> QED BY <1>5, <1>7, <1>8

-----------------------------------------------------------------------------
(* Casts.                                                                  *)

\* The limits of an integer type.
LEMMA Limits ==
  ASSUME NEW t \in IntTypes
  PROVE  /\ MinOf(t) = -Half[t] + 1 /\ MaxOf(t) = Half[t] - 1
         /\ MinOf(t) \in Int /\ MaxOf(t) \in Int
         /\ \A n \in Int : n \in MinOf(t) .. MaxOf(t) <=> Operand(t, n)
PROOF
<1>1. MinOf(t) = -Half[t] + 1 /\ MaxOf(t) = Half[t] - 1
  BY DEF MinOf, MaxOf, IntTypes, TINYINT, SMALLINT, INTEGER, BIGINT, DECIMAL
<1>2. Half[t] \in Nat
  BY Widths
<1> QED BY <1>1, <1>2 DEF Operand, RangeOf

\* An integer that is not NULL is an operand of its type.
LEMMA IntegerOperand ==
  ASSUME NEW v, WellTyped(v), v.type \in IntTypes, ~IsNull(v)
  PROVE  Operand(v.type, v.val) /\ v.val \in Int
PROOF
<1>1. v.val # -Half[v.type]
  BY NullInteger DEF IsNull
<1> QED BY <1>1, NumberFacts DEF Operand, NumericTypes

\* An operand of a type is one of every wider type.
LEMMA OperandWiden ==
  ASSUME NEW t \in IntTypes, NEW u \in IntTypes, Half[t] <= Half[u], NEW n \in Int, Operand(t, n)
  PROVE  Operand(u, n)
PROOF
<1>1. Half[t] \in Nat /\ Half[u] \in Nat
  BY Widths
<1> QED BY <1>1 DEF Operand, RangeOf

\* What both implementations of the cast between integer types compute.
ExactCast(v, t) ==
  IF Operand(t, v.val) THEN [type |-> t, val |-> v.val] ELSE OUT_OF_RANGE

\* CastInteger, if the unchecked types are the ones the number fits into.
LEMMA CastIntegerExact ==
  ASSUME NEW v, v.val \in Int, ~IsNull(v), NEW t \in IntTypes, NEW N,
         t \notin N => Operand(t, v.val)
  PROVE  CastInteger(N, v, t) = ExactCast(v, t)
PROOF
<1>1. t \in NumericTypes \cup {VARCHAR} /\ t # DECIMAL /\ t # VARCHAR
  BY DEF NumericTypes, IntTypes, TINYINT, SMALLINT, INTEGER, BIGINT, DECIMAL, VARCHAR
<1>2. v.val \in MinOf(t) .. MaxOf(t) <=> Operand(t, v.val)
  BY Limits
<1>3. Operand(t, v.val) => IntValue(t, v.val) = [type |-> t, val |-> v.val]
  BY IntValueExact DEF Operand
<1>4. CASE Operand(t, v.val)
  BY <1>1, <1>2, <1>3, <1>4 DEF CastInteger, ExactCast
<1>5. CASE ~Operand(t, v.val)
  BY <1>1, <1>2, <1>5 DEF CastInteger, ExactCast
<1> QED BY <1>4, <1>5

\* FactoryCast, if the number fits from every type that is not checked.
LEMMA FactoryIntegerExact ==
  ASSUME NEW v, v.val \in Int, ~IsNull(v), v.type \in IntTypes, NEW t \in IntTypes, NEW E,
         v.type \in E => Operand(t, v.val)
  PROVE  FactoryCast(E, v, t) = ExactCast(v, t)
PROOF
<1>1. IsCoercableFrom(t, v.type)
  BY DEF IsCoercableFrom, NumericTypes
<1>2. v.type # DECIMAL /\ v.type # VARCHAR
  BY DEF IntTypes, TINYINT, SMALLINT, INTEGER, BIGINT, DECIMAL, VARCHAR
<1>3. v.val \in MinOf(t) .. MaxOf(t) <=> Operand(t, v.val)
  BY Limits
<1>4. Operand(t, v.val) => IntValue(t, v.val) = [type |-> t, val |-> v.val]
  BY IntValueExact DEF Operand
<1>5. FactoryCast(E, v, t) = IF v.type \in E \/ v.val \in MinOf(t) .. MaxOf(t)
                             THEN IntValue(t, v.val) ELSE OUT_OF_RANGE
  BY <1>1, <1>2 DEF FactoryCast
<1> QED BY <1>3, <1>4, <1>5 DEF ExactCast

\* CastAs between integer types is exact or refused.
LEMMA IntegerCast ==
  ASSUME NEW v, WellTyped(v), v.type \in IntTypes, ~IsNull(v), NEW t \in IntTypes
  PROVE  CastAs(v, t) = ExactCast(v, t)
PROOF
<1>1. Operand(v.type, v.val) /\ v.val \in Int
  BY IntegerOperand
<1>2. Half[v.type] <= Half[t] => Operand(t, v.val)
  BY <1>1, OperandWiden
<1>3. CASE v.type = TINYINT
  <2>1. t \notin {} => Operand(t, v.val)
    BY <1>2, <1>3, Widths DEF IntTypes
  <2>2. CastAs(v, t) = CastInteger({}, v, t)
    BY <1>3 DEF CastAs, TinyintCastAs, TINYINT, SMALLINT, INTEGER, BIGINT, DECIMAL, BOOLEANT, VARCHAR
  <2> QED BY <1>1, <2>1, <2>2, CastIntegerExact
<1>4. CASE v.type = SMALLINT
  <2>1. t \notin {TINYINT} => Operand(t, v.val)
    BY <1>2, <1>4, Widths DEF IntTypes
  <2>2. CastAs(v, t) = CastInteger({TINYINT}, v, t)
    BY <1>4 DEF CastAs, SmallintCastAs, TINYINT, SMALLINT, INTEGER, BIGINT, DECIMAL, BOOLEANT, VARCHAR
  <2> QED BY <1>1, <2>1, <2>2, CastIntegerExact
<1>5. CASE v.type = INTEGER
  <2>1. t \notin {TINYINT, SMALLINT} => Operand(t, v.val)
    BY <1>2, <1>5, Widths DEF IntTypes
  <2>2. CastAs(v, t) = CastInteger({TINYINT, SMALLINT}, v, t)
    BY <1>5 DEF CastAs, IntegerCastAs, TINYINT, SMALLINT, INTEGER, BIGINT, DECIMAL, BOOLEANT, VARCHAR
  <2> QED BY <1>1, <2>1, <2>2, CastIntegerExact
<1>6. CASE v.type = BIGINT
  <2>1. t \notin {TINYINT, SMALLINT, INTEGER} => Operand(t, v.val)
    BY <1>2, <1>6, Widths DEF IntTypes
  <2>2. CastAs(v, t) = CastInteger({TINYINT, SMALLINT, INTEGER}, v, t)
    BY <1>6 DEF CastAs, BigintCastAs, TINYINT, SMALLINT, INTEGER, BIGINT, DECIMAL, BOOLEANT, VARCHAR
  <2> QED BY <1>1, <2>1, <2>2, CastIntegerExact
<1> QED BY <1>3, <1>4, <1>5, <1>6 DEF IntTypes

\* So are the casts of ValueFactory.
LEMMA IntegerFactoryCast ==
  ASSUME NEW v, WellTyped(v), v.type \in IntTypes, ~IsNull(v), NEW t \in IntTypes
  PROVE  ValueFactoryCastAs(v, t) = ExactCast(v, t)
PROOF
<1>1. Operand(v.type, v.val) /\ v.val \in Int
  BY IntegerOperand
<1>2. Half[v.type] <= Half[t] => Operand(t, v.val)
  BY <1>1, OperandWiden
<1>3. CASE t = TINYINT
  <2>1. v.type \in {TINYINT} => Operand(t, v.val)
    BY <1>2, <1>3, Widths DEF IntTypes
  <2>2. ValueFactoryCastAs(v, t) = FactoryCast({TINYINT}, v, t)
    BY <1>3 DEF ValueFactoryCastAs, CastAsTinyInt, TINYINT, SMALLINT, INTEGER, BIGINT, DECIMAL, BOOLEANT, VARCHAR
  <2> QED BY <1>1, <2>1, <2>2, FactoryIntegerExact
<1>4. CASE t = SMALLINT
  <2>1. v.type \in {TINYINT, SMALLINT} => Operand(t, v.val)
    BY <1>2, <1>4, Widths DEF IntTypes
  <2>2. ValueFactoryCastAs(v, t) = FactoryCast({TINYINT, SMALLINT}, v, t)
    BY <1>4 DEF ValueFactoryCastAs, CastAsSmallInt, TINYINT, SMALLINT, INTEGER, BIGINT, DECIMAL, BOOLEANT, VARCHAR
  <2> QED BY <1>1, <2>1, <2>2, FactoryIntegerExact
<1>5. CASE t = INTEGER
  <2>1. v.type \in {TINYINT, SMALLINT, INTEGER} => Operand(t, v.val)
    BY <1>2, <1>5, Widths DEF IntTypes
  <2>2. ValueFactoryCastAs(v, t) = FactoryCast({TINYINT, SMALLINT, INTEGER}, v, t)
    BY <1>5 DEF ValueFactoryCastAs, CastAsInteger, TINYINT, SMALLINT, INTEGER, BIGINT, DECIMAL, BOOLEANT, VARCHAR
  <2> QED BY <1>1, <2>1, <2>2, FactoryIntegerExact
<1>6. CASE t = BIGINT
  <2>1. v.type \in IntTypes => Operand(t, v.val)
    BY <1>2, <1>6, Widths DEF IntTypes
  <2>2. ValueFactoryCastAs(v, t) = FactoryCast(IntTypes, v, t)
    BY <1>6 DEF ValueFactoryCastAs, CastAsBigInt, TINYINT, SMALLINT, INTEGER, BIGINT, DECIMAL, BOOLEANT, VARCHAR
  <2> QED BY <1>1, <2>1, <2>2, FactoryIntegerExact
<1> QED BY <1>3, <1>4, <1>5, <1>6 DEF IntTypes

\* An integer that went through a text comes back.
LEMMA IntegerThroughText ==
  ASSUME NEW v, WellTyped(v), v.type \in IntTypes, ~IsNull(v)
  PROVE  CastAs(CastAs(v, VARCHAR), v.type) = v
PROOF
<1>1. PICK t \in IntTypes, n \in Int : t = v.type /\ n = v.val /\ Operand(t, n)
  BY IntegerOperand
<1>2. PICK text : text = CastAs(v, VARCHAR) /\ text.type = VARCHAR /\ text.val = Spelled(n)
  BY <1>1, IntegerAsText
<1>3. PICK u \in IntTypes : /\ u = (IF t = BIGINT THEN BIGINT ELSE INTEGER) /\ Half[t] <= Half[u]
  BY Widths DEF IntTypes
<1>4. CastAs(text, t) = StoiResult(Stoi(u, Spelled(n)), t)
  BY <1>2, <1>3 DEF CastAs, VarlenCastAs, TextAsInteger,
     IntTypes, TINYINT, SMALLINT, INTEGER, BIGINT, DECIMAL, BOOLEANT, VARCHAR
<1>5. PICK r : r = [type |-> u, val |-> n]
  OBVIOUS
<1>6. Stoi(u, Spelled(n)) = r
  BY <1>1, <1>3, <1>5, OperandWiden, StoiSpelled DEF Operand
<1>7. ~Threw(r) /\ r.val = n
  BY <1>5 DEF Threw, IntTypes, TINYINT, SMALLINT, INTEGER, BIGINT
<1>8. Wrap(t, n) = n /\ ~(n < MinOf(t)) /\ IntValue(t, n) = [type |-> t, val |-> n]
  <2>1. Wrap(t, n) = n /\ IntValue(t, n) = [type |-> t, val |-> n]
    BY <1>1, WrapFacts, IntValueExact DEF Operand
  <2>2. n \in MinOf(t) .. MaxOf(t) /\ MinOf(t) \in Int
    BY <1>1, Limits
  <2> QED BY <2>1, <2>2
<1>9. StoiResult(r, t) = [type |-> t, val |-> n]
  BY <1>7, <1>8 DEF StoiResult
<1>10. v = [type |-> t, val |-> n]
  BY <1>1 DEF WellTyped, TypeId, NumericTypes
<1> QED BY <1>1, <1>2, <1>4, <1>6, <1>9, <1>10, Zenon

\* A double between the limits of an integer type, cut at the point, is between
\* them.
LEMMA CutWithin ==
  ASSUME NEW s \in Nat \ {0}, NEW a \in Int, NEW b \in Int, NEW d \in (a * s) .. (b * s)
  PROVE  Quot(d, s) \in a .. b
PROOF
<1>1. d \in Int /\ a * s <= d /\ d <= b * s
  OBVIOUS
<1>2. PICK q \in Int, r \in Int : q = Quot(d, s) /\ r = Rem(d, s) /\ -s < r /\ r < s
  <2>1. s \in Int /\ s # 0 /\ Abs(s) = s
    BY DEF Abs
  <2>2. Quot(d, s) \in Int /\ Rem(d, s) \in Int /\ Abs(Rem(d, s)) < Abs(s)
    BY <1>1, <2>1, QuotFacts
  <2>3. PICK r \in Int : r = Rem(d, s)
    BY <2>2
  <2>4. -s < r /\ r < s
    BY <2>1, <2>2, <2>3 DEF Abs
  <2> QED BY <2>2, <2>3, <2>4, Zenon
<1>3. PICK m \in Int : m = s * q /\ r = d - m
  BY <1>2 DEF Rem
<1>4. q * s = m
  BY <1>3
<1>5. (b + 1) * s = b * s + s /\ (a - 1) * s = a * s - s
  OBVIOUS
<1>6. PICK l \in Int, u \in Int : l = a * s /\ u = b * s
  OBVIOUS
<1>7. m < u + s /\ l - s < m
  BY <1>1, <1>2, <1>3, <1>6
<1>8. ~ (b + 1 <= q)
  <2>1. b + 1 <= q => (b + 1) * s <= q * s
    BY Scaled
  <2> QED BY <1>4, <1>5, <1>6, <1>7, <2>1
<1>9. ~ (q <= a - 1)
  <2>1. q <= a - 1 => q * s <= (a - 1) * s
    BY Scaled
  <2> QED BY <1>4, <1>5, <1>6, <1>7, <2>1
<1> QED BY <1>2, <1>8, <1>9

\* What the property says of the cast of a number to an integer type.
NumberCastExact(v, t) ==
  LET res == CastAs(v, t)
      n == Quot(Number(v), Scale)
  IN  IF Number(v) \in (MinOf(t) * Scale) .. (MaxOf(t) * Scale)
      THEN res.type = t /\ res.val = n
      ELSE \/ res = OUT_OF_RANGE
           \/ t = BIGINT /\ Abs(Number(v)) = Half[t] * Scale /\ res = NullOf(t)

\* The casts of an integer that is not NULL.
LEMMA IntegerCastExact ==
  ASSUME NEW v, WellTyped(v), v.type \in IntTypes, ~IsNull(v), NEW t \in IntTypes
  PROVE  NumberCastExact(v, t)
PROOF
<1>1. PICK x \in Int : x = v.val /\ Number(v) = x * Scale
  BY NumberFacts DEF NumericTypes
<1>2. Scale \in Nat \ {0}
  BY WidthAssumption
<1>3. PICK a \in Int, b \in Int : a = MinOf(t) /\ b = MaxOf(t)
  BY Limits
<1>4. Number(v) \in (a * Scale) .. (b * Scale) <=> x \in a .. b
  <2>1. a <= x <=> a * Scale <= x * Scale
    BY <1>2, Scaled
  <2>2. x <= b <=> x * Scale <= b * Scale
    BY <1>2, Scaled
  <2>3. PICK l \in Int, m \in Int, u \in Int : l = a * Scale /\ m = x * Scale /\ u = b * Scale
    BY <1>2
  <2>4. Number(v) \in l .. u <=> x \in a .. b
    BY <1>1, <2>1, <2>2, <2>3
  <2> QED BY <2>3, <2>4, Zenon
<1>5. x \in a .. b <=> Operand(t, x)
  BY <1>3, Limits
<1>6. Quot(Number(v), Scale) = x
  <2>1. Scale \in Int /\ Scale # 0
    BY <1>2
  <2>2. Quot(x * Scale, Scale) = x
    BY <2>1, QuotBack
  <2> QED BY <1>1, <2>2, Zenon
<1>7. CastAs(v, t) = ExactCast(v, t)
  BY IntegerCast
<1>8. CASE Operand(t, x)
  <2>1. CastAs(v, t).type = t /\ CastAs(v, t).val = x
    BY <1>1, <1>7, <1>8 DEF ExactCast
  <2>2. Number(v) \in (MinOf(t) * Scale) .. (MaxOf(t) * Scale)
    BY <1>3, <1>4, <1>5, <1>8, Zenon
  <2> QED BY <1>6, <2>1, <2>2, Zenon DEF NumberCastExact
<1>9. CASE ~Operand(t, x)
  <2>1. CastAs(v, t) = OUT_OF_RANGE
    BY <1>1, <1>7, <1>9 DEF ExactCast
  <2>2. Number(v) \notin (MinOf(t) * Scale) .. (MaxOf(t) * Scale)
    BY <1>3, <1>4, <1>5, <1>9, Zenon
  <2> QED BY <2>1, <2>2, Zenon DEF NumberCastExact
<1> QED BY <1>8, <1>9

\* The limits of an integer type as doubles: the limits, and for BIGINT -2^63 and 2^63.
LEMMA LimitsAsDoubles ==
  ASSUME NEW t \in IntTypes, NEW l, NEW u, NEW h, l = MinOf(t) * Scale, u = MaxOf(t) * Scale, h = Half[t] * Scale
  PROVE  /\ l \in Units /\ u \in Units /\ h \in Int
         /\ t # BIGINT => Double[l] = l /\ Double[u] = u
         /\ t = BIGINT => Double[l] = -h /\ Double[u] = h
PROOF
<1>1. PICK s \in Nat \ {0} : s = Scale
  BY WidthAssumption
<1>2. PICK k \in Nat : k = Half[t] /\ k >= 2
  BY Widths
<1>3. MinOf(t) = -k + 1 /\ MaxOf(t) = k - 1
  BY <1>2, Limits
<1>4. MinOf(t) \in RangeOf(t) /\ MaxOf(t) \in RangeOf(t)
  BY <1>2, <1>3 DEF RangeOf
<1>5. /\ l \in Units /\ (t # BIGINT => Double[l] = l)
      /\ u \in Units /\ (t # BIGINT => Double[u] = u)
  BY <1>4, IntegerDouble
<1>6. h = k * s /\ h \in Int
  BY <1>1, <1>2
<1>7. l = -u
  <2>1. l = (-k + 1) * s /\ u = (k - 1) * s
    BY <1>1, <1>3, Zenon
  <2>2. (-k + 1) * s = -((k - 1) * s)
    OBVIOUS
  <2> QED BY <2>1, <2>2, Zenon
<1>8. ASSUME t = BIGINT PROVE Double[u] = h
  <2>1. u = (Half[BIGINT] - 1) * Scale
    BY <1>2, <1>3, <1>8, Zenon
  <2>2. Double[(Half[BIGINT] - 1) * Scale] = Half[BIGINT] * Scale
    BY DoubleAssumption
  <2> QED BY <1>8, <2>1, <2>2, Zenon
<1>9. Double[-u] = -Double[u]
  BY <1>5, DoubleFacts
<1> QED BY <1>5, <1>6, <1>7, <1>8, <1>9, Zenon

\* -2^63 and 2^63 become the NULL of BIGINT.
LEMMA LimitIsNull ==
  ASSUME NEW t \in IntTypes, NEW d, NEW h, h = Half[t] * Scale, d = h \/ d = -h
  PROVE  IntValue(t, Quot(d, Scale)) = NullOf(t)
PROOF
<1>1. Scale \in Int /\ Scale # 0
  BY WidthAssumption
<1>2. PICK k \in Nat : k = Half[t] /\ k >= 2
  BY Widths
<1>3. PICK n \in Int : (n = k \/ n = -k) /\ d = n * Scale
  <2>1. -(k * Scale) = (-k) * Scale
    BY <1>1
  <2>2. d = k * Scale \/ d = (-k) * Scale
    BY <1>2, <2>1, Zenon
  <2>3. k \in Int /\ -k \in Int
    OBVIOUS
  <2> QED BY <2>2, <2>3, Zenon
<1>4. Quot(d, Scale) = n
  BY <1>1, <1>3, QuotBack
<1>5. Wrap(t, n) \in RangeOf(t) /\ (n \in RangeOf(t) => Wrap(t, n) = n)
      /\ (n \notin RangeOf(t) => Wrap(t, n) - n >= 2 * k \/ n - Wrap(t, n) >= 2 * k)
  BY <1>2, WrapFacts
<1>6. Wrap(t, n) = -k
  BY <1>2, <1>3, <1>5 DEF RangeOf
<1>7. t # BOOLEANT
  BY DEF IntTypes, BOOLEANT, TINYINT, SMALLINT, INTEGER, BIGINT
<1> QED BY <1>2, <1>4, <1>6, <1>7, NullInteger DEF IntValue, NullOf

\* The casts of a DECIMAL that is not NULL.
LEMMA DecimalCastExact ==
  ASSUME NEW v, WellTyped(v), v.type = DECIMAL, ~IsNull(v), NEW t \in IntTypes
  PROVE  NumberCastExact(v, t) /\ CastAs(v, t) = DoubleAsInteger(v.val, t)
PROOF
<1>1. PICK d \in Units : d = v.val /\ Number(v) = d /\ Double[d] = d /\ d \in Int
  BY NumberFacts DEF NumericTypes, Number, AsDouble
<1>2. Scale \in Nat \ {0}
  BY WidthAssumption
<1>3. PICK a \in Int, b \in Int : a = MinOf(t) /\ b = MaxOf(t)
  BY Limits
<1>4. CastAs(v, t) = DoubleAsInteger(d, t)
  BY <1>1 DEF CastAs, DecimalCastAs,
     IntTypes, TINYINT, SMALLINT, INTEGER, BIGINT, DECIMAL, BOOLEANT, VARCHAR
<1>5. PICK l, u, h : l = MinOf(t) * Scale /\ u = MaxOf(t) * Scale /\ h = Half[t] * Scale
  OBVIOUS
<1>6. /\ l \in Units /\ u \in Units /\ h \in Int
      /\ t # BIGINT => Double[l] = l /\ Double[u] = u
      /\ t = BIGINT => Double[l] = -h /\ Double[u] = h
  BY <1>5, LimitsAsDoubles
<1>7. PICK dl \in Int, du \in Int : dl = Double[l] /\ du = Double[u]
  BY <1>6, DoubleFacts
<1>8. DoubleAsInteger(d, t) = IF d \in dl .. du THEN IntValue(t, Quot(d, Scale)) ELSE OUT_OF_RANGE
  BY <1>5, <1>7, Zenon DEF DoubleAsInteger
<1>9. l \in Int /\ u \in Int
  BY <1>6, DoubleFacts
<1>10. (l <= d => dl <= d) /\ (d <= u => d <= du) /\ (d <= l => d <= dl) /\ (u <= d => du <= d)
  <2>1. (l <= d => Double[l] <= Double[d]) /\ (d <= l => Double[d] <= Double[l])
    BY <1>1, <1>6, DoubleFacts
  <2>2. (u <= d => Double[u] <= Double[d]) /\ (d <= u => Double[d] <= Double[u])
    BY <1>1, <1>6, DoubleFacts
  <2> QED BY <1>1, <1>7, <2>1, <2>2
<1>11. CASE d \in l .. u
  <2>1. Quot(d, Scale) \in a .. b
    <3>1. d \in (a * Scale) .. (b * Scale)
      BY <1>3, <1>5, <1>11, Zenon
    <3> QED BY <1>2, <3>1, CutWithin
  <2>2. Operand(t, Quot(d, Scale))
    BY <1>3, <2>1, Limits
  <2>3. IntValue(t, Quot(d, Scale)) = [type |-> t, val |-> Quot(d, Scale)]
    BY <2>2, IntValueExact DEF Operand
  <2>4. d \in dl .. du
    BY <1>1, <1>9, <1>10, <1>11
  <2>5. CastAs(v, t).type = t /\ CastAs(v, t).val = Quot(d, Scale)
    BY <1>4, <1>8, <2>3, <2>4
  <2> QED BY <1>1, <1>4, <1>5, <1>11, <2>5, Zenon DEF NumberCastExact
<1>12. CASE d \notin l .. u
  <2>1. CASE d \in dl .. du
    <3>1. t = BIGINT /\ dl = -h /\ du = h
      BY <1>6, <1>7, <1>12, <2>1
    <3>2. d = h \/ d = -h
      BY <1>1, <1>6, <1>9, <1>10, <1>12, <2>1, <3>1
    <3>3. h >= 0
      <4>1. Half[t] \in Nat
        BY Widths
      <4> QED BY <1>2, <1>5, <4>1
    <3>4. Abs(d) = h
      BY <1>6, <3>2, <3>3 DEF Abs
    <3>5. IntValue(t, Quot(d, Scale)) = NullOf(t)
      BY <1>5, <3>2, LimitIsNull
    <3>6. CastAs(v, t) = NullOf(t)
      BY <1>4, <1>8, <2>1, <3>5
    <3> QED BY <1>1, <1>4, <1>5, <1>12, <3>1, <3>4, <3>6, Zenon DEF NumberCastExact
  <2>2. CASE d \notin dl .. du
    <3>1. CastAs(v, t) = OUT_OF_RANGE
      BY <1>4, <1>8, <2>2
    <3> QED BY <1>1, <1>4, <1>5, <1>12, <3>1, Zenon DEF NumberCastExact
  <2> QED BY <2>1, <2>2
<1> QED BY <1>11, <1>12

\* What the property says of the two implementations of a cast.
FactoryAgrees(v, t) ==
  LET c == CastAs(v, t)
      f == ValueFactoryCastAs(v, t)
  IN  \/ c.type = f.type /\ (Threw(c) \/ c = f)
      \/ IsNull(v) /\ (v.type = VARCHAR \/ t = BOOLEANT) /\ Threw(c) /\ f = NullOf(t)

\* The seven types are seven.
LEMMA TypeNames ==
  /\ IntTypes = {TINYINT, SMALLINT, INTEGER, BIGINT}
  /\ NumericTypes = IntTypes \cup {DECIMAL} /\ TypeId = NumericTypes \cup {BOOLEANT, VARCHAR}
  /\ DECIMAL \notin IntTypes /\ BOOLEANT \notin NumericTypes /\ VARCHAR \notin NumericTypes
  /\ BOOLEANT # VARCHAR /\ DECIMAL # BOOLEANT /\ DECIMAL # VARCHAR
  /\ \A s \in {"EXCEPTION", "INVALID", "GARBAGE", "OFFSET"} : s \notin TypeId
BY DEF TypeId, NumericTypes, IntTypes, TINYINT, SMALLINT, INTEGER, BIGINT, DECIMAL, BOOLEANT, VARCHAR

\* CastAs by the type of the value.
LEMMA CastAsOf ==
  ASSUME NEW v, NEW t
  PROVE  /\ v.type \in IntTypes => \E N \in SUBSET IntTypes : CastAs(v, t) = CastInteger(N, v, t)
         /\ v.type = DECIMAL => CastAs(v, t) = DecimalCastAs(v, t)
         /\ v.type = BOOLEANT => CastAs(v, t) = BooleanCastAs(v, t)
         /\ v.type = VARCHAR => CastAs(v, t) = VarlenCastAs(v, t)
PROOF
<1>1. /\ v.type = DECIMAL => CastAs(v, t) = DecimalCastAs(v, t)
      /\ v.type = BOOLEANT => CastAs(v, t) = BooleanCastAs(v, t)
      /\ v.type = VARCHAR => CastAs(v, t) = VarlenCastAs(v, t)
  BY DEF CastAs, TINYINT, SMALLINT, INTEGER, BIGINT, DECIMAL, BOOLEANT, VARCHAR
<1>2. ASSUME v.type \in IntTypes PROVE \E N \in SUBSET IntTypes : CastAs(v, t) = CastInteger(N, v, t)
  <2>1. /\ v.type = TINYINT => CastAs(v, t) = CastInteger({}, v, t)
        /\ v.type = SMALLINT => CastAs(v, t) = CastInteger({TINYINT}, v, t)
        /\ v.type = INTEGER => CastAs(v, t) = CastInteger({TINYINT, SMALLINT}, v, t)
        /\ v.type = BIGINT => CastAs(v, t) = CastInteger({TINYINT, SMALLINT, INTEGER}, v, t)
    BY DEF CastAs, TinyintCastAs, SmallintCastAs, IntegerCastAs, BigintCastAs,
       TINYINT, SMALLINT, INTEGER, BIGINT, DECIMAL, BOOLEANT, VARCHAR
  <2>2. /\ {} \in SUBSET IntTypes /\ {TINYINT} \in SUBSET IntTypes
        /\ {TINYINT, SMALLINT} \in SUBSET IntTypes /\ {TINYINT, SMALLINT, INTEGER} \in SUBSET IntTypes
    BY DEF IntTypes
  <2>3. v.type = TINYINT \/ v.type = SMALLINT \/ v.type = INTEGER \/ v.type = BIGINT
    BY <1>2 DEF IntTypes
  <2> QED BY <2>1, <2>2, <2>3, Zenon
<1> QED BY <1>1, <1>2

\* ValueFactory's cast by the target type.
LEMMA FactoryCastOf ==
  ASSUME NEW v, NEW t
  PROVE  /\ t \in IntTypes => \E E \in SUBSET IntTypes : ValueFactoryCastAs(v, t) = FactoryCast(E, v, t)
         /\ t = DECIMAL => ValueFactoryCastAs(v, t) = CastAsDecimal(v)
         /\ t = VARCHAR => ValueFactoryCastAs(v, t) = CastAsVarchar(v)
         /\ t = BOOLEANT => ValueFactoryCastAs(v, t) = CastAsBoolean(v)
PROOF
<1>1. /\ t = DECIMAL => ValueFactoryCastAs(v, t) = CastAsDecimal(v)
      /\ t = VARCHAR => ValueFactoryCastAs(v, t) = CastAsVarchar(v)
      /\ t = BOOLEANT => ValueFactoryCastAs(v, t) = CastAsBoolean(v)
  BY DEF ValueFactoryCastAs, TINYINT, SMALLINT, INTEGER, BIGINT, DECIMAL, BOOLEANT, VARCHAR
<1>2. ASSUME t \in IntTypes
      PROVE  \E E \in SUBSET IntTypes : ValueFactoryCastAs(v, t) = FactoryCast(E, v, t)
  <2>1. /\ t = TINYINT => ValueFactoryCastAs(v, t) = FactoryCast({TINYINT}, v, t)
        /\ t = SMALLINT => ValueFactoryCastAs(v, t) = FactoryCast({TINYINT, SMALLINT}, v, t)
        /\ t = INTEGER => ValueFactoryCastAs(v, t) = FactoryCast({TINYINT, SMALLINT, INTEGER}, v, t)
        /\ t = BIGINT => ValueFactoryCastAs(v, t) = FactoryCast(IntTypes, v, t)
    BY DEF ValueFactoryCastAs, CastAsTinyInt, CastAsSmallInt, CastAsInteger, CastAsBigInt,
       TINYINT, SMALLINT, INTEGER, BIGINT, DECIMAL, BOOLEANT, VARCHAR
  <2>2. /\ IntTypes \in SUBSET IntTypes /\ {TINYINT} \in SUBSET IntTypes
        /\ {TINYINT, SMALLINT} \in SUBSET IntTypes /\ {TINYINT, SMALLINT, INTEGER} \in SUBSET IntTypes
    BY DEF IntTypes
  <2>3. t = TINYINT \/ t = SMALLINT \/ t = INTEGER \/ t = BIGINT
    BY <1>2 DEF IntTypes
  <2> QED BY <2>1, <2>2, <2>3, Zenon
<1> QED BY <1>1, <1>2

\* The casts of a NULL number.
LEMMA NullCastsAgree ==
  ASSUME NEW v, v.type \in NumericTypes, IsNull(v), NEW t \in TypeId
  PROVE  FactoryAgrees(v, t)
PROOF
<1>1. CASE t # BOOLEANT
  <2>1. CastAs(v, t) = NullOf(t)
    <3>1. t \in NumericTypes \cup {VARCHAR}
      BY <1>1, TypeNames
    <3>2. CASE v.type \in IntTypes
      BY <3>1, <3>2, CastAsOf DEF CastInteger
    <3>3. CASE v.type = DECIMAL
      BY <1>1, <3>3, CastAsOf DEF DecimalCastAs
    <3> QED BY <3>2, <3>3 DEF NumericTypes
  <2>2. ValueFactoryCastAs(v, t) = NullOf(t)
    <3>1. CASE t \in IntTypes
      <4>1. IsCoercableFrom(t, v.type)
        BY <3>1 DEF IsCoercableFrom, NumericTypes
      <4> QED BY <3>1, <4>1, FactoryCastOf DEF FactoryCast
    <3>2. CASE t = DECIMAL
      <4>1. IsCoercableFrom(DECIMAL, v.type)
        BY DEF IsCoercableFrom, NumericTypes
      <4> QED BY <3>2, <4>1, FactoryCastOf DEF CastAsDecimal
    <3>3. CASE t = VARCHAR
      BY <3>3, FactoryCastOf DEF CastAsVarchar
    <3> QED BY <1>1, <3>1, <3>2, <3>3 DEF TypeId, NumericTypes
  <2> QED BY <2>1, <2>2 DEF FactoryAgrees
<1>2. CASE t = BOOLEANT
  <2>1. CastAs(v, t) = TYPE_ERROR
    <3>1. CASE v.type \in IntTypes
      BY <1>2, <3>1, CastAsOf, TypeNames DEF CastInteger
    <3>2. CASE v.type = DECIMAL
      BY <1>2, <3>2, CastAsOf DEF DecimalCastAs
    <3> QED BY <3>1, <3>2 DEF NumericTypes
  <2>2. ValueFactoryCastAs(v, t) = NullOf(t)
    BY <1>2, FactoryCastOf DEF CastAsBoolean
  <2>3. Threw(CastAs(v, t))
    BY <2>1 DEF Threw, TYPE_ERROR, Throw
  <2> QED BY <1>2, <2>2, <2>3 DEF FactoryAgrees
<1> QED BY <1>1, <1>2

\* The casts of a number that is not NULL.
LEMMA NumberCastsAgree ==
  ASSUME NEW v, WellTyped(v), v.type \in NumericTypes, ~IsNull(v), NEW t \in TypeId
  PROVE  FactoryAgrees(v, t)
PROOF
<1>1. v = [type |-> v.type, val |-> v.val] /\ v.type # VARCHAR /\ v.type # BOOLEANT
  BY TypeNames DEF WellTyped
<1>2. CastAs(v, t) = ValueFactoryCastAs(v, t)
  <2>1. CASE t \in IntTypes
    <3>1. CASE v.type \in IntTypes
      BY <2>1, <3>1, IntegerCast, IntegerFactoryCast
    <3>2. CASE v.type = DECIMAL
      <4>1. CastAs(v, t) = DoubleAsInteger(v.val, t)
        BY <2>1, <3>2, DecimalCastExact
      <4>2. IsCoercableFrom(t, v.type)
        BY <2>1 DEF IsCoercableFrom, NumericTypes
      <4>3. v.type \notin IntTypes
        BY <3>2, TypeNames
      <4>4. ValueFactoryCastAs(v, t) = DoubleAsInteger(v.val, t)
        BY <1>1, <2>1, <3>2, <4>2, <4>3, FactoryCastOf DEF FactoryCast
      <4> QED BY <4>1, <4>4
    <3> QED BY <3>1, <3>2 DEF NumericTypes
  <2>2. CASE t = DECIMAL
    <3>1. IsCoercableFrom(DECIMAL, v.type)
      BY DEF IsCoercableFrom, NumericTypes
    <3>2. ValueFactoryCastAs(v, t) = DecimalValue(AsDouble(v))
      BY <1>1, <2>2, <3>1, FactoryCastOf DEF CastAsDecimal
    <3>3. CASE v.type \in IntTypes
      <4>1. PICK N \in SUBSET IntTypes : CastAs(v, t) = CastInteger(N, v, t)
        BY <3>3, CastAsOf
      <4>2. t \in NumericTypes \cup {VARCHAR} /\ t \notin N /\ t \notin IntTypes
        BY <2>2, TypeNames
      <4>3. CastInteger(N, v, t) = DecimalValue(AsDouble(v))
        BY <2>2, <4>2, TypeNames DEF CastInteger
      <4> QED BY <3>2, <4>1, <4>3
    <3>4. CASE v.type = DECIMAL
      <4>1. CastAs(v, t) = v
        BY <2>2, <3>4, CastAsOf, TypeNames DEF DecimalCastAs
      <4>2. AsDouble(v) = v.val
        BY <3>4 DEF AsDouble
      <4> QED BY <1>1, <3>2, <3>4, <4>1, <4>2 DEF DecimalValue
    <3> QED BY <3>3, <3>4 DEF NumericTypes
  <2>3. CASE t = VARCHAR
    <3>1. ValueFactoryCastAs(v, t) = VarcharValue(ValueToString(v))
      BY <2>3, FactoryCastOf DEF CastAsVarchar
    <3>2. CASE v.type \in IntTypes
      <4>1. PICK N \in SUBSET IntTypes : CastAs(v, t) = CastInteger(N, v, t)
        BY <3>2, CastAsOf
      <4>2. t \in NumericTypes \cup {VARCHAR} /\ t \notin N /\ t # DECIMAL
        BY <2>3, TypeNames
      <4> QED BY <2>3, <3>1, <4>1, <4>2 DEF CastInteger
    <3>3. CASE v.type = DECIMAL
      BY <2>3, <3>1, <3>3, CastAsOf, TypeNames DEF DecimalCastAs
    <3> QED BY <3>2, <3>3 DEF NumericTypes
  <2>4. CASE t = BOOLEANT
    <3>1. ValueFactoryCastAs(v, t) = TYPE_ERROR
      BY <1>1, <2>4, FactoryCastOf DEF CastAsBoolean
    <3>2. CASE v.type \in IntTypes
      BY <2>4, <3>1, <3>2, CastAsOf, TypeNames DEF CastInteger
    <3>3. CASE v.type = DECIMAL
      BY <2>4, <3>1, <3>3, CastAsOf DEF DecimalCastAs
    <3> QED BY <3>2, <3>3 DEF NumericTypes
  <2> QED BY <2>1, <2>2, <2>3, <2>4 DEF TypeId, NumericTypes
<1> QED BY <1>2 DEF FactoryAgrees

\* The casts of a boolean.
LEMMA BooleanCastsAgree ==
  ASSUME NEW v, WellTyped(v), v.type = BOOLEANT, NEW t \in TypeId
  PROVE  FactoryAgrees(v, t)
PROOF
<1>1. v = [type |-> v.type, val |-> v.val] /\ CastAs(v, t) = BooleanCastAs(v, t)
  BY CastAsOf, TypeNames DEF WellTyped
<1>2. CASE t = BOOLEANT
  <2>1. CastAs(v, t) = v
    BY <1>1, <1>2, TypeNames DEF BooleanCastAs
  <2>2. IsNull(v) => v = NullOf(t)
    BY <1>1, <1>2 DEF IsNull, NullOf
  <2>3. ValueFactoryCastAs(v, t) = v
    BY <1>2, <2>2, FactoryCastOf, TypeNames DEF CastAsBoolean
  <2> QED BY <2>1, <2>3 DEF FactoryAgrees
<1>3. CASE t = VARCHAR
  <2>1. CastAs(v, t) = ValueFactoryCastAs(v, t)
    BY <1>1, <1>3, FactoryCastOf, TypeNames DEF BooleanCastAs, CastAsVarchar
  <2> QED BY <2>1 DEF FactoryAgrees
<1>4. CASE t \in NumericTypes
  <2>1. CastAs(v, t) = TYPE_ERROR
    BY <1>1, <1>4, TypeNames DEF BooleanCastAs
  <2>2. ~IsCoercableFrom(t, v.type)
    BY <1>4, TypeNames DEF IsCoercableFrom
  <2>3. ValueFactoryCastAs(v, t) = TYPE_ERROR
    <3>1. CASE t \in IntTypes
      BY <2>2, <3>1, FactoryCastOf DEF FactoryCast
    <3>2. CASE t = DECIMAL
      BY <2>2, <3>2, FactoryCastOf, TypeNames DEF CastAsDecimal
    <3> QED BY <1>4, <3>1, <3>2 DEF NumericTypes
  <2> QED BY <2>1, <2>3 DEF FactoryAgrees
<1> QED BY <1>2, <1>3, <1>4 DEF TypeId

\* A text that is NULL is no numeral and no boolean.
LEMMA NullTextThrows ==
  /\ \A t \in IntTypes : Threw(TextAsInteger(NullText, t))
  /\ Threw(TextAsDecimal(NullText)) /\ Threw(TextAsBoolean(NullText))
PROOF
<1>1. /\ NullText.word = "varlen_null"
      /\ NullText # Numeral(FALSE, 1, -1) /\ NullText # Numeral(FALSE, 0, -1)
  BY DEF NullText, Text, Numeral
<1>2. Threw(INVALID_ARGUMENT) /\ Threw(TYPE_ERROR)
  BY DEF Threw, INVALID_ARGUMENT, TYPE_ERROR, Throw
<1>3. ASSUME NEW t PROVE Stoi(t, NullText) = INVALID_ARGUMENT
  BY <1>1 DEF Stoi
<1>4. ASSUME NEW t \in IntTypes PROVE Threw(TextAsInteger(NullText, t))
  BY <1>2, <1>3 DEF TextAsInteger, StoiResult
<1>5. Threw(TextAsDecimal(NullText))
  BY <1>1, <1>2 DEF TextAsDecimal, StodResult, Stod
<1>6. Threw(TextAsBoolean(NullText))
  BY <1>1, <1>2 DEF TextAsBoolean
<1> QED BY <1>4, <1>5, <1>6

\* The casts of a text.
LEMMA TextCastsAgree ==
  ASSUME NEW v, WellTyped(v), v.type = VARCHAR, NEW t \in TypeId
  PROVE  FactoryAgrees(v, t)
PROOF
<1>1. v = [type |-> VARCHAR, val |-> v.val] /\ CastAs(v, t) = VarlenCastAs(v, t)
  BY CastAsOf, TypeNames DEF WellTyped
<1>2. IsNull(v) <=> v.val = NullText
  BY DEF IsNull, NullPayload, IntTypes, TINYINT, SMALLINT, INTEGER, BIGINT, DECIMAL, BOOLEANT, VARCHAR
<1>3. /\ t = BOOLEANT => CastAs(v, t) = TextAsBoolean(v.val)
      /\ t \in IntTypes => CastAs(v, t) = TextAsInteger(v.val, t)
      /\ t = DECIMAL => CastAs(v, t) = TextAsDecimal(v.val)
      /\ t = VARCHAR => CastAs(v, t) = v
  BY <1>1, TypeNames DEF VarlenCastAs
<1>4. ASSUME NEW c PROVE c.type = Caught(c).type /\ (Threw(c) \/ c = Caught(c))
  BY DEF Caught, Threw, INVALID_ARGUMENT, TYPE_ERROR, Throw
<1>5. t \in NumericTypes => IsCoercableFrom(t, v.type)
  BY DEF IsCoercableFrom
<1>6. CASE t = VARCHAR
  <2>1. ValueFactoryCastAs(v, t) = v
    <3>1. CASE IsNull(v)
      <4>1. ValueFactoryCastAs(v, t) = NullOf(VARCHAR)
        BY <1>6, <3>1, FactoryCastOf DEF CastAsVarchar
      <4>2. NullOf(VARCHAR) = v
        BY <1>1, <3>1, Zenon DEF NullOf, IsNull
      <4> QED BY <4>1, <4>2
    <3>2. CASE ~IsNull(v)
      <4>1. ValueFactoryCastAs(v, t) = VarcharValue(ValueToString(v))
        BY <1>6, <3>2, FactoryCastOf DEF CastAsVarchar
      <4>2. ValueToString(v) = v.val
        BY TypeNames DEF ValueToString
      <4> QED BY <1>1, <4>1, <4>2 DEF VarcharValue
    <3> QED BY <3>1, <3>2
  <2> QED BY <1>3, <1>6, <2>1 DEF FactoryAgrees
<1>7. CASE t # VARCHAR /\ IsNull(v)
  <2>1. Threw(CastAs(v, t))
    BY <1>2, <1>3, <1>7, NullTextThrows DEF TypeId, NumericTypes
  <2>2. ValueFactoryCastAs(v, t) = NullOf(t)
    <3>1. CASE t \in IntTypes
      BY <1>5, <1>7, <3>1, FactoryCastOf DEF FactoryCast, NumericTypes
    <3>2. CASE t = DECIMAL
      BY <1>5, <1>7, <3>2, FactoryCastOf, TypeNames DEF CastAsDecimal
    <3>3. CASE t = BOOLEANT
      BY <1>7, <3>3, FactoryCastOf DEF CastAsBoolean
    <3> QED BY <1>7, <3>1, <3>2, <3>3 DEF TypeId, NumericTypes
  <2> QED BY <1>7, <2>1, <2>2 DEF FactoryAgrees
<1>8. CASE t # VARCHAR /\ ~IsNull(v)
  <2>1. CASE t \in IntTypes
    <3>1. ValueFactoryCastAs(v, t) = Caught(TextAsInteger(v.val, t))
      BY <1>5, <1>8, <2>1, FactoryCastOf, TypeNames DEF FactoryCast
    <3> QED BY <1>3, <1>4, <2>1, <3>1 DEF FactoryAgrees
  <2>2. CASE t = DECIMAL
    <3>1. ValueFactoryCastAs(v, t) = Caught(TextAsDecimal(v.val))
      BY <1>5, <1>8, <2>2, FactoryCastOf, TypeNames DEF CastAsDecimal
    <3> QED BY <1>3, <1>4, <2>2, <3>1 DEF FactoryAgrees
  <2>3. CASE t = BOOLEANT
    <3>1. ValueFactoryCastAs(v, t) = TextAsBoolean(v.val)
      BY <1>8, <2>3, FactoryCastOf, TypeNames DEF CastAsBoolean
    <3> QED BY <1>3, <2>3, <3>1 DEF FactoryAgrees
  <2> QED BY <1>8, <2>1, <2>2, <2>3 DEF TypeId, NumericTypes
<1> QED BY <1>6, <1>7, <1>8

\* Both implementations of the casts agree on every value and every type.
LEMMA CastsAgree ==
  ASSUME NEW v, WellTyped(v), v.type \in TypeId, NEW t \in TypeId
  PROVE  FactoryAgrees(v, t)
BY NullCastsAgree, NumberCastsAgree, BooleanCastsAgree, TextCastsAgree DEF TypeId

-----------------------------------------------------------------------------
(* Results are values again.                                               *)

\* A well-typed value, except that a double may be out of bounds.
Shaped(v) ==
  /\ v.type \in TypeId => v = [type |-> v.type, val |-> v.val]
  /\ v.type \in IntTypes => v.val \in RangeOf(v.type)
  /\ v.type = DECIMAL => IsDouble(v.val)
  /\ v.type = BOOLEANT => v.val \in {0, 1, -Half[TINYINT]}
  /\ v.type = VARCHAR => v.val \in Texts

\* WellTyped without the bound on doubles.
LEMMA WellTypedShaped ==
  ASSUME NEW v, WellTyped(v)
  PROVE  Shaped(v)
BY DEF WellTyped, Shaped, RangeOf, IsDouble

\* What is of none of the seven types is no value.
LEMMA OtherShaped ==
  ASSUME NEW v, v.type \notin TypeId
  PROVE  Shaped(v)
BY TypeNames DEF Shaped

\* An exception is no value.
LEMMA ThrownShaped ==
  ASSUME NEW v, Threw(v)
  PROVE  Shaped(v)
BY OtherShaped, TypeNames DEF Threw

\* The exceptions that the code throws.
LEMMA ErrorsThrow ==
  Threw(OUT_OF_RANGE) /\ Threw(DIVIDE_BY_ZERO) /\ Threw(NOT_IMPLEMENTED) /\ Threw(TYPE_ERROR)
  /\ Threw(INVALID_ARGUMENT) /\ \A kind : Threw(Throw(kind))
BY DEF Threw, OUT_OF_RANGE, DIVIDE_BY_ZERO, NOT_IMPLEMENTED, TYPE_ERROR, INVALID_ARGUMENT, Throw

\* Constructors make values.
LEMMA IntValueShaped ==
  ASSUME NEW t \in IntTypes, NEW n \in Int
  PROVE  Shaped(IntValue(t, n)) /\ IntValue(t, n).type = t /\ IntValue(t, n).val \in Int
PROOF
<1>1. t # BOOLEANT /\ t # VARCHAR /\ t # DECIMAL
  BY TypeNames
<1>2. IntValue(t, n) = [type |-> t, val |-> Wrap(t, n)]
  BY <1>1 DEF IntValue
<1>3. Wrap(t, n) \in RangeOf(t) /\ Half[t] \in Nat
  BY WrapFacts, Widths
<1>4. Wrap(t, n) \in Int
  BY <1>3 DEF RangeOf
<1> QED BY <1>1, <1>2, <1>3, <1>4 DEF Shaped

\* The constructor of a BOOLEAN.
LEMMA BooleanShaped ==
  ASSUME NEW n \in {0, 1}
  PROVE  Shaped(IntValue(BOOLEANT, n)) /\ IntValue(BOOLEANT, n).type = BOOLEANT
PROOF
<1>1. TINYINT \in IntTypes /\ BOOLEANT \notin IntTypes /\ BOOLEANT # VARCHAR /\ BOOLEANT # DECIMAL
  BY TypeNames
<1>2. n \in RangeOf(TINYINT) /\ n \in Int
  BY <1>1, Widths DEF RangeOf
<1>3. Wrap(TINYINT, n) = n
  BY <1>1, <1>2, WrapFacts
<1>4. IntValue(BOOLEANT, n) = [type |-> BOOLEANT, val |-> n]
  BY <1>3 DEF IntValue
<1> QED BY <1>1, <1>4 DEF Shaped

\* The constructor of a DECIMAL.
LEMMA DecimalShaped ==
  ASSUME NEW d, IsDouble(d)
  PROVE  Shaped(DecimalValue(d)) /\ DecimalValue(d).type = DECIMAL
BY TypeNames DEF Shaped, DecimalValue

\* The constructor of a VARCHAR.
LEMMA VarcharShaped ==
  ASSUME NEW s \in Texts
  PROVE  Shaped(VarcharValue(s)) /\ VarcharValue(s).type = VARCHAR
BY TypeNames DEF Shaped, VarcharValue

\* The texts that the casts make.
LEMMA WordIsText ==
  /\ Text("varlen_null") \in Texts /\ Text("true") \in Texts /\ Text("false") \in Texts
  /\ \A b \in BOOLEAN, i \in Nat, f \in Int : Numeral(b, i, f) \in Texts
PROOF
<1>1. ASSUME NEW W, W = {Words[i] : i \in DOMAIN Words}
      PROVE  "varlen_null" \in W /\ "true" \in W /\ "false" \in W /\ "numeral" \in W
  <2>1. DOMAIN Words = 1 .. 8 /\ Words[2] = "numeral" /\ Words[5] = "false" /\ Words[7] = "true"
        /\ Words[8] = "varlen_null"
    BY DEF Words
  <2>2. 2 \in 1 .. 8 /\ 5 \in 1 .. 8 /\ 7 \in 1 .. 8 /\ 8 \in 1 .. 8
    OBVIOUS
  <2> QED BY <1>1, <2>1, <2>2, Zenon
<1>2. PICK W : W = {Words[i] : i \in DOMAIN Words}
  OBVIOUS
<1>3. Texts = [word : W, neg : BOOLEAN, int : Nat, frac : Int]
  BY <1>2, Zenon DEF Texts
<1>4. ASSUME NEW w \in W PROVE Text(w) \in Texts
  BY <1>3 DEF Text
<1>5. ASSUME NEW b \in BOOLEAN, NEW i \in Nat, NEW f \in Int PROVE Numeral(b, i, f) \in Texts
  <2>1. PICK w \in W : w = "numeral"
    BY <1>1, <1>2
  <2>2. [word |-> w, neg |-> b, int |-> i, frac |-> f] \in [word : W, neg : BOOLEAN, int : Nat, frac : Int]
    BY <1>5, Zenon
  <2> QED BY <1>3, <2>1, <2>2, Zenon DEF Numeral
<1>6. \A b \in BOOLEAN, i \in Nat, f \in Int : Numeral(b, i, f) \in Texts
  BY <1>5, Zenon
<1>7. Text("varlen_null") \in Texts /\ Text("true") \in Texts /\ Text("false") \in Texts
  BY <1>1, <1>2, <1>4, Zenon
<1> QED BY <1>6, <1>7, Zenon

\* The NULL of every type is a value of it.
LEMMA NullShaped ==
  ASSUME NEW t \in TypeId
  PROVE  Shaped(NullOf(t)) /\ NullOf(t).type = t
PROOF
<1>1. NullOf(t) = [type |-> t, val |-> NullPayload(t)]
  BY DEF NullOf
<1>2. t \in IntTypes => NullPayload(t) \in RangeOf(t)
  <2> SUFFICES ASSUME t \in IntTypes PROVE NullPayload(t) \in RangeOf(t)
    OBVIOUS
  <2>1. NullPayload(t) = -Half[t] /\ Half[t] \in Nat /\ Half[t] >= 2
    BY NullInteger, Widths
  <2> QED BY <2>1 DEF RangeOf
<1>3. t = BOOLEANT => NullPayload(t) = -Half[TINYINT]
  BY DEF NullPayload, IntTypes, TINYINT, SMALLINT, INTEGER, BIGINT, DECIMAL, BOOLEANT, VARCHAR
<1>4. t = VARCHAR => NullPayload(t) \in Texts
  <2>1. NullText \in Texts
    BY WordIsText DEF NullText
  <2>2. t = VARCHAR => NullPayload(t) = NullText
    BY DEF NullPayload, IntTypes, TINYINT, SMALLINT, INTEGER, BIGINT, DECIMAL, BOOLEANT, VARCHAR
  <2> QED BY <2>1, <2>2
<1>5. t = DECIMAL => IsDouble(NullPayload(t))
  <2>1. DblMax \in Units /\ -DblMax \in Units
    BY WidthAssumption DEF Units
  <2>2. Double[-DblMax] = -DblMax
    BY <2>1, DoubleFacts, DoubleAssumption
  <2>3. t = DECIMAL => NullPayload(t) = -DblMax
    BY DEF NullPayload, IntTypes, TINYINT, SMALLINT, INTEGER, BIGINT, DECIMAL, BOOLEANT, VARCHAR
  <2> QED BY <2>2, <2>3 DEF IsDouble
<1> QED BY <1>1, <1>2, <1>3, <1>4, <1>5 DEF Shaped

\* What a value spells is a text.
LEMMA ToStringIsText ==
  ASSUME NEW v, WellTyped(v), v.type \in TypeId
  PROVE  ValueToString(v) \in Texts
PROOF
<1>1. ASSUME NEW n \in Int, NEW i \in Nat, NEW f \in Int PROVE Numeral(n < 0, i, f) \in Texts
  <2>1. (n < 0) \in BOOLEAN
    OBVIOUS
  <2>2. ASSUME NEW b \in BOOLEAN PROVE Numeral(b, i, f) \in Texts
    BY <2>2, WordIsText, Zenon
  <2> QED BY <2>1, <2>2, Zenon
<1>2. CASE v.type \in IntTypes
  <2>1. v.val \in Int
    BY <1>2, NumberFacts DEF NumericTypes
  <2>2. Abs(v.val) \in Nat /\ -1 \in Int
    BY <2>1 DEF Abs
  <2>3. ValueToString(v) = Numeral(v.val < 0, Abs(v.val), -1)
    BY <1>2, TypeNames DEF ValueToString
  <2> QED BY <1>1, <2>1, <2>2, <2>3, Zenon
<1>3. CASE v.type = DECIMAL
  <2>1. v.val \in Int
    BY <1>3, NumberFacts DEF NumericTypes
  <2>2. Abs(v.val) \in Nat /\ Scale \in Nat \ {0}
    BY <2>1, WidthAssumption DEF Abs
  <2>3. PICK q \in Nat, r \in Nat : q = Abs(v.val) \div Scale /\ r = Abs(v.val) % Scale
    BY <2>2, DivFacts
  <2>4. ValueToString(v) = Numeral(v.val < 0, q, r)
    BY <1>3, <2>3, TypeNames DEF ValueToString
  <2>5. r \in Int
    OBVIOUS
  <2> QED BY <1>1, <2>1, <2>4, <2>5, Zenon
<1>4. CASE v.type = BOOLEANT
  <2>1. ValueToString(v) = Text(IF v.val = 1 THEN "true" ELSE "false")
    BY <1>4, TypeNames DEF ValueToString
  <2>3. Text("true") \in Texts /\ Text("false") \in Texts
    BY WordIsText, Zenon
  <2> QED BY <2>1, <2>3, Zenon
<1>5. CASE v.type = VARCHAR
  BY <1>5, TypeNames DEF ValueToString, WellTyped
<1> QED BY <1>2, <1>3, <1>4, <1>5 DEF TypeId, NumericTypes

\* A text as a number or a boolean: the number, or an exception.
LEMMA TextCastShaped ==
  ASSUME NEW s \in Texts, NEW t \in IntTypes
  PROVE  /\ Shaped(TextAsInteger(s, t)) /\ Shaped(TextAsDecimal(s)) /\ Shaped(TextAsBoolean(s))
         /\ Threw(TextAsInteger(s, t)) \/ TextAsInteger(s, t).type = t
PROOF
<1>1. s.int \in Int
  BY DEF Texts
<1>2. PICK u \in IntTypes : u = IF t = BIGINT THEN BIGINT ELSE INTEGER
  BY TypeNames
<1>3. PICK r : r = Stoi(u, s) /\ (Threw(r) \/ r.val \in Int)
  <2>1. PICK n \in Int : n = IF s.neg THEN -s.int ELSE s.int
    BY <1>1
  <2>2. Threw(INVALID_ARGUMENT) /\ Threw(OUT_OF_RANGE)
    BY ErrorsThrow
  <2>3. IntValue(u, n).val \in Int
    BY IntValueShaped
  <2>4. Stoi(u, s) \in {INVALID_ARGUMENT, OUT_OF_RANGE, IntValue(u, n)}
    BY <2>1 DEF Stoi
  <2> QED BY <2>2, <2>3, <2>4
<1>4. TextAsInteger(s, t) = StoiResult(r, t)
  BY <1>2, <1>3 DEF TextAsInteger
<1>5. ASSUME Threw(r)
      PROVE  Shaped(TextAsInteger(s, t)) /\ (Threw(TextAsInteger(s, t)) \/ TextAsInteger(s, t).type = t)
  <2>1. TextAsInteger(s, t) = r
    BY <1>4, <1>5 DEF StoiResult
  <2> QED BY <1>5, <2>1, ThrownShaped
<1>6. ASSUME ~Threw(r)
      PROVE  Shaped(TextAsInteger(s, t)) /\ (Threw(TextAsInteger(s, t)) \/ TextAsInteger(s, t).type = t)
  <2>1. Shaped(IntValue(t, r.val)) /\ IntValue(t, r.val).type = t
    BY <1>3, <1>6, IntValueShaped
  <2>2. Threw(OUT_OF_RANGE)
    BY ErrorsThrow
  <2>3. TextAsInteger(s, t) \in {OUT_OF_RANGE, IntValue(t, r.val)}
    BY <1>4, <1>6 DEF StoiResult
  <2> QED BY <2>1, <2>2, <2>3, ThrownShaped
<1>7. Shaped(TextAsDecimal(s))
  <2>1. PICK d : d = Stod(s) /\ Shaped(d)
    <3>1. Shaped(INVALID_ARGUMENT)
      BY ErrorsThrow, ThrownShaped
    <3>2. Stod(s) = INVALID_ARGUMENT \/ \E n : Stod(s) = DecimalValue(Rounded(n))
      BY DEF Stod
    <3> QED BY <3>1, <3>2, RoundedIsDouble, DecimalShaped
  <2>2. TextAsDecimal(s) \in {OUT_OF_RANGE, d}
    BY <2>1 DEF TextAsDecimal, StodResult
  <2>3. Shaped(OUT_OF_RANGE)
    BY ErrorsThrow, ThrownShaped
  <2> QED BY <2>1, <2>2, <2>3
<1>8. Shaped(TextAsBoolean(s))
  <2>1. Shaped(TYPE_ERROR)
    BY ErrorsThrow, ThrownShaped
  <2>2. TextAsBoolean(s) \in {TYPE_ERROR, IntValue(BOOLEANT, 0), IntValue(BOOLEANT, 1)}
    BY DEF TextAsBoolean
  <2> QED BY <2>1, <2>2, BooleanShaped
<1> QED BY <1>5, <1>6, <1>7, <1>8

\* A double as an integer.
LEMMA DoubleShaped ==
  ASSUME NEW d \in Int, NEW t \in IntTypes
  PROVE  Shaped(DoubleAsInteger(d, t))
PROOF
<1>1. Scale \in Int /\ Scale # 0
  BY WidthAssumption
<1>2. Quot(d, Scale) \in Int
  BY <1>1, QuotFacts
<1>3. Shaped(IntValue(t, Quot(d, Scale)))
  BY <1>2, IntValueShaped
<1>4. Shaped(OUT_OF_RANGE)
  BY ErrorsThrow, ThrownShaped
<1>5. DoubleAsInteger(d, t) \in {OUT_OF_RANGE, IntValue(t, Quot(d, Scale))}
  BY DEF DoubleAsInteger
<1> QED BY <1>3, <1>4, <1>5

\* CastAs makes a value or throws; from a text, one of the type asked for.
LEMMA CastShaped ==
  ASSUME NEW v, WellTyped(v), v.type \in TypeId, NEW t \in TypeId
  PROVE  /\ Shaped(CastAs(v, t))
         /\ v.type = VARCHAR /\ t \in IntTypes => Threw(CastAs(v, t)) \/ CastAs(v, t).type = t
PROOF
<1>1. Shaped(v) /\ Shaped(TYPE_ERROR) /\ Shaped(OUT_OF_RANGE) /\ Shaped(NullOf(t))
  BY WellTypedShaped, ErrorsThrow, ThrownShaped, NullShaped
<1>2. Shaped(VarcharValue(ValueToString(v)))
  BY ToStringIsText, VarcharShaped
<1>3. CASE v.type \in IntTypes
  <2>1. PICK N \in SUBSET IntTypes : CastAs(v, t) = CastInteger(N, v, t)
    BY <1>3, CastAsOf
  <2>2. v.val \in Int
    BY <1>3, NumberFacts DEF NumericTypes
  <2>3. t \in IntTypes => Shaped(IntValue(t, v.val))
    BY <2>2, IntValueShaped
  <2>4. Shaped(DecimalValue(AsDouble(v)))
    BY <1>3, NumberFacts, DecimalShaped DEF NumericTypes
  <2>5. \/ CastInteger(N, v, t) \in {TYPE_ERROR, OUT_OF_RANGE, NullOf(t), DecimalValue(AsDouble(v)),
                                      VarcharValue(ValueToString(v))}
        \/ t \in IntTypes /\ CastInteger(N, v, t) = IntValue(t, v.val)
    BY DEF CastInteger, NumericTypes
  <2> QED BY <1>1, <1>2, <1>3, <2>1, <2>3, <2>4, <2>5, TypeNames
<1>4. CASE v.type = DECIMAL
  <2>1. v.val \in Int
    BY <1>4, NumberFacts DEF NumericTypes
  <2>2. t \in IntTypes => Shaped(DoubleAsInteger(v.val, t))
    BY <2>1, DoubleShaped
  <2>3. \/ DecimalCastAs(v, t) \in {TYPE_ERROR, NullOf(t), v, VarcharValue(ValueToString(v))}
        \/ t \in IntTypes /\ DecimalCastAs(v, t) = DoubleAsInteger(v.val, t)
    BY TypeNames DEF DecimalCastAs
  <2> QED BY <1>1, <1>2, <1>4, <2>2, <2>3, CastAsOf, TypeNames
<1>5. CASE v.type = BOOLEANT
  <2>1. VARCHAR \in TypeId
    BY DEF TypeId
  <2>2. Shaped(NullOf(VARCHAR))
    BY <2>1, NullShaped
  <2>3. BooleanCastAs(v, t) \in {TYPE_ERROR, NullOf(VARCHAR), v, VarcharValue(ValueToString(v))}
    BY TypeNames DEF BooleanCastAs
  <2> QED BY <1>1, <1>2, <1>5, <2>2, <2>3, CastAsOf, TypeNames
<1>6. CASE v.type = VARCHAR
  <2>1. v.val \in Texts
    BY <1>6 DEF WellTyped
  <2>2. CASE t \in IntTypes
    <3>1. CastAs(v, t) = TextAsInteger(v.val, t)
      BY <1>6, <2>2, CastAsOf, TypeNames DEF VarlenCastAs
    <3> QED BY <2>1, <2>2, <3>1, TextCastShaped
  <2>3. CASE t \notin IntTypes
    <3>1. CastAs(v, t) \in {v, TextAsBoolean(v.val), TextAsDecimal(v.val)}
      BY <1>6, <2>3, CastAsOf, TypeNames DEF VarlenCastAs
    <3>2. PICK u \in IntTypes : TRUE
      BY TypeNames
    <3>3. Shaped(TextAsBoolean(v.val)) /\ Shaped(TextAsDecimal(v.val))
      BY <2>1, <3>2, TextCastShaped
    <3> QED BY <1>1, <2>3, <3>1, <3>3
  <2> QED BY <2>2, <2>3
<1> QED BY <1>3, <1>4, <1>5, <1>6 DEF TypeId, NumericTypes

\* So does ValueFactory's cast, which agrees with it.
LEMMA FactoryShaped ==
  ASSUME NEW v, WellTyped(v), v.type \in TypeId, NEW t \in TypeId
  PROVE  Shaped(ValueFactoryCastAs(v, t))
PROOF
<1>1. PICK c, f : c = CastAs(v, t) /\ f = ValueFactoryCastAs(v, t)
  OBVIOUS
<1>2. (c.type = f.type /\ (Threw(c) \/ c = f)) \/ f = NullOf(t)
  BY <1>1, CastsAgree DEF FactoryAgrees
<1>3. Shaped(c) /\ Shaped(NullOf(t))
  BY <1>1, CastShaped, NullShaped
<1>4. Threw(c) /\ c.type = f.type => Threw(f)
  BY DEF Threw
<1> QED BY <1>1, <1>2, <1>3, <1>4, ThrownShaped

\* What an operation with a NULL operand gives.
LEMMA OperateNullShaped ==
  ASSUME NEW l, NEW r
  PROVE  Shaped(OperateNull(l, r))
PROOF
<1>1. DECIMAL \in TypeId /\ IntTypes \subseteq TypeId
  BY TypeNames
<1>2. Shaped(NullOf(DECIMAL)) /\ Shaped(TYPE_ERROR) /\ Shaped(NOT_IMPLEMENTED)
  BY <1>1, NullShaped, ErrorsThrow, ThrownShaped
<1>3. ASSUME NEW t \in IntTypes PROVE Shaped(OperateNullInt(t, r))
  <2>1. r.type \in IntTypes => Wider(t, r.type) \in TypeId
    BY <1>1, WiderFacts
  <2>2. r.type \in IntTypes => Shaped(NullOf(Wider(t, r.type)))
    BY <2>1, NullShaped
  <2>3. \/ OperateNullInt(t, r) \in {NullOf(DECIMAL), TYPE_ERROR}
        \/ r.type \in IntTypes /\ OperateNullInt(t, r) = NullOf(Wider(t, r.type))
    BY TypeNames DEF OperateNullInt
  <2> QED BY <1>2, <2>2, <2>3
<1>4. \/ \E t \in IntTypes : OperateNull(l, r) = OperateNullInt(t, r)
      \/ OperateNull(l, r) \in {NullOf(DECIMAL), NOT_IMPLEMENTED}
  BY DEF OperateNull, TinyintOperateNull, SmallintOperateNull, IntegerOperateNull, BigintOperateNull,
     DecimalOperateNull, IntTypes, TINYINT, SMALLINT, INTEGER, BIGINT, DECIMAL
<1> QED BY <1>2, <1>3, <1>4

\* The templates return a value of the wider type, or throw.
LEMMA MethodShaped ==
  ASSUME NEW op \in ArithmeticOps, NEW l, NEW r, l.type \in IntTypes, r.type \in IntTypes,
         l.val \in Int, r.val \in Int
  PROVE  Shaped(IntegerMethod(op, l, r))
PROOF
<1>1. PICK t1 \in IntTypes, t2 \in IntTypes, x \in Int, y \in Int :
        t1 = l.type /\ t2 = r.type /\ x = l.val /\ y = r.val
  OBVIOUS
<1>2. PICK w \in IntTypes, p \in IntTypes : w = Wider(t1, t2) /\ p = Promoted(t1, t2)
  BY WiderFacts
<1>3. Shaped(OUT_OF_RANGE) /\ Shaped(DIVIDE_BY_ZERO)
  BY ErrorsThrow, ThrownShaped
<1>4. ASSUME NEW t \in IntTypes, NEW n \in Int PROVE Wrap(t, n) \in Int
  BY WrapFacts, Widths DEF RangeOf
<1>5. ASSUME NEW n \in Int, NEW agrees PROVE Shaped(Returned(t1, t2, n, agrees))
  <2>1. Wrap(p, n) \in Int
    BY <1>4
  <2>2. Narrowed(t1, t2, n) = Wrap(w, Wrap(p, n))
    BY <1>2 DEF Narrowed, Computed
  <2>3. Narrowed(t1, t2, n) \in Int
    BY <1>4, <2>1, <2>2
  <2>4. Shaped(IntValue(w, Narrowed(t1, t2, n)))
    BY <2>3, IntValueShaped
  <2>5. Returned(t1, t2, n, agrees) \in {OUT_OF_RANGE, IntValue(w, Narrowed(t1, t2, n))}
    BY <1>2, Zenon DEF Returned
  <2> QED BY <1>3, <2>4, <2>5
<1>6. x + y \in Int /\ x - y \in Int /\ x * y \in Int
  OBVIOUS
<1>7. y # 0 => Shaped(IntValue(w, Quot(x, y))) /\ Shaped(IntValue(w, Rem(x, y)))
  BY QuotFacts, IntValueShaped
<1>8. CASE op = "Add"
  <2>1. IntegerMethod(op, l, r) = AddValue(t1, t2, x, y)
    BY <1>1, <1>8 DEF IntegerMethod
  <2> QED BY <1>5, <1>6, <2>1, Zenon DEF AddValue
<1>9. CASE op = "Subtract"
  <2>1. IntegerMethod(op, l, r) = SubtractValue(t1, t2, x, y)
    BY <1>1, <1>9 DEF IntegerMethod
  <2> QED BY <1>5, <1>6, <2>1, Zenon DEF SubtractValue
<1>10. CASE op = "Multiply"
  <2>1. IntegerMethod(op, l, r) = MultiplyValue(t1, t2, x, y)
    BY <1>1, <1>10 DEF IntegerMethod
  <2> QED BY <1>5, <1>6, <2>1, Zenon DEF MultiplyValue
<1>11. CASE op = "Divide"
  <2>1. IntegerMethod(op, l, r) = DivideValue(t1, t2, x, y)
    BY <1>1, <1>11 DEF IntegerMethod
  <2> QED BY <1>2, <1>3, <1>7, <2>1, Zenon DEF DivideValue
<1>12. CASE op = "Modulo"
  <2>1. IntegerMethod(op, l, r) = ModuloValue(t1, t2, x, y)
    BY <1>1, <1>12 DEF IntegerMethod
  <2> QED BY <1>2, <1>3, <1>7, <2>1, Zenon DEF ModuloValue
<1> QED BY <1>8, <1>9, <1>10, <1>11, <1>12 DEF ArithmeticOps

\* Arithmetic on any two values.
LEMMA ArithmeticShaped ==
  ASSUME NEW op \in ArithmeticOps, NEW l, NEW r, WellTyped(l), WellTyped(r),
         l.type \in TypeId, r.type \in TypeId, CheckComparable(l, r)
  PROVE  Shaped(Arithmetic(op, l, r))
PROOF
<1>1. PICK c : c = CastAs(r, l.type)
  OBVIOUS
<1>2. PICK e : e = DivisorError(op, r)
  OBVIOUS
<1>3. Shaped(OperateNull(l, r)) /\ Shaped(NOT_IMPLEMENTED)
  BY OperateNullShaped, ErrorsThrow, ThrownShaped
<1>4. \A x, y : Shaped(DecimalValue(DoubleOp(op, x, y)))
  BY RoundedIsDouble, DecimalShaped DEF DoubleOp
<1>5. ASSUME NEW a, NEW b, Shaped(b) PROVE Shaped(OrThrow(a, b))
  BY <1>5, ThrownShaped DEF OrThrow
<1>6. CASE l.type \in IntTypes
  <2>1. Arithmetic(op, l, r) = IntegerArithmeticOf(op, l, r, c)
    BY <1>1, <1>6 DEF Arithmetic, ArithmeticWith, TinyintArithmetic, SmallintArithmetic, IntegerArithmetic,
           BigintArithmetic, IntTypes, TINYINT, SMALLINT, INTEGER, BIGINT, DECIMAL
  <2>2. l.val \in Int
    BY <1>6, NumberFacts DEF NumericTypes
  <2>3. PICK right : right = IF r.type = VARCHAR THEN c ELSE r
    OBVIOUS
  <2>4. r.type # DECIMAL => Shaped(OrThrow(right, IntegerMethod(op, l, right)))
    <3> SUFFICES ASSUME r.type # DECIMAL PROVE Shaped(OrThrow(right, IntegerMethod(op, l, right)))
      OBVIOUS
    <3>1. CASE Threw(right)
      BY <3>1, ThrownShaped DEF OrThrow
    <3>2. CASE ~Threw(right)
      <4>1. right.type \in IntTypes /\ Shaped(right)
        <5>1. CASE r.type = VARCHAR
          <6>1. Shaped(c) /\ (Threw(c) \/ c.type = l.type)
            BY <1>1, <1>6, <5>1, CastShaped
          <6> QED BY <1>6, <2>3, <3>2, <5>1, <6>1
        <5>2. CASE r.type # VARCHAR
          <6>1. r.type \in IntTypes
            BY <1>6, <5>2, TypeNames DEF CheckComparable
          <6> QED BY <2>3, <5>2, <6>1, WellTypedShaped
        <5> QED BY <5>1, <5>2
      <4>2. right.val \in Int
        BY <4>1, Widths DEF Shaped, RangeOf
      <4>3. Shaped(IntegerMethod(op, l, right))
        BY <1>6, <2>2, <4>1, <4>2, MethodShaped
      <4> QED BY <1>5, <4>3
    <3> QED BY <3>1, <3>2
  <2>5. \/ IntegerArithmeticOf(op, l, r, c) = OperateNull(l, r)
        \/ \E x, y : IntegerArithmeticOf(op, l, r, c) = OrThrow(e, DecimalValue(DoubleOp(op, x, y)))
        \/ /\ r.type # DECIMAL
           /\ IntegerArithmeticOf(op, l, r, c) = OrThrow(e, OrThrow(right, IntegerMethod(op, l, right)))
    BY <1>2, <2>3, Zenon DEF IntegerArithmeticOf
  <2> QED BY <1>3, <1>4, <1>5, <2>1, <2>4, <2>5, Zenon
<1>7. CASE l.type = DECIMAL
  <2>1. Arithmetic(op, l, r) = DecimalArithmetic(op, l, r, c)
    BY <1>1, <1>7 DEF Arithmetic, ArithmeticWith, TINYINT, SMALLINT, INTEGER, BIGINT, DECIMAL
  <2>2. \/ DecimalArithmetic(op, l, r, c) = OperateNull(l, r)
        \/ \E x, y : DecimalArithmetic(op, l, r, c) = OrThrow(e, OrThrow(c, DecimalValue(DoubleOp(op, x, y))))
    BY <1>2, Zenon DEF DecimalArithmetic
  <2> QED BY <1>3, <1>4, <1>5, <2>1, <2>2, Zenon
<1>8. CASE l.type \in {BOOLEANT, VARCHAR}
  <2>1. Arithmetic(op, l, r) = NOT_IMPLEMENTED
    BY <1>8 DEF Arithmetic, ArithmeticWith, TINYINT, SMALLINT, INTEGER, BIGINT, DECIMAL, BOOLEANT, VARCHAR
  <2> QED BY <1>3, <2>1
<1> QED BY <1>6, <1>7, <1>8 DEF TypeId, NumericTypes

\* What a comparison may answer.
LEMMA CompareAnswers ==
  ASSUME NEW op, NEW l, NEW r, NEW c, l.type \in TypeId
  PROVE  /\ CompareWith(op, l, r, c) \in {"Throw", "CmpNull", "CmpTrue", "CmpFalse"}
         /\ ~IsNull(l) /\ ~IsNull(r) => CompareWith(op, l, r, c) # "CmpNull"
PROOF
<1>1. \A x, y : CmpBool(op, x, y) \in {"CmpTrue", "CmpFalse"}
  BY Zenon DEF CmpBool
<1>2. \A x, y : CmpCast(op, x, c, y) \in {"Throw", "CmpTrue", "CmpFalse"}
  <2> SUFFICES ASSUME NEW x, NEW y PROVE CmpCast(op, x, c, y) \in {"Throw", "CmpTrue", "CmpFalse"}
    OBVIOUS
  <2>1. CmpBool(op, x, y) \in {"CmpTrue", "CmpFalse"}
    BY <1>1
  <2> QED BY <2>1 DEF CmpCast
<1>3. CASE l.type \in NumericTypes
  <2>1. CompareWith(op, l, r, c) = CompareNumber(op, l, r, c)
    BY <1>3 DEF CompareWith, TinyintCompare, SmallintCompare, IntegerCompare, BigintCompare, DecimalCompare,
         NumericTypes, IntTypes, TINYINT, SMALLINT, INTEGER, BIGINT, DECIMAL, BOOLEANT, VARCHAR
  <2>2. CASE IsNull(l) \/ IsNull(r)
    BY <2>1, <2>2 DEF CompareNumber
  <2>3. CASE ~(IsNull(l) \/ IsNull(r))
    <3>1. CompareNumber(op, l, r, c) \in {CmpCast(op, Number(l), c, Number(c)), CmpBool(op, Compared(l, r), Compared(r, l))}
      BY <2>3 DEF CompareNumber
    <3> QED BY <1>1, <1>2, <2>1, <2>3, <3>1
  <2> QED BY <2>2, <2>3
<1>4. CASE l.type = BOOLEANT
  <2>1. CompareWith(op, l, r, c) = BooleanCompare(op, l, r, c)
    BY <1>4 DEF CompareWith, TINYINT, SMALLINT, INTEGER, BIGINT, DECIMAL, BOOLEANT, VARCHAR
  <2> QED BY <1>2, <2>1 DEF BooleanCompare
<1>5. CASE l.type = VARCHAR
  <2>1. CompareWith(op, l, r, c) = VarlenCompare(op, l, r, c)
    BY <1>5 DEF CompareWith, TINYINT, SMALLINT, INTEGER, BIGINT, DECIMAL, BOOLEANT, VARCHAR
  <2> QED BY <1>1, <2>1 DEF VarlenCompare
<1> QED BY <1>3, <1>4, <1>5 DEF TypeId

\* Min and Max return one of the operands, or what OperateNull makes of NULL, or throw.
LEMMA MinMaxShaped ==
  ASSUME NEW l, NEW r, WellTyped(l), WellTyped(r), l.type \in TypeId, r.type \in TypeId
  PROVE  Shaped(ValueMin(l, r)) /\ Shaped(ValueMax(l, r))
PROOF
<1>1. PICK c : c = CastAs(r, l.type)
  OBVIOUS
<1>2. Shaped(l) /\ Shaped(r) /\ Shaped(c) /\ Shaped(OperateNull(l, r)) /\ Shaped(NOT_IMPLEMENTED)
  BY <1>1, WellTypedShaped, CastShaped, OperateNullShaped, ErrorsThrow, ThrownShaped
<1>3. ASSUME NEW op PROVE Shaped(Choose(op, l, r, c))
  <2>1. CASE IsNull(l) \/ IsNull(r)
    BY <1>2, <2>1 DEF Choose
  <2>2. CASE ~(IsNull(l) \/ IsNull(r))
    <3>1. CompareWith(op, l, r, c) \in {"Throw", "CmpTrue", "CmpFalse"}
      BY <2>2, CompareAnswers
    <3>2. Choose(op, l, r, c) \in {l, r, c}
      BY <2>2, <3>1 DEF Choose, Chosen
    <3> QED BY <1>2, <3>2
  <2> QED BY <2>1, <2>2
<1>4. ValueMin(l, r) = NOT_IMPLEMENTED \/ \E op : ValueMin(l, r) = Choose(op, l, r, c)
  BY <1>1, TypeNames DEF ValueMin, MinWith, CheckInteger, IntegerParentMin, DecimalMin, VarlenMin
<1>5. ValueMax(l, r) = NOT_IMPLEMENTED \/ \E op : ValueMax(l, r) = Choose(op, l, r, c)
  BY <1>1, TypeNames DEF ValueMax, MaxWith, CheckInteger, IntegerParentMax, DecimalMax, VarlenMax
<1> QED BY <1>2, <1>3, <1>4, <1>5

\* Sqrt is a double, NULL or an exception.
LEMMA SqrtShaped ==
  ASSUME NEW v
  PROVE  Shaped(Sqrt(v))
PROOF
<1>1. DECIMAL \in TypeId
  BY TypeNames
<1>2. Shaped(NullOf(DECIMAL)) /\ Shaped(OperateNull(v, v)) /\ Shaped(NOT_IMPLEMENTED) /\ Shaped(Throw("DECIMAL"))
  BY <1>1, NullShaped, OperateNullShaped, ErrorsThrow, ThrownShaped
<1>3. ASSUME NEW null, Shaped(null) PROVE Shaped(SqrtOf(null, v))
  <2>1. SqrtOf(null, v) = null \/ SqrtOf(null, v) = Throw("DECIMAL") \/ \E d : SqrtOf(null, v) = DecimalValue(Rounded(d))
    BY DEF SqrtOf
  <2> QED BY <1>2, <1>3, <2>1, RoundedIsDouble, DecimalShaped
<1>4. Sqrt(v) \in {SqrtOf(NullOf(DECIMAL), v), SqrtOf(OperateNull(v, v), v), NOT_IMPLEMENTED}
  BY DEF Sqrt, TinyintSqrt, SmallintSqrt, IntegerSqrt, BigintSqrt, DecimalSqrt,
     TINYINT, SMALLINT, INTEGER, BIGINT, DECIMAL
<1> QED BY <1>2, <1>3, <1>4

\* The answer of a comparison as a boolean.
LEMMA TestShaped ==
  ASSUME NEW cmp \in {"CmpNull", "CmpTrue", "CmpFalse"}
  PROVE  Shaped(GetBooleanValue(cmp))
PROOF
<1>1. BOOLEANT \in TypeId
  BY TypeNames
<1>2. Shaped(NullOf(BOOLEANT)) /\ Shaped(IntValue(BOOLEANT, 0)) /\ Shaped(IntValue(BOOLEANT, 1))
  BY <1>1, NullShaped, BooleanShaped
<1>3. GetBooleanValue(cmp) \in {NullOf(BOOLEANT), IntValue(BOOLEANT, 0), IntValue(BOOLEANT, 1)}
  BY DEF GetBooleanValue
<1> QED BY <1>2, <1>3

-----------------------------------------------------------------------------
(* A column read from a row.                                               *)

\* A set of numbers that is not empty has a least one.
LEMMA LeastNumber ==
  ASSUME NEW S \in SUBSET Nat, S # {}
  PROVE  \E m \in S : \A k \in S : m <= k
PROOF
<1>1. PICK m \in S : \A k \in S : ~ (<<k, m>> \in OpToRel(<, Nat))
  BY WFMin, NatLessThanWellFounded
<1>2. ASSUME NEW k \in S, k < m PROVE FALSE
  BY <1>1, <1>2 DEF OpToRel
<1> QED BY <1>2

\* Induction up to n, for a set of numbers.
LEMMA UpTo ==
  ASSUME NEW n \in Nat, NEW S, 0 \in S, \A i \in 0 .. (n - 1) : i \in S => i + 1 \in S
  PROVE  \A i \in 0 .. n : i \in S
PROOF
<1>1. SUFFICES ASSUME NEW i \in 0 .. n, i \notin S PROVE FALSE
  OBVIOUS
<1>2. PICK B : B = {j \in 0 .. n : j \notin S}
  OBVIOUS
<1>3. B \in SUBSET Nat /\ B # {}
  BY <1>1, <1>2
<1>4. PICK m \in B : \A k \in B : m <= k
  BY <1>3, LeastNumber
<1>5. m \in 0 .. n /\ m \notin S /\ m # 0
  BY <1>2, <1>4
<1>6. m - 1 \in 0 .. (n - 1) /\ m - 1 \in 0 .. n /\ (m - 1) + 1 = m
  BY <1>5
<1>7. m - 1 \in S
  BY <1>2, <1>4, <1>5, <1>6
<1>8. (m - 1) + 1 \in S
  BY <1>6, <1>7
<1> QED BY <1>5, <1>6, <1>8

\* The writes of the columns up to i, as Tuple's constructor makes them.
IsWrites(f, values, schema) ==
  f = [i \in 0 .. Len(schema) |->
        IF i = 0 THEN <<>> ELSE f[i - 1] \o ColumnWrites(values, schema, i)]

\* The constructor's writes are those of one such function, if there is one.
LEMMA TupleWrites ==
  ASSUME NEW values, NEW schema, \E f : IsWrites(f, values, schema)
  PROVE  \E f : IsWrites(f, values, schema) /\ Tuple(values, schema).writes = f[Len(schema)]
PROOF
<1>1. PICK f : f = CHOOSE g : IsWrites(g, values, schema)
  OBVIOUS
<1>2. IsWrites(f, values, schema)
  BY <1>1, Zenon
<1>3. Tuple(values, schema).writes = f[Len(schema)]
  BY <1>1, Zenon DEF Tuple, IsWrites
<1> QED BY <1>2, <1>3, Zenon

\* The constructor's loop makes the writes of one column after the other.
LEMMA WritesExist ==
  ASSUME NEW values, NEW schema, NEW n \in Nat, n = Len(schema)
  PROVE  \E f : IsWrites(f, values, schema)
PROOF
<1> DEFINE Up(f, m) ==
             f = [i \in 0 .. m |-> IF i = 0 THEN <<>> ELSE f[i - 1] \o ColumnWrites(values, schema, i)]
           S == {m \in 0 .. n : \E f : Up(f, m)}
<1>1. 0 \in S
  <2>1. PICK f : f = [i \in 0 .. 0 |-> <<>>]
    OBVIOUS
  <2>2. Up(f, 0)
    BY <2>1
  <2> QED BY <2>2
<1>2. ASSUME NEW m \in 0 .. (n - 1), m \in S PROVE m + 1 \in S
  <2>1. PICK f : Up(f, m)
    BY <1>2
  <2>2. PICK g : g = [i \in 0 .. (m + 1) |->
                        IF i = 0 THEN <<>> ELSE f[i - 1] \o ColumnWrites(values, schema, i)]
    OBVIOUS
  <2>3. ASSUME NEW i \in 0 .. m PROVE g[i] = f[i]
    <3>1. i \in 0 .. (m + 1)
      OBVIOUS
    <3>2. f[i] = IF i = 0 THEN <<>> ELSE f[i - 1] \o ColumnWrites(values, schema, i)
      BY <2>1, Zenon
    <3> QED BY <2>2, <3>1, <3>2, Zenon
  <2>4. ASSUME NEW i \in 0 .. (m + 1), i # 0 PROVE g[i - 1] = f[i - 1]
    <3>1. i - 1 \in 0 .. m
      BY <2>4
    <3> QED BY <2>3, <3>1
  <2>5. Up(g, m + 1)
    BY <2>2, <2>4, Zenon
  <2>6. m + 1 \in 0 .. n
    OBVIOUS
  <2> QED BY <2>5, <2>6, Zenon
<1> HIDE DEF S
<1>3. n \in S
  BY <1>1, <1>2, UpTo
<1> USE DEF S
<1>4. \E f : Up(f, n)
  BY <1>3
<1> QED BY <1>4, Zenon DEF IsWrites

\* The values a tuple's writes hold are the row's, or offsets.
LEMMA TupleHolds ==
  ASSUME NEW values, NEW schema, NEW n \in Nat, n = Len(schema), NEW W,
         \A i \in 1 .. n : ColumnWrites(values, schema, i) \in Seq(W)
  PROVE  Tuple(values, schema).writes \in Seq(W)
PROOF
<1>1. PICK f : IsWrites(f, values, schema) /\ Tuple(values, schema).writes = f[n]
  BY WritesExist, TupleWrites
<1>2. /\ f[0] = <<>>
      /\ \A i \in 0 .. (n - 1) : f[i + 1] = f[i] \o ColumnWrites(values, schema, i + 1)
  <2>1. \A i \in 0 .. n : f[i] = IF i = 0 THEN <<>> ELSE f[i - 1] \o ColumnWrites(values, schema, i)
    BY <1>1, Zenon DEF IsWrites
  <2>2. f[0] = <<>>
    BY <2>1
  <2>3. ASSUME NEW i \in 0 .. (n - 1) PROVE f[i + 1] = f[i] \o ColumnWrites(values, schema, i + 1)
    <3>1. i + 1 \in 0 .. n /\ i + 1 # 0 /\ (i + 1) - 1 = i
      OBVIOUS
    <3> QED BY <2>1, <3>1, Zenon
  <2> QED BY <2>2, <2>3
<1>3. PICK S : S = {i \in 0 .. n : f[i] \in Seq(W)}
  OBVIOUS
<1>4. 0 \in S
  <2>1. f[0] \in Seq(W)
    <3>1. <<>> \in Seq(W)
      OBVIOUS
    <3> QED BY <1>2, <3>1, Zenon
  <2>2. 0 \in 0 .. n
    OBVIOUS
  <2> QED BY <1>3, <2>1, <2>2, Zenon
<1>5. ASSUME NEW i \in 0 .. (n - 1), i \in S PROVE i + 1 \in S
  <2>1. f[i] \in Seq(W) /\ i + 1 \in 1 .. n /\ i + 1 \in 0 .. n
    BY <1>3, <1>5
  <2>2. ColumnWrites(values, schema, i + 1) \in Seq(W)
    BY <2>1
  <2>3. f[i + 1] \in Seq(W)
    BY <1>2, <2>1, <2>2, ConcatProperties
  <2> QED BY <1>3, <2>1, <2>3
<1>6. n \in S
  <2>1. \A i \in 0 .. n : i \in S
    BY <1>4, <1>5, UpTo, Zenon
  <2>2. n \in 0 .. n
    OBVIOUS
  <2> QED BY <2>1, <2>2, Zenon
<1> QED BY <1>1, <1>3, <1>6

\* Reading gives what one of the writes holds, or garbage.
LEMMA ReadIsWritten ==
  ASSUME NEW t, NEW at
  PROVE  ReadAt(t, at) = Garbage \/ \E k \in DOMAIN t.writes : ReadAt(t, at) = t.writes[k].holds
PROOF
<1>1. PICK intact :
        /\ intact \subseteq DOMAIN t.writes
        /\ ReadAt(t, at) = IF intact = {} THEN Garbage ELSE t.writes[CHOOSE k \in intact : TRUE].holds
  <2> DEFINE whole == {k \in DOMAIN t.writes :
                         /\ t.writes[k].at = at
                         /\ \A m \in k + 1 .. Len(t.writes) : ~Overlap(t.writes[k], t.writes[m])}
  <2>1. ReadAt(t, at) = IF whole = {} THEN Garbage ELSE t.writes[CHOOSE k \in whole : TRUE].holds
    BY DEF ReadAt
  <2>2. whole \subseteq DOMAIN t.writes
    OBVIOUS
  <2> HIDE DEF whole
  <2> QED BY <2>1, <2>2, Zenon
<1>2. ReadAt(t, at) = IF intact = {} THEN Garbage ELSE t.writes[CHOOSE k \in intact : TRUE].holds
  BY <1>1
<1>3. CASE intact = {}
  BY <1>2, <1>3, Zenon
<1>4. CASE intact # {}
  <2>1. PICK c : c = CHOOSE k \in intact : TRUE
    OBVIOUS
  <2>2. c \in intact
    BY <1>4, <2>1, Zenon
  <2>3. c \in DOMAIN t.writes
    BY <1>1, <2>2, Zenon
  <2>4. ReadAt(t, at) = t.writes[c].holds
    BY <1>2, <1>4, <2>1, Zenon
  <2> QED BY <2>3, <2>4, Zenon
<1> QED BY <1>3, <1>4

\* The schema of a row has a column for every value.
LEMMA SchemaColumns ==
  ASSUME NEW S, NEW values \in Seq(S)
  PROVE  /\ Len(SchemaOf(values)) = Len(values) /\ Len(values) \in Nat
         /\ DOMAIN SchemaOf(values) = 1 .. Len(values) /\ DOMAIN values = 1 .. Len(values)
         /\ \A i \in 1 .. Len(values) : SchemaOf(values)[i] = values[i].type
PROOF
<1>1. Len(values) \in Nat /\ DOMAIN values = 1 .. Len(values)
  OBVIOUS
<1>2. SchemaOf(values) = [i \in 1 .. Len(values) |-> values[i].type]
  BY <1>1 DEF SchemaOf
<1>3. Len(SchemaOf(values)) = Len(values)
  BY <1>1, <1>2
<1> QED BY <1>1, <1>2, <1>3

\* A column that is read back from a row of values is a value, or garbage.
LEMMA ColumnShaped ==
  ASSUME NEW values \in Seq(Stored), NEW i \in DOMAIN values
  PROVE  WellTyped(GetValue(Tuple(values, SchemaOf(values)), SchemaOf(values), i))
PROOF
<1>0. PICK schema : schema = SchemaOf(values)
  OBVIOUS
<1>1. PICK n \in Nat :
        /\ schema = SchemaOf(values) /\ n = Len(values) /\ Len(schema) = n
        /\ DOMAIN values = 1 .. n /\ \A j \in 1 .. n : schema[j] = values[j].type
  BY <1>0, SchemaColumns
<1> DEFINE W == {Write(ColumnOffset(schema, j), values[j]) : j \in 1 .. n}
                \cup {WriteOffset(ColumnOffset(schema, j), UnlinedOffset(values, schema, j)) : j \in 1 .. n}
                \cup {Write(UnlinedOffset(values, schema, j), values[j]) : j \in 1 .. n}
<1>2. ASSUME NEW j \in 1 .. n PROVE ColumnWrites(values, schema, j) \in Seq(W)
  <2>1. /\ Write(ColumnOffset(schema, j), values[j]) \in W
        /\ WriteOffset(ColumnOffset(schema, j), UnlinedOffset(values, schema, j)) \in W
        /\ Write(UnlinedOffset(values, schema, j), values[j]) \in W
    BY Zenon
  <2> HIDE DEF W
  <2>2. \A x \in W, y \in W : <<x>> \in Seq(W) /\ <<x, y>> \in Seq(W)
    OBVIOUS
  <2> QED BY <2>1, <2>2, Zenon DEF ColumnWrites
<1>3. PICK t : t = Tuple(values, schema)
  OBVIOUS
<1>4. t.writes \in Seq(W)
  <2> HIDE DEF W
  <2> QED BY <1>1, <1>2, <1>3, TupleHolds
<1>5. ASSUME NEW w \in W PROVE w.holds.type = "OFFSET" \/ WellTyped(w.holds)
  <2>1. ASSUME NEW at, NEW j \in 1 .. n, w = Write(at, values[j]) PROVE WellTyped(w.holds)
    <3>1. values[j] \in Stored
      BY <1>1
    <3>2. w.holds = values[j]
      BY <2>1 DEF Write
    <3> QED BY <3>1, <3>2, OperandsAssumption
  <2>2. ASSUME NEW at, NEW offset, w = WriteOffset(at, offset) PROVE w.holds.type = "OFFSET"
    BY <2>2 DEF WriteOffset
  <2> QED BY <1>5, <2>1, <2>2, Zenon
<1>6. ASSUME NEW at PROVE ReadAt(t, at).type \notin TypeId \/ WellTyped(ReadAt(t, at))
  <2> HIDE DEF W
  <2>1. ASSUME NEW k \in DOMAIN t.writes PROVE t.writes[k] \in W
    BY <1>4
  <2>2. Garbage.type \notin TypeId /\ "OFFSET" \notin TypeId
    BY TypeNames DEF Garbage
  <2> QED BY <1>5, <2>1, <2>2, ReadIsWritten, Zenon
<1>7. PICK v : v = GetValue(t, schema, i)
  OBVIOUS
<1>8. v.type \notin TypeId \/ WellTyped(v)
  <2>1. Garbage.type \notin TypeId
    BY TypeNames DEF Garbage
  <2> QED BY <1>6, <1>7, <2>1, Zenon DEF GetValue
<1>9. WellTyped(v)
  BY <1>8, TypeNames DEF WellTyped
<1> QED BY <1>1, <1>3, <1>7, <1>9

-----------------------------------------------------------------------------
(* The invariant: what every operation is given, and returns, is a value   *)
(* of its type.                                                            *)

\* The value under computation, and the values of the row.
ValuesInv == WellTyped(acc) /\ row \in Seq(Stored)

\* A result that is computed with further is a value of its type.
LEMMA BecomeWellTyped ==
  ASSUME NEW v, Shaped(v), Become(v)
  PROVE  WellTyped(acc') /\ row' = row
BY DEF Become, InBounds, Shaped, WellTyped, RangeOf, IsDouble, Units

\* Every step of a computation keeps ValuesInv.
LEMMA ValuesStep ==
  ASSUME ValuesInv, [Next]_vars
  PROVE  ValuesInv'
PROOF
<1> USE DEF ValuesInv
<1>1. ASSUME NEW v \in Literals PROVE v.type \in TypeId /\ WellTyped(v) /\ Shaped(v)
  BY OperandsAssumption, WellTypedShaped
<1>2. ASSUME NEW v, Shaped(v), Become(v) PROVE ValuesInv'
  BY <1>2, BecomeWellTyped
<1>3. ASSUME NEW v \in Stored, Emplace(v) PROVE ValuesInv'
  BY <1>3, AppendProperties DEF Emplace
<1>4. ASSUME NEW i \in DOMAIN row, Load(i) PROVE ValuesInv'
  <2>1. WellTyped(acc')
    BY <1>4, ColumnShaped, Zenon DEF Load
  <2>2. row' \in Seq(Stored)
    BY <1>4 DEF Load
  <2> QED BY <2>1, <2>2
<1>5. ASSUME NEW op \in ArithmeticOps, NEW v \in Literals, Compute(op, v) \/ ComputeOnto(op, v) PROVE ValuesInv'
  BY <1>1, <1>2, <1>5, ArithmeticShaped DEF Compute, ComputeOnto, Running
<1>6. ASSUME NEW v \in Literals, TakeMin(v) \/ TakeMax(v) PROVE ValuesInv'
  BY <1>1, <1>2, <1>6, MinMaxShaped DEF TakeMin, TakeMax, Running
<1>7. ASSUME TakeSqrt PROVE ValuesInv'
  BY <1>2, <1>7, SqrtShaped DEF TakeSqrt
<1>8. ASSUME NEW t \in TypeId, Cast(t) \/ FactoryCastTo(t) PROVE ValuesInv'
  BY <1>2, <1>8, CastShaped, FactoryShaped DEF Cast, FactoryCastTo, Running
<1>9. ASSUME NEW op \in CompareOps, NEW v \in Literals, Test(op, v) PROVE ValuesInv'
  <2>1. PICK c : c = Compare(op, acc, v)
    OBVIOUS
  <2>2. Become(IF c = "Throw" THEN TYPE_ERROR ELSE GetBooleanValue(c))
    BY <1>9, <2>1 DEF Test
  <2>3. c \in {"Throw", "CmpNull", "CmpTrue", "CmpFalse"}
    BY <1>9, <2>1, CompareAnswers DEF Test, Running, Compare
  <2>4. Shaped(IF c = "Throw" THEN TYPE_ERROR ELSE GetBooleanValue(c))
    BY <2>3, TestShaped, ErrorsThrow, ThrownShaped
  <2> QED BY <1>2, <2>2, <2>4
<1>10. ASSUME Finish PROVE ValuesInv'
  BY <1>10, TypeNames DEF Finish, Empty, WellTyped
<1>11. ASSUME UNCHANGED vars PROVE ValuesInv'
  BY <1>11 DEF vars, WellTyped
<1> QED BY <1>3, <1>4, <1>5, <1>6, <1>7, <1>8, <1>9, <1>10, <1>11, Zenon DEF Next

\* Whatever is computed with, in every behaviour, is a value of its type.
THEOREM ValuesAreTyped == Spec => []ValuesInv
PROOF
<1>1. Init => ValuesInv
  BY TypeNames DEF Init, ValuesInv, Empty, WellTyped
<1> QED BY <1>1, ValuesStep, PTL DEF Spec

\* ArithmeticExact, of every value that a computation can reach.
THEOREM ArithmeticIsExact == Spec => []ArithmeticExact
PROOF
<1>1. ValuesInv => ArithmeticExact
  <2> SUFFICES ASSUME ValuesInv, NEW r \in Integers(Literals), NEW op \in ArithmeticOps, acc \in Integers({acc})
               PROVE  /\ ExactResult(op, acc, r, Arithmetic(op, acc, r))
                      /\ ExactResult(op, r, acc, Arithmetic(op, r, acc))
    BY DEF ArithmeticExact
  <2>1. WellTyped(acc) /\ acc.type \in IntTypes /\ ~IsNull(acc)
    BY DEF ValuesInv, Integers, CheckInteger
  <2>2. WellTyped(r) /\ r.type \in IntTypes /\ ~IsNull(r)
    BY OperandsAssumption DEF Integers, CheckInteger
  <2>3. Operand(acc.type, acc.val) /\ Operand(r.type, r.val)
    BY <2>1, <2>2, IntegerOperand
  <2> QED BY <2>1, <2>2, <2>3, IntegerArithmeticExact
<1> QED BY <1>1, ValuesAreTyped, PTL

\* What ComparesInOrder says of a bound that Min and Max return.
Bound(op, M, l, r) == \A m \in {M} : m \in {l, r} /\ \A v \in {l, r} : Compare(op, m, v) = "CmpTrue"

\* Min and Max return one that compares as a bound of both.
LEMMA MinMaxBound ==
  ASSUME NEW l, NEW r, WellTyped(l), WellTyped(r), l.type \in NumericTypes, r.type \in NumericTypes,
         ~IsNull(l), ~IsNull(r)
  PROVE  Bound("<=", ValueMin(l, r), l, r) /\ Bound(">=", ValueMax(l, r), l, r)
PROOF
<1>1. PICK x \in Int, y \in Int : x = Compared(l, r) /\ y = Compared(r, l)
  BY ComparedInOrder
<1>2. \A op : Compare(op, l, r) = CmpBool(op, x, y) /\ Compare(op, r, l) = CmpBool(op, y, x)
  BY <1>1, NumbersCompare, Zenon DEF Compare
<1>3. ASSUME NEW v, v \in {l, r} PROVE Compare("<=", v, v) = "CmpTrue" /\ Compare(">=", v, v) = "CmpTrue"
  <2>1. PICK z \in Int : z = Compared(v, v)
    BY <1>3, ComparedInOrder
  <2>2. WellTyped(v) /\ v.type \in NumericTypes /\ ~IsNull(v)
    BY <1>3
  <2>3. \A op : Compare(op, v, v) = CmpBool(op, z, z)
    BY <2>1, <2>2, NumbersCompare, Zenon DEF Compare
  <2>4. CmpBool("<=", z, z) = "CmpTrue" /\ CmpBool(">=", z, z) = "CmpTrue"
    BY DEF CmpBool
  <2> QED BY <2>3, <2>4, Zenon
<1>4. /\ x <= y => CmpBool("<=", x, y) = "CmpTrue"
      /\ y <= x => CmpBool("<=", y, x) = "CmpTrue"
      /\ x >= y => CmpBool(">=", x, y) = "CmpTrue"
      /\ y >= x => CmpBool(">=", y, x) = "CmpTrue"
  BY DEF CmpBool
<1>5. /\ (ValueMin(l, r) = l /\ x <= y) \/ (ValueMin(l, r) = r /\ y <= x)
      /\ (ValueMax(l, r) = l /\ x >= y) \/ (ValueMax(l, r) = r /\ y >= x)
  BY <1>1, NumbersMinMax
<1> QED BY <1>2, <1>3, <1>4, <1>5, Zenon DEF Bound

\* What ComparesInOrder says of the order of two numbers.
KeepsOrder(l, r, x, y) ==
  /\ (CheckInteger(l) /\ CheckInteger(r)) \/ (AsDouble(l) = x /\ AsDouble(r) = y) =>
       \A op \in CompareOps : Compare(op, l, r) = CmpBool(op, x, y)
  /\ x <= y => Compare("<=", l, r) = "CmpTrue"
  /\ x >= y => Compare(">=", l, r) = "CmpTrue"
  /\ Compare("<", l, r) = "CmpTrue" => x < y
  /\ Compare("<", l, r) = Compare(">", r, l)
  /\ Compare("<=", l, r) = Compare(">=", r, l)

\* Comparisons keep the order of two numbers.
LEMMA NumbersKeepOrder ==
  ASSUME NEW l, NEW r, WellTyped(l), WellTyped(r), l.type \in NumericTypes, r.type \in NumericTypes,
         ~IsNull(l), ~IsNull(r)
  PROVE  KeepsOrder(l, r, Number(l), Number(r))
PROOF
<1>1. PICK x \in Int, y \in Int : x = Number(l) /\ y = Number(r)
  BY NumberFacts
<1>2. PICK a \in Int, b \in Int : a = Compared(l, r) /\ b = Compared(r, l)
  BY ComparedInOrder
<1>3. \A op : Compare(op, l, r) = CmpBool(op, a, b) /\ Compare(op, r, l) = CmpBool(op, b, a)
  BY <1>2, NumbersCompare, Zenon DEF Compare
<1>4. (x <= y => a <= b) /\ (y <= x => b <= a)
  BY <1>1, <1>2, ComparedInOrder
<1>5. (CheckInteger(l) /\ CheckInteger(r)) \/ (AsDouble(l) = x /\ AsDouble(r) = y) => a = x /\ b = y
  BY <1>1, <1>2, ComparedFacts DEF CheckInteger
<1>6. CmpBool("<", a, b) = CmpBool(">", b, a) /\ CmpBool("<=", a, b) = CmpBool(">=", b, a)
  BY DEF CmpBool
<1>7. /\ x <= y => CmpBool("<=", a, b) = "CmpTrue"
      /\ x >= y => CmpBool(">=", a, b) = "CmpTrue"
      /\ CmpBool("<", a, b) = "CmpTrue" => x < y
  BY <1>4 DEF CmpBool
<1>8. KeepsOrder(l, r, x, y)
  BY <1>3, <1>5, <1>6, <1>7, Zenon DEF KeepsOrder
<1> QED BY <1>1, <1>8, Zenon

\* ComparesInOrder, of every value that a computation can reach.
THEOREM ComparisonsKeepOrder == Spec => []ComparesInOrder
PROOF
<1>1. ASSUME ValuesInv, NEW r \in Numbers(Literals), acc \in Numbers({acc})
      PROVE  /\ KeepsOrder(acc, r, Number(acc), Number(r))
             /\ Bound("<=", ValueMin(acc, r), acc, r) /\ Bound(">=", ValueMax(acc, r), acc, r)
             /\ acc.type \in {INTEGER, BIGINT} /\ CheckInteger(r) => \A op \in CompareOps :
                  Compare(op, acc, CastAs(r, VARCHAR)) \in {"Throw", CmpBool(op, Number(acc), Number(r))}
  <2>1. WellTyped(acc) /\ acc.type \in NumericTypes /\ ~IsNull(acc)
    BY <1>1 DEF ValuesInv, Numbers
  <2>2. WellTyped(r) /\ r.type \in NumericTypes /\ ~IsNull(r)
    BY OperandsAssumption DEF Numbers
  <2>3. KeepsOrder(acc, r, Number(acc), Number(r))
    BY <2>1, <2>2, NumbersKeepOrder, Zenon
  <2>4. Bound("<=", ValueMin(acc, r), acc, r) /\ Bound(">=", ValueMax(acc, r), acc, r)
    BY <2>1, <2>2, MinMaxBound, Zenon
  <2>5. ASSUME acc.type \in {INTEGER, BIGINT}, CheckInteger(r), NEW op \in CompareOps
        PROVE  Compare(op, acc, CastAs(r, VARCHAR)) \in {"Throw", CmpBool(op, Number(acc), Number(r))}
    BY <2>1, <2>2, <2>5, TextCompare, Zenon DEF CheckInteger
  <2> QED BY <2>3, <2>4, <2>5, Zenon
<1>2. ValuesInv => ComparesInOrder
  <2> SUFFICES ASSUME ValuesInv, NEW r \in Numbers(Literals), acc \in Numbers({acc})
               PROVE  LET x == Number(acc)
                          y == Number(r)
                      IN  /\ (CheckInteger(acc) /\ CheckInteger(r)) \/ (AsDouble(acc) = x /\ AsDouble(r) = y) =>
                               \A op \in CompareOps : Compare(op, acc, r) = CmpBool(op, x, y)
                          /\ x <= y => Compare("<=", acc, r) = "CmpTrue"
                          /\ x >= y => Compare(">=", acc, r) = "CmpTrue"
                          /\ Compare("<", acc, r) = "CmpTrue" => x < y
                          /\ Compare("<", acc, r) = Compare(">", r, acc)
                          /\ Compare("<=", acc, r) = Compare(">=", r, acc)
                          /\ Bound("<=", ValueMin(acc, r), acc, r) /\ Bound(">=", ValueMax(acc, r), acc, r)
                          /\ acc.type \in {INTEGER, BIGINT} /\ CheckInteger(r) => \A op \in CompareOps :
                               Compare(op, acc, CastAs(r, VARCHAR)) \in {"Throw", CmpBool(op, x, y)}
    BY DEF ComparesInOrder, Bound
  <2>1. KeepsOrder(acc, r, Number(acc), Number(r))
    BY <1>1
  <2> QED BY <1>1, <2>1, Zenon DEF KeepsOrder
<1> QED BY <1>2, ValuesAreTyped, PTL

\* CastsExact, of every value that a computation can reach.
THEOREM CastsAreExact == Spec => []CastsExact
PROOF
<1>1. ValuesInv => CastsExact
  <2> SUFFICES ASSUME ValuesInv PROVE CastsExact
    OBVIOUS
  <2>1. WellTyped(acc)
    BY DEF ValuesInv
  <2>2. ASSUME acc \in Numbers({acc}), NEW t \in IntTypes PROVE NumberCastExact(acc, t)
    <3>1. acc.type \in NumericTypes /\ ~IsNull(acc)
      BY <2>2 DEF Numbers
    <3> QED BY <2>1, <3>1, IntegerCastExact, DecimalCastExact DEF NumericTypes
  <2>3. ASSUME acc \in Integers({acc}) PROVE CastAs(CastAs(acc, VARCHAR), acc.type) = acc
    <3>1. acc.type \in IntTypes /\ ~IsNull(acc)
      BY <2>3 DEF Integers, CheckInteger
    <3> QED BY <2>1, <3>1, IntegerThroughText
  <2>4. ASSUME Running, NEW t \in TypeId PROVE FactoryAgrees(acc, t)
    BY <2>1, <2>4, CastsAgree DEF Running
  <2> QED BY <2>2, <2>3, <2>4, Zenon DEF CastsExact, NumberCastExact, FactoryAgrees
<1> QED BY <1>1, ValuesAreTyped, PTL

-----------------------------------------------------------------------------
(* The layout of a tuple.                                                  *)

\* Running sums from start: what the two recursions of the layout compute.
IsSums(g, n, start, inc) ==
  /\ g \in [1 .. (n + 1) -> Nat] /\ g[1] = start
  /\ \A j \in 1 .. n : g[j + 1] = g[j] + inc[j]

\* Their recursive definition.
SumsUp(g, n, start, inc) ==
  g = [j \in 1 .. (n + 1) |-> IF j = 1 THEN start ELSE g[j - 1] + inc[j - 1]]

\* A function that is defined like the running sums is one.
LEMMA AreSums ==
  ASSUME NEW n \in Nat, NEW start \in Nat, NEW inc \in [1 .. n -> Nat], NEW g, SumsUp(g, n, start, inc)
  PROVE  IsSums(g, n, start, inc)
PROOF
<1> USE DEF SumsUp
<1>1. \A j \in 1 .. (n + 1) : g[j] = IF j = 1 THEN start ELSE g[j - 1] + inc[j - 1]
  BY Zenon
<1>2. g[1] = start
  <2>1. 1 \in 1 .. (n + 1)
    OBVIOUS
  <2> QED BY <1>1, <2>1, Zenon
<1>3. ASSUME NEW j \in 1 .. n PROVE g[j + 1] = g[j] + inc[j]
  <2>1. j + 1 \in 1 .. (n + 1) /\ j + 1 # 1 /\ (j + 1) - 1 = j
    OBVIOUS
  <2> QED BY <1>1, <2>1, Zenon
<1>4. PICK S : S = {i \in 0 .. n : g[i + 1] \in Nat}
  OBVIOUS
<1>5. 0 \in S
  BY <1>2, <1>4
<1>6. ASSUME NEW i \in 0 .. (n - 1), i \in S PROVE i + 1 \in S
  <2>1. i + 1 \in 1 .. n /\ g[i + 1] \in Nat
    BY <1>4, <1>6
  <2>2. g[(i + 1) + 1] = g[i + 1] + inc[i + 1] /\ inc[i + 1] \in Nat
    BY <1>3, <2>1
  <2>3. g[(i + 1) + 1] \in Nat /\ i + 1 \in 0 .. n
    BY <2>1, <2>2
  <2> QED BY <1>4, <2>3, Zenon
<1>7. \A i \in 0 .. n : i \in S
  BY <1>5, <1>6, UpTo, Zenon
<1>8. ASSUME NEW j \in 1 .. (n + 1) PROVE g[j] \in Nat
  <2>1. j - 1 \in 0 .. n /\ (j - 1) + 1 = j
    OBVIOUS
  <2>2. g[(j - 1) + 1] \in Nat
    BY <1>4, <1>7, <2>1, Zenon
  <2> QED BY <2>1, <2>2
<1>9. g \in [1 .. (n + 1) -> Nat]
  <2>1. g = [j \in 1 .. (n + 1) |-> g[j]]
    <3>1. PICK D : D = 1 .. (n + 1)
      OBVIOUS
    <3>2. ASSUME NEW e, g = [j \in D |-> IF j = 1 THEN start ELSE e[j - 1] + inc[j - 1]] PROVE g = [j \in D |-> g[j]]
      BY <3>2, Zenon
    <3> QED BY <3>1, <3>2, Zenon
  <2> QED BY <1>8, <2>1
<1> QED BY <1>2, <1>3, <1>9 DEF IsSums

\* Running sums exist.
LEMMA SumsExist ==
  ASSUME NEW n \in Nat, NEW start \in Nat, NEW inc \in [1 .. n -> Nat]
  PROVE  \E g : SumsUp(g, n, start, inc)
PROOF
<1> DEFINE Up(g, m) == g = [j \in 1 .. (m + 1) |-> IF j = 1 THEN start ELSE g[j - 1] + inc[j - 1]]
           S == {m \in 0 .. n : \E g : Up(g, m)}
<1>1. 0 \in S
  <2>1. PICK g : g = [j \in 1 .. 1 |-> start]
    OBVIOUS
  <2>2. Up(g, 0)
    BY <2>1
  <2> QED BY <2>2
<1>2. ASSUME NEW m \in 0 .. (n - 1), m \in S PROVE m + 1 \in S
  <2>1. PICK f : Up(f, m)
    BY <1>2
  <2>2. PICK g : g = [j \in 1 .. ((m + 1) + 1) |-> IF j = 1 THEN start ELSE f[j - 1] + inc[j - 1]]
    OBVIOUS
  <2>3. ASSUME NEW j \in 1 .. (m + 1) PROVE g[j] = f[j]
    <3>1. j \in 1 .. ((m + 1) + 1)
      OBVIOUS
    <3>2. f[j] = IF j = 1 THEN start ELSE f[j - 1] + inc[j - 1]
      BY <2>1, Zenon
    <3> QED BY <2>2, <3>1, <3>2, Zenon
  <2>4. ASSUME NEW j \in 1 .. ((m + 1) + 1), j # 1 PROVE g[j - 1] = f[j - 1]
    <3>1. j - 1 \in 1 .. (m + 1)
      BY <2>4
    <3> QED BY <2>3, <3>1
  <2>5. Up(g, m + 1)
    BY <2>2, <2>4, Zenon
  <2>6. m + 1 \in 0 .. n
    OBVIOUS
  <2> QED BY <2>5, <2>6, Zenon
<1> HIDE DEF S
<1>3. \A i \in 0 .. n : i \in S
  BY <1>1, <1>2, UpTo, Zenon
<1>4. n \in S
  BY <1>3
<1> USE DEF S
<1> QED BY <1>4, Zenon DEF SumsUp

\* Running sums grow.
LEMMA SumsGrow ==
  ASSUME NEW n \in Nat, NEW start, NEW inc \in [1 .. n -> Nat], NEW g, IsSums(g, n, start, inc)
  PROVE  \A j \in 1 .. (n + 1) : g[1] <= g[j] /\ g[j] <= g[n + 1]
PROOF
<1>1. g \in [1 .. (n + 1) -> Nat] /\ \A j \in 1 .. n : g[j + 1] = g[j] + inc[j]
  BY DEF IsSums
<1>2. \A j \in 1 .. n : g[j] <= g[j + 1] /\ g[j] \in Nat /\ g[j + 1] \in Nat
  BY <1>1
<1>3. PICK S, D : S = {i \in 0 .. n : g[1] <= g[i + 1]} /\ D = {i \in 0 .. n : g[(n + 1) - i] <= g[n + 1]}
  OBVIOUS
<1>4. 0 \in S /\ 0 \in D
  BY <1>1, <1>3
<1>5. ASSUME NEW i \in 0 .. (n - 1), i \in S PROVE i + 1 \in S
  <2>1. i + 1 \in 1 .. n /\ i + 1 \in 0 .. n /\ 1 \in 1 .. (n + 1) /\ g[1] <= g[i + 1]
    BY <1>3, <1>5
  <2>2. g[1] <= g[(i + 1) + 1]
    BY <1>1, <1>2, <2>1
  <2> QED BY <1>3, <2>1, <2>2, Zenon
<1>6. ASSUME NEW i \in 0 .. (n - 1), i \in D PROVE i + 1 \in D
  <2>1. PICK j \in 1 .. n : j = (n + 1) - (i + 1) /\ j + 1 = (n + 1) - i
    OBVIOUS
  <2>2. g[j + 1] <= g[n + 1] /\ n + 1 \in 1 .. (n + 1) /\ i + 1 \in 0 .. n
    BY <1>3, <1>6, <2>1
  <2>3. g[j] <= g[n + 1]
    BY <1>1, <1>2, <2>2
  <2> QED BY <1>3, <2>1, <2>2, <2>3, Zenon
<1>7. (\A i \in 0 .. n : i \in S) /\ (\A i \in 0 .. n : i \in D)
  BY <1>4, <1>5, <1>6, UpTo, Zenon
<1> SUFFICES ASSUME NEW j \in 1 .. (n + 1) PROVE g[1] <= g[j] /\ g[j] <= g[n + 1]
  OBVIOUS
<1>8. PICK a \in 0 .. n, b \in 0 .. n : a + 1 = j /\ (n + 1) - b = j
  <2>1. j - 1 \in 0 .. n /\ (j - 1) + 1 = j /\ (n + 1) - j \in 0 .. n /\ (n + 1) - ((n + 1) - j) = j
    OBVIOUS
  <2> QED BY <2>1
<1> QED BY <1>3, <1>7, <1>8

\* The recursions of Schema::Schema and of Tuple::Tuple.
IsColumnOffsets(f, schema) ==
  f = [j \in 1 .. Len(schema) + 1 |->
        IF j = 1 THEN 0 ELSE f[j - 1] + TypeSize(schema[j - 1])]
IsUnlinedOffsets(f, values, schema) ==
  f = [j \in 1 .. Len(schema) + 1 |->
        IF j = 1 THEN SchemaLength(schema)
        ELSE f[j - 1] + (IF IsInlined(schema[j - 1]) THEN 0 ELSE UnlinedLength(values[j - 1]))]

\* The two are running sums, if the sizes are numbers.
AreColumns(g, schema, n, inc) == IsSums(g, n, 0, inc) /\ \A i : ColumnOffset(schema, i) = g[i]
AreUnlined(g, values, schema, n, gap) ==
  IsSums(g, n, SchemaLength(schema), gap) /\ \A i : UnlinedOffset(values, schema, i) = g[i]

\* Schema::Schema computes running sums of the columns' sizes.
LEMMA ColumnOffsets ==
  ASSUME NEW schema, NEW n \in Nat, n = Len(schema),
         NEW inc \in [1 .. n -> Nat], \A j \in 1 .. n : inc[j] = TypeSize(schema[j])
  PROVE  \E g : AreColumns(g, schema, n, inc)
PROOF
<1>1. ASSUME NEW f
      PROVE  IsColumnOffsets(f, schema)
               <=> SumsUp(f, n, 0, inc)
  <2>1. ASSUME NEW j \in 1 .. (n + 1), j # 1 PROVE inc[j - 1] = TypeSize(schema[j - 1])
    <3>1. j - 1 \in 1 .. n
      BY <2>1
    <3> QED BY <3>1
  <2> QED BY <2>1, Zenon DEF IsColumnOffsets, SumsUp
<1>2. \E f : IsColumnOffsets(f, schema)
  <2>1. PICK f : SumsUp(f, n, 0, inc)
    <3>1. 0 \in Nat
      OBVIOUS
    <3> QED BY <3>1, SumsExist, Zenon
  <2> QED BY <1>1, <2>1, Zenon
<1>3. PICK g : g = CHOOSE f : IsColumnOffsets(f, schema)
  OBVIOUS
<1>4. IsColumnOffsets(g, schema)
  BY <1>2, <1>3, Zenon
<1>5. ASSUME NEW i PROVE ColumnOffset(schema, i) = g[i]
  BY <1>3, Zenon DEF ColumnOffset, IsColumnOffsets
<1>6. SumsUp(g, n, 0, inc)
  BY <1>1, <1>4, Zenon
<1>7. IsSums(g, n, 0, inc)
  BY <1>6, AreSums, 0 \in Nat, Zenon
<1> QED BY <1>5, <1>7, Zenon DEF AreColumns

\* Tuple::Tuple computes running sums of the texts' lengths.
LEMMA UnlinedOffsets ==
  ASSUME NEW schema, NEW values, NEW n \in Nat, n = Len(schema), SchemaLength(schema) \in Nat,
         NEW inc \in [1 .. n -> Nat],
         \A j \in 1 .. n : inc[j] = IF IsInlined(schema[j]) THEN 0 ELSE UnlinedLength(values[j])
  PROVE  \E g : AreUnlined(g, values, schema, n, inc)
PROOF
<1>1. ASSUME NEW f
      PROVE  IsUnlinedOffsets(f, values, schema)
               <=> SumsUp(f, n, SchemaLength(schema), inc)
  <2>1. ASSUME NEW j \in 1 .. (n + 1), j # 1
        PROVE  inc[j - 1] = IF IsInlined(schema[j - 1]) THEN 0 ELSE UnlinedLength(values[j - 1])
    <3>1. j - 1 \in 1 .. n
      BY <2>1
    <3> QED BY <3>1, Zenon
  <2> QED BY <2>1, Zenon DEF IsUnlinedOffsets, SumsUp
<1>2. \E f : IsUnlinedOffsets(f, values, schema)
  <2>1. PICK f : SumsUp(f, n, SchemaLength(schema), inc)
    BY SumsExist, Zenon
  <2> QED BY <1>1, <2>1, Zenon
<1>3. PICK g : g = CHOOSE f : IsUnlinedOffsets(f, values, schema)
  OBVIOUS
<1>4. IsUnlinedOffsets(g, values, schema)
  BY <1>2, <1>3, Zenon
<1>5. ASSUME NEW i PROVE UnlinedOffset(values, schema, i) = g[i]
  BY <1>3, Zenon DEF UnlinedOffset, IsUnlinedOffsets
<1>6. SumsUp(g, n, SchemaLength(schema), inc)
  BY <1>1, <1>4, Zenon
<1>7. IsSums(g, n, SchemaLength(schema), inc)
  BY <1>6, AreSums, Zenon
<1> QED BY <1>5, <1>7, Zenon DEF AreUnlined

\* The bytes that a value takes: those of its column, or, of a text, those it
\* is given behind the columns.
LEMMA Sizes ==
  ASSUME NEW v, WellTyped(v), v.type \in TypeId, v # NullOf(VARCHAR)
  PROVE  /\ TypeSize(v.type) \in Nat \ {0}
         /\ IsInlined(v.type) => SerializedLength(v) = TypeSize(v.type)
         /\ ~IsInlined(v.type) => /\ UnlinedLength(v) \in Nat \ {0} /\ SerializedLength(v) = UnlinedLength(v)
                                  /\ 4 <= TypeSize(v.type)
PROOF
<1>1. CASE v.type # VARCHAR
  <2>1. GetTypeSize(v.type) \in {1, 2, 4, 8}
    BY <1>1 DEF GetTypeSize, TypeId, NumericTypes, IntTypes, TINYINT, SMALLINT, INTEGER, BIGINT, DECIMAL, BOOLEANT, VARCHAR
  <2>2. SerializedLength(v) = GetTypeSize(v.type)
    BY <1>1 DEF SerializedLength
  <2> QED BY <1>1, <2>1, <2>2 DEF TypeSize, IsInlined
<1>2. CASE v.type = VARCHAR
  <2>1. v = [type |-> VARCHAR, val |-> v.val] /\ v.val \in Texts
    BY <1>2, TypeNames DEF WellTyped
  <2>2. ~IsNull(v)
    BY <1>2, <2>1 DEF IsNull, NullOf
  <2>3. TextLength(v.val) \in Nat
    <3>1. PICK s : s = v.val
      OBVIOUS
    <3>2. s.word \in {Words[i] : i \in DOMAIN Words} /\ s.int \in Nat /\ s.frac \in Int
      BY <2>1, <3>1 DEF Texts
    <3>3. Len(s.word) \in Nat
      BY <3>2, WordsAssumption, Zenon
    <3>4. Digits(s.int) \in Nat
      BY DEF Digits
    <3>5. TextLength(s) \in Nat
      <4>1. PICK a \in Nat, b \in Nat, c \in Nat :
              /\ a = (IF s.neg THEN 1 ELSE 0) /\ b = Digits(s.int) /\ c = (IF s.frac < 0 THEN 0 ELSE 7)
        BY <3>4
      <4>2. TextLength(s) = IF s.word # "numeral" THEN Len(s.word) ELSE a + b + c
        BY <4>1 DEF TextLength
      <4>3. a + b + c \in Nat
        OBVIOUS
      <4> QED BY <3>3, <4>2, <4>3, Zenon
    <3> QED BY <3>1, <3>5
  <2>4. PICK k \in Nat : k = TextLength(v.val)
    BY <2>3
  <2>5. UnlinedLength(v) = 4 + k + 1
    BY <2>2, <2>4 DEF UnlinedLength, LengthPrefix
  <2>6. SerializedLength(v) = 4 + (k + 1)
    BY <1>2, <2>2, <2>4 DEF SerializedLength, LengthPrefix
  <2>7. TypeSize(v.type) = 12 /\ ~IsInlined(v.type)
    BY <1>2 DEF TypeSize, IsInlined
  <2> QED BY <2>5, <2>6, <2>7
<1> QED BY <1>1, <1>2

\* Writes that end before a, or lie between b and c; no two share a byte; and
\* one of them is w.
Fits(ws, a, b, c) ==
  \A k \in DOMAIN ws : ws[k].at + ws[k].len <= a \/ (b <= ws[k].at /\ ws[k].at + ws[k].len <= c)
Disjoint(ws) == \A k, m \in DOMAIN ws : k # m => ~Overlap(ws[k], ws[m])
Has(ws, w) == \E k \in DOMAIN ws : ws[k] = w
AreWrites(W) == \A w \in W : w.at \in Nat /\ w.len \in Nat \ {0}

\* The writes made so far, and the room they take.
Laid(W, ws, a, b, c) == ws \in Seq(W) /\ Fits(ws, a, b, c) /\ Disjoint(ws)

\* A write into the room that follows keeps the layout.
LEMMA AppendLaid ==
  ASSUME NEW W, AreWrites(W), NEW ws, NEW w \in W,
         NEW a \in Nat, NEW b \in Nat, NEW c \in Nat, NEW a2 \in Nat, NEW c2 \in Nat,
         Laid(W, ws, a, b, c), a <= a2, c <= c2, a2 <= b, b <= c,
         (w.at = a /\ w.at + w.len <= a2) \/ (w.at = c /\ w.at + w.len <= c2)
  PROVE  /\ Laid(W, Append(ws, w), a2, b, c2)
         /\ Has(Append(ws, w), w) /\ \A u : Has(ws, u) => Has(Append(ws, w), u)
PROOF
<1>1. PICK n \in Nat : n = Len(ws) /\ DOMAIN ws = 1 .. n /\ ws \in Seq(W)
  BY DEF Laid
<1>2. PICK e : e = Append(ws, w)
  OBVIOUS
<1>3. /\ e \in Seq(W) /\ DOMAIN e = 1 .. (n + 1) /\ e[n + 1] = w
      /\ \A k \in 1 .. n : e[k] = ws[k]
  BY <1>1, <1>2, AppendProperties
<1>4. \A k \in 1 .. (n + 1) : k \in 1 .. n \/ k = n + 1
  OBVIOUS
<1>5. ASSUME NEW k \in 1 .. n
      PROVE  /\ ws[k].at \in Nat /\ ws[k].len \in Nat
             /\ ws[k].at + ws[k].len <= a \/ (b <= ws[k].at /\ ws[k].at + ws[k].len <= c)
  <2>1. ws[k] \in W
    BY <1>1
  <2>2. ws[k].at + ws[k].len <= a \/ (b <= ws[k].at /\ ws[k].at + ws[k].len <= c)
    BY <1>1, Zenon DEF Laid, Fits
  <2> QED BY <2>1, <2>2, Zenon DEF AreWrites
<1>6. w.at \in Nat /\ w.len \in Nat
  BY DEF AreWrites
<1>7. Fits(e, a2, b, c2)
  <2> SUFFICES ASSUME NEW k \in 1 .. (n + 1)
               PROVE  e[k].at + e[k].len <= a2 \/ (b <= e[k].at /\ e[k].at + e[k].len <= c2)
    BY <1>3 DEF Fits
  <2>1. CASE k \in 1 .. n
    <3>1. e[k] = ws[k]
      BY <1>3, <2>1
    <3> QED BY <1>5, <2>1, <3>1
  <2>2. CASE k = n + 1
    BY <1>3, <1>6, <2>2
  <2> QED BY <1>4, <2>1, <2>2
<1>8. ASSUME NEW k \in 1 .. n PROVE ~Overlap(ws[k], w) /\ ~Overlap(w, ws[k])
  BY <1>5, <1>6 DEF Overlap
<1>9. Disjoint(e)
  <2> SUFFICES ASSUME NEW k \in 1 .. (n + 1), NEW m \in 1 .. (n + 1), k # m PROVE ~Overlap(e[k], e[m])
    BY <1>3, Zenon DEF Disjoint
  <2>1. CASE k \in 1 .. n /\ m \in 1 .. n
    BY <1>1, <1>3, <2>1, Zenon DEF Laid, Disjoint
  <2>2. CASE k \in 1 .. n /\ m = n + 1
    BY <1>3, <1>8, <2>2, Zenon
  <2>3. CASE k = n + 1 /\ m \in 1 .. n
    BY <1>3, <1>8, <2>3, Zenon
  <2> QED BY <1>4, <2>1, <2>2, <2>3, Zenon
<1>10. Has(e, w)
  <2>1. n + 1 \in 1 .. (n + 1)
    OBVIOUS
  <2> QED BY <1>3, <2>1, Zenon DEF Has
<1>11. ASSUME NEW u, Has(ws, u) PROVE Has(e, u)
  <2>1. PICK k \in 1 .. n : ws[k] = u
    BY <1>1, <1>11, Zenon DEF Has
  <2>2. k \in 1 .. (n + 1)
    OBVIOUS
  <2> QED BY <1>3, <2>1, <2>2, Zenon DEF Has
<1> QED BY <1>2, <1>3, <1>7, <1>9, <1>10, <1>11, Zenon DEF Laid

\* A write is read back if no two writes share a byte.
LEMMA ReadBack ==
  ASSUME NEW W, AreWrites(W), NEW t, t.writes \in Seq(W), Disjoint(t.writes), NEW w, Has(t.writes, w)
  PROVE  ReadAt(t, w.at) = w.holds
PROOF
<1>0. PICK ws : ws = t.writes
  OBVIOUS
<1>1. PICK n \in Nat : ws = t.writes /\ n = Len(ws) /\ DOMAIN ws = 1 .. n /\ ws \in Seq(W)
  BY <1>0
<1> DEFINE whole == {k \in DOMAIN ws : /\ ws[k].at = w.at
                                       /\ \A m \in k + 1 .. Len(ws) : ~Overlap(ws[k], ws[m])}
<1>2. ReadAt(t, w.at) = IF whole = {} THEN Garbage ELSE ws[CHOOSE k \in whole : TRUE].holds
  BY <1>1 DEF ReadAt
<1>3. PICK j \in 1 .. n : ws[j] = w
  BY <1>1 DEF Has
<1>4. j \in whole
  <2>1. ASSUME NEW m \in j + 1 .. n PROVE ~Overlap(ws[j], ws[m])
    <3>1. m \in 1 .. n /\ j # m
      OBVIOUS
    <3> QED BY <1>1, <3>1, Zenon DEF Disjoint
  <2> QED BY <1>1, <1>3, <2>1, Zenon
<1>5. ASSUME NEW k \in whole PROVE k = j
  <2>1. k \in 1 .. n /\ ws[k].at = ws[j].at
    BY <1>1, <1>3
  <2>2. ws[k] \in W /\ ws[j] \in W
    BY <1>1, <2>1
  <2>3. Overlap(ws[k], ws[j])
    BY <2>1, <2>2 DEF Overlap, AreWrites
  <2> QED BY <1>1, <2>1, <2>3, Zenon DEF Disjoint
<1> HIDE DEF whole
<1>6. (CHOOSE k \in whole : TRUE) = j
  BY <1>4, <1>5, Zenon
<1> QED BY <1>2, <1>3, <1>4, <1>6, Zenon

\* Values that a tuple gives back: no NULL text.
Plain(V) == \A v \in V : v.type \in TypeId /\ WellTyped(v) /\ v # NullOf(VARCHAR)

\* The writes of column j are among ws.
HasColumn(ws, values, schema, col, unl, j) ==
  IF IsInlined(schema[j]) THEN Has(ws, Write(col[j], values[j]))
  ELSE Has(ws, WriteOffset(col[j], unl[j])) /\ Has(ws, Write(unl[j], values[j]))

\* Two writes, one in each room.
LEMMA AppendTwo ==
  ASSUME NEW W, AreWrites(W), NEW ws, NEW w \in W, NEW x \in W,
         NEW a \in Nat, NEW b \in Nat, NEW c \in Nat, NEW a2 \in Nat, NEW c2 \in Nat,
         Laid(W, ws, a, b, c), a <= a2, c <= c2, a2 <= b, b <= c,
         w.at = a, w.at + w.len <= a2, x.at = c, x.at + x.len <= c2
  PROVE  /\ Laid(W, Append(Append(ws, w), x), a2, b, c2)
         /\ Has(Append(Append(ws, w), x), w) /\ Has(Append(Append(ws, w), x), x)
         /\ \A u : Has(ws, u) => Has(Append(Append(ws, w), x), u)
PROOF
<1>1. c <= c /\ a2 <= a2
  OBVIOUS
<1>2. PICK d : d = Append(ws, w)
  OBVIOUS
<1>3. Laid(W, d, a2, b, c) /\ Has(d, w) /\ \A u : Has(ws, u) => Has(d, u)
  BY <1>1, <1>2, AppendLaid, Zenon
<1>4. Laid(W, Append(d, x), a2, b, c2) /\ Has(Append(d, x), x) /\ \A u : Has(d, u) => Has(Append(d, x), u)
  BY <1>1, <1>3, AppendLaid, Zenon
<1> QED BY <1>2, <1>3, <1>4, Zenon

\* Column i has its room, and its writes are of W.
HasRoom(W, values, schema, col, unl, L, i) ==
  /\ values[i].type \in TypeId /\ WellTyped(values[i]) /\ values[i] # NullOf(VARCHAR)
  /\ schema[i] = values[i].type
  /\ L \in Nat /\ col[i] \in Nat /\ unl[i] \in Nat /\ col[i + 1] <= L /\ L <= unl[i]
  /\ ColumnOffset(schema, i) = col[i] /\ UnlinedOffset(values, schema, i) = unl[i]
  /\ col[i + 1] = col[i] + TypeSize(schema[i])
  /\ unl[i + 1] = unl[i] + (IF IsInlined(schema[i]) THEN 0 ELSE UnlinedLength(values[i]))
  /\ Write(col[i], values[i]) \in W /\ WriteOffset(col[i], unl[i]) \in W /\ Write(unl[i], values[i]) \in W

\* One round of the constructor's loop.
LEMMA ColumnLaid ==
  ASSUME NEW W, AreWrites(W), NEW ws, NEW values, NEW schema, NEW col, NEW unl, NEW L, NEW i,
         HasRoom(W, values, schema, col, unl, L, i), Laid(W, ws, col[i], L, unl[i]),
         NEW e, e = ws \o ColumnWrites(values, schema, i)
  PROVE  /\ Laid(W, e, col[i + 1], L, unl[i + 1])
         /\ HasColumn(e, values, schema, col, unl, i) /\ \A u : Has(ws, u) => Has(e, u)
PROOF
<1>1. ws \in Seq(W)
  BY DEF Laid
<1>0. PICK v : v = values[i]
  OBVIOUS
<1>2. PICK a \in Nat, c \in Nat : v = values[i] /\ a = col[i] /\ c = unl[i]
  BY <1>0 DEF HasRoom
<1>3. /\ TypeSize(schema[i]) \in Nat
      /\ IsInlined(schema[i]) => SerializedLength(v) = TypeSize(schema[i])
      /\ ~IsInlined(schema[i]) => /\ UnlinedLength(v) \in Nat /\ SerializedLength(v) = UnlinedLength(v)
                                  /\ 4 <= TypeSize(schema[i])
  BY <1>2, Sizes DEF HasRoom
<1>4. PICK a2 \in Nat, c2 \in Nat :
        /\ a2 = col[i + 1] /\ c2 = unl[i + 1]
        /\ a2 = a + TypeSize(schema[i])
        /\ c2 = c + (IF IsInlined(schema[i]) THEN 0 ELSE UnlinedLength(v))
  BY <1>2, <1>3 DEF HasRoom
<1>5. /\ a <= a2 /\ c <= c2 /\ a2 <= L /\ L <= c /\ L \in Nat
      /\ Laid(W, ws, a, L, c)
  BY <1>2, <1>3, <1>4 DEF HasRoom
<1>6. CASE IsInlined(schema[i])
  <2>1. PICK w \in W : w = Write(a, v)
    BY <1>2, Zenon DEF HasRoom
  <2>2. w.at = a /\ w.at + w.len <= a2
    <3>1. w.at = a /\ w.len = SerializedLength(v)
      BY <2>1 DEF Write
    <3> QED BY <1>3, <1>4, <1>6, <3>1
  <2>3. e = Append(ws, w)
    <3>1. e = ws \o <<w>>
      BY <1>2, <1>6, <2>1, Zenon DEF ColumnWrites, HasRoom
    <3> QED BY <1>1, <3>1
  <2>4. /\ Laid(W, Append(ws, w), a2, L, c2) /\ Has(Append(ws, w), w)
        /\ \A u : Has(ws, u) => Has(Append(ws, w), u)
    BY <1>5, <2>2, AppendLaid, Zenon
  <2> QED BY <1>2, <1>4, <1>6, <2>1, <2>3, <2>4, Zenon DEF HasColumn
<1>7. CASE ~IsInlined(schema[i])
  <2>1. PICK w \in W, x \in W : w = WriteOffset(a, c) /\ x = Write(c, v)
    BY <1>2, Zenon DEF HasRoom
  <2>2. w.at = a /\ w.at + w.len <= a2
    <3>1. w.at = a /\ w.len = 4
      BY <2>1 DEF WriteOffset
    <3> QED BY <1>3, <1>4, <1>7, <3>1
  <2>3. x.at = c /\ x.at + x.len <= c2
    <3>1. x.at = c /\ x.len = SerializedLength(v)
      BY <2>1 DEF Write
    <3> QED BY <1>3, <1>4, <1>7, <3>1
  <2>4. PICK d : d = Append(Append(ws, w), x)
    OBVIOUS
  <2>5. e = d
    <3>1. e = ws \o <<w, x>>
      BY <1>2, <1>7, <2>1, Zenon DEF ColumnWrites, HasRoom
    <3>2. ws \o <<w, x>> = Append(Append(ws, w), x)
      BY <1>1
    <3> QED BY <2>4, <3>1, <3>2
  <2>6. Laid(W, d, a2, L, c2) /\ Has(d, w) /\ Has(d, x) /\ \A u : Has(ws, u) => Has(d, u)
    BY <1>5, <2>2, <2>3, <2>4, AppendTwo, Zenon
  <2> QED BY <1>2, <1>4, <1>7, <2>1, <2>5, <2>6, Zenon DEF HasColumn
<1> QED BY <1>6, <1>7

\* The offsets that the constructors of Schema and Tuple compute for the
\* columns of a row: what HasRoom says, for each of them.
LEMMA Offsets ==
  ASSUME NEW values, NEW schema, NEW n \in Nat, n = Len(schema),
         \A j \in 1 .. n : /\ values[j].type \in TypeId /\ WellTyped(values[j]) /\ values[j] # NullOf(VARCHAR)
                           /\ schema[j] = values[j].type
  PROVE  \E col, unl, W :
           /\ AreWrites(W) /\ col[1] \in Nat /\ col[n + 1] \in Nat /\ unl[n + 1] \in Nat
           /\ col[n + 1] <= unl[n + 1] /\ UnlinedOffset(values, schema, n + 1) = unl[n + 1]
           /\ \A j \in 1 .. n : HasRoom(W, values, schema, col, unl, col[n + 1], j)
PROOF
<1>1. ASSUME NEW j \in 1 .. n
      PROVE  /\ TypeSize(schema[j]) \in Nat /\ SerializedLength(values[j]) \in Nat \ {0}
             /\ ~IsInlined(schema[j]) => UnlinedLength(values[j]) \in Nat
  BY Sizes
<1>2. PICK inc : inc = [j \in 1 .. n |-> TypeSize(schema[j])]
  OBVIOUS
<1>3. PICK gap : gap = [j \in 1 .. n |-> IF IsInlined(schema[j]) THEN 0 ELSE UnlinedLength(values[j])]
  OBVIOUS
<1>4. inc \in [1 .. n -> Nat] /\ gap \in [1 .. n -> Nat]
  BY <1>1, <1>2, <1>3
<1>5. PICK col : AreColumns(col, schema, n, inc)
  <2>1. \A j \in 1 .. n : inc[j] = TypeSize(schema[j])
    BY <1>2
  <2> QED BY <1>4, <2>1, ColumnOffsets, Zenon
<1>6. IsSums(col, n, 0, inc)
  BY <1>5, Zenon DEF AreColumns
<1>7. SchemaLength(schema) = col[n + 1] /\ col[n + 1] \in Nat
  <2>1. SchemaLength(schema) = col[n + 1]
    BY <1>5, Zenon DEF SchemaLength, AreColumns
  <2>2. col[n + 1] \in Nat
    BY <1>6 DEF IsSums
  <2> QED BY <2>1, <2>2
<1>8. PICK unl : AreUnlined(unl, values, schema, n, gap)
  <2>1. \A j \in 1 .. n : gap[j] = IF IsInlined(schema[j]) THEN 0 ELSE UnlinedLength(values[j])
    BY <1>3
  <2>2. SchemaLength(schema) \in Nat
    BY <1>7
  <2> QED BY <1>4, <2>1, <2>2, UnlinedOffsets, Zenon
<1>9. IsSums(unl, n, col[n + 1], gap)
  BY <1>7, <1>8, Zenon DEF AreUnlined
<1>10. /\ \A j \in 1 .. (n + 1) : col[1] <= col[j] /\ col[j] <= col[n + 1]
       /\ \A j \in 1 .. (n + 1) : unl[1] <= unl[j] /\ unl[j] <= unl[n + 1]
  BY <1>4, <1>6, <1>9, SumsGrow, Zenon
<1>11. ASSUME NEW j \in 1 .. n
       PROVE  /\ col[j] \in Nat /\ unl[j] \in Nat /\ col[j + 1] <= col[n + 1] /\ col[n + 1] <= unl[j]
              /\ col[j + 1] = col[j] + TypeSize(schema[j])
              /\ unl[j + 1] = unl[j] + (IF IsInlined(schema[j]) THEN 0 ELSE UnlinedLength(values[j]))
  <2>1. j \in 1 .. (n + 1) /\ j + 1 \in 1 .. (n + 1)
    OBVIOUS
  <2>2. col[j + 1] <= col[n + 1] /\ unl[1] <= unl[j]
    BY <1>10, <2>1, Zenon
  <2>3. col[j] \in Nat /\ unl[j] \in Nat /\ unl[1] = col[n + 1]
    BY <1>6, <1>9, <2>1 DEF IsSums
  <2>4. col[j + 1] = col[j] + inc[j] /\ unl[j + 1] = unl[j] + gap[j]
    BY <1>6, <1>9, Zenon DEF IsSums
  <2> QED BY <1>2, <1>3, <2>2, <2>3, <2>4
<1> DEFINE W == {Write(col[j], values[j]) : j \in 1 .. n} \cup {WriteOffset(col[j], unl[j]) : j \in 1 .. n}
                \cup {Write(unl[j], values[j]) : j \in 1 .. n}
<1>12. AreWrites(W)
  <2> SUFFICES ASSUME NEW w \in W PROVE w.at \in Nat /\ w.len \in Nat \ {0}
    BY DEF AreWrites
  <2>1. ASSUME NEW at \in Nat, NEW j \in 1 .. n, w = Write(at, values[j]) PROVE w.at \in Nat /\ w.len \in Nat \ {0}
    BY <1>1, <2>1 DEF Write
  <2>2. ASSUME NEW at \in Nat, NEW offset, w = WriteOffset(at, offset) PROVE w.at \in Nat /\ w.len \in Nat \ {0}
    BY <2>2 DEF WriteOffset
  <2> QED BY <1>11, <2>1, <2>2, Zenon
<1>13. ASSUME NEW j \in 1 .. n
       PROVE  Write(col[j], values[j]) \in W /\ WriteOffset(col[j], unl[j]) \in W /\ Write(unl[j], values[j]) \in W
  BY Zenon
<1> HIDE DEF W
<1>14. ASSUME NEW j \in 1 .. n PROVE HasRoom(W, values, schema, col, unl, col[n + 1], j)
  <2>1. ColumnOffset(schema, j) = col[j] /\ UnlinedOffset(values, schema, j) = unl[j]
    BY <1>5, <1>8, Zenon DEF AreColumns, AreUnlined
  <2> QED BY <1>7, <1>11, <1>13, <2>1, Zenon DEF HasRoom
<1>15. col[1] \in Nat /\ unl[n + 1] \in Nat /\ col[n + 1] <= unl[n + 1]
  <2>1. 1 \in 1 .. (n + 1) /\ n + 1 \in 1 .. (n + 1)
    OBVIOUS
  <2>2. unl[1] <= unl[n + 1] /\ unl[1] = col[n + 1]
    BY <1>9, <1>10, <2>1, Zenon DEF IsSums
  <2> QED BY <1>6, <1>9, <2>1, <2>2 DEF IsSums
<1>16. UnlinedOffset(values, schema, n + 1) = unl[n + 1]
  BY <1>8, Zenon DEF AreUnlined
<1> QED BY <1>7, <1>12, <1>14, <1>15, <1>16, Zenon

\* A tuple of plain values is laid out without overlaps and within its size,
\* and every column reads back.
LEMMA TupleRead ==
  ASSUME NEW V, Plain(V), NEW values \in Seq(V), NEW schema, schema = SchemaOf(values),
         NEW t, t = Tuple(values, schema)
  PROVE  /\ \A i \in DOMAIN values : GetValue(t, schema, i) = values[i]
         /\ \A k \in DOMAIN t.writes : t.writes[k].at + t.writes[k].len <= t.size
PROOF
<1>1. PICK n \in Nat :
        /\ n = Len(values) /\ Len(schema) = n
        /\ DOMAIN values = 1 .. n /\ \A j \in 1 .. n : schema[j] = values[j].type
  BY SchemaColumns
<1>2. ASSUME NEW j \in 1 .. n
      PROVE  /\ values[j].type \in TypeId /\ WellTyped(values[j]) /\ values[j] # NullOf(VARCHAR)
             /\ schema[j] = values[j].type
  <2>1. values[j] \in V
    BY <1>1
  <2> QED BY <1>1, <2>1 DEF Plain
<1>3. PICK col, unl, W :
        /\ AreWrites(W) /\ col[1] \in Nat /\ col[n + 1] \in Nat /\ unl[n + 1] \in Nat
        /\ col[n + 1] <= unl[n + 1] /\ UnlinedOffset(values, schema, n + 1) = unl[n + 1]
        /\ \A j \in 1 .. n : HasRoom(W, values, schema, col, unl, col[n + 1], j)
  <2>1. n = Len(schema)
    BY <1>1
  <2> QED BY <1>2, <2>1, Offsets, Zenon
<1>4. PICK L \in Nat : L = col[n + 1]
  BY <1>3
<1>5. \A j \in 1 .. n : HasRoom(W, values, schema, col, unl, L, j)
  BY <1>3, <1>4, Zenon
<1>9. PICK f : IsWrites(f, values, schema) /\ t.writes = f[n]
  BY <1>1, WritesExist, TupleWrites
<1>10. /\ f[0] = <<>>
       /\ \A i \in 0 .. (n - 1) : f[i + 1] = f[i] \o ColumnWrites(values, schema, i + 1)
  <2>1. \A i \in 0 .. n : f[i] = IF i = 0 THEN <<>> ELSE f[i - 1] \o ColumnWrites(values, schema, i)
    BY <1>1, <1>9, Zenon DEF IsWrites
  <2>2. f[0] = <<>>
    BY <2>1
  <2>3. ASSUME NEW i \in 0 .. (n - 1) PROVE f[i + 1] = f[i] \o ColumnWrites(values, schema, i + 1)
    <3>1. i + 1 \in 0 .. n /\ i + 1 # 0 /\ (i + 1) - 1 = i
      OBVIOUS
    <3> QED BY <2>1, <3>1, Zenon
  <2> QED BY <2>2, <2>3
<1> DEFINE P(i) == /\ Laid(W, f[i], col[i + 1], L, unl[i + 1])
                   /\ \A j \in 1 .. i : HasColumn(f[i], values, schema, col, unl, j)
<1>14. P(0)
  <2>1. col[0 + 1] = col[1] /\ unl[0 + 1] = unl[1]
    OBVIOUS
  <2>2. f[0] \in Seq(W) /\ DOMAIN f[0] = {} /\ 1 .. 0 = {}
    BY <1>10
  <2>3. Laid(W, f[0], col[0 + 1], L, unl[0 + 1])
    BY <2>2, Zenon DEF Laid, Fits, Disjoint
  <2> QED BY <2>2, <2>3, Zenon
<1>15. ASSUME NEW i \in 0 .. (n - 1), P(i) PROVE P(i + 1)
  <2>1. PICK k \in 1 .. n : k = i + 1 /\ k \in Nat
    OBVIOUS
  <2>2. f[k] = f[i] \o ColumnWrites(values, schema, k)
    BY <1>10, <2>1
  <2>5. Laid(W, f[i], col[k], L, unl[k])
    BY <1>15, <2>1
  <2>6. HasRoom(W, values, schema, col, unl, L, k)
    BY <1>5
  <2>7. /\ Laid(W, f[k], col[k + 1], L, unl[k + 1])
        /\ HasColumn(f[k], values, schema, col, unl, k) /\ \A u : Has(f[i], u) => Has(f[k], u)
    BY <1>3, <2>2, <2>5, <2>6, ColumnLaid, Zenon
  <2>8. ASSUME NEW j \in 1 .. i PROVE HasColumn(f[k], values, schema, col, unl, j)
    BY <1>15, <2>7, Zenon DEF HasColumn
  <2>9. \A j \in 1 .. k : j \in 1 .. i \/ j = k
    BY <2>1
  <2>10. \A j \in 1 .. k : HasColumn(f[k], values, schema, col, unl, j)
    BY <2>7, <2>8, <2>9, Zenon
  <2> QED BY <2>1, <2>7, <2>10, Zenon
<1>16. P(n)
  <2>1. PICK S : S = {i \in 0 .. n : P(i)}
    OBVIOUS
  <2>2. 0 \in S
    <3>1. 0 \in 0 .. n
      OBVIOUS
    <3> QED BY <1>14, <2>1, <3>1, Zenon
  <2>3. ASSUME NEW i \in 0 .. (n - 1), i \in S PROVE i + 1 \in S
    <3>1. i + 1 \in 0 .. n
      OBVIOUS
    <3>2. P(i)
      BY <2>1, <2>3, Zenon
    <3> QED BY <1>15, <2>1, <3>1, <3>2, Zenon
  <2>4. \A i \in 0 .. n : i \in S
    BY <2>2, <2>3, UpTo, Zenon
  <2>5. n \in 0 .. n
    OBVIOUS
  <2> QED BY <2>1, <2>4, <2>5, Zenon
<1>17. t.writes \in Seq(W) /\ Disjoint(t.writes) /\ Fits(t.writes, L, L, unl[n + 1])
  BY <1>4, <1>9, <1>16, Zenon DEF Laid
<1>18. ASSUME NEW i \in 1 .. n PROVE GetValue(t, schema, i) = values[i]
  <2>1. HasColumn(t.writes, values, schema, col, unl, i)
    BY <1>9, <1>16, Zenon
  <2>2. \A w : Has(t.writes, w) => ReadAt(t, w.at) = w.holds
    BY <1>3, <1>17, ReadBack, Zenon
  <2>3. \A at, v : Write(at, v).at = at /\ Write(at, v).holds = v
    BY DEF Write
  <2>4. \A at, off : WriteOffset(at, off).at = at /\ WriteOffset(at, off).holds.val = off
    BY DEF WriteOffset
  <2>6. ColumnOffset(schema, i) = col[i]
    BY <1>5, Zenon DEF HasRoom
  <2>5. ReadAt(t, GetDataPtr(t, schema, i)) = values[i]
    <3>1. CASE IsInlined(schema[i])
      <4>1. PICK w : w = Write(col[i], values[i]) /\ Has(t.writes, w)
        BY <2>1, <3>1, Zenon DEF HasColumn
      <4>2. ReadAt(t, col[i]) = values[i]
        <5>1. w.at = col[i] /\ w.holds = values[i]
          BY <2>3, <4>1, Zenon
        <5> QED BY <2>2, <4>1, <5>1, Zenon
      <4> QED BY <2>6, <3>1, <4>2, Zenon DEF GetDataPtr
    <3>2. CASE ~IsInlined(schema[i])
      <4>0. PICK w, x : /\ w = WriteOffset(col[i], unl[i]) /\ Has(t.writes, w)
                        /\ x = Write(unl[i], values[i]) /\ Has(t.writes, x)
        BY <2>1, <3>2, Zenon DEF HasColumn
      <4>1. ReadAt(t, unl[i]) = values[i]
        <5>1. x.at = unl[i] /\ x.holds = values[i]
          BY <2>3, <4>0, Zenon
        <5> QED BY <2>2, <4>0, <5>1, Zenon
      <4>2. ReadAt(t, col[i]).val = unl[i]
        <5>1. w.at = col[i] /\ w.holds.val = unl[i]
          BY <2>4, <4>0, Zenon
        <5>2. ReadAt(t, w.at) = w.holds
          BY <2>2, <4>0, Zenon
        <5> QED BY <5>1, <5>2, Zenon
      <4> QED BY <2>6, <3>2, <4>1, <4>2, Zenon DEF GetDataPtr
    <3> QED BY <3>1, <3>2
  <2> QED BY <1>2, <2>5, Zenon DEF GetValue
<1>19. ASSUME NEW k \in DOMAIN t.writes PROVE t.writes[k].at + t.writes[k].len <= t.size
  <2>1. t.size = unl[n + 1]
    <3>1. t.size = UnlinedOffset(values, schema, Len(schema) + 1)
      BY DEF Tuple
    <3> QED BY <1>1, <1>3, <3>1, Zenon
  <2>3. t.writes[k] \in W
    BY <1>17
  <2>4. PICK w \in W : w = t.writes[k]
    BY <2>3
  <2>5. w.at + w.len <= L \/ w.at + w.len <= unl[n + 1]
    BY <1>17, <2>4, Zenon DEF Fits
  <2>6. w.at \in Nat /\ w.len \in Nat
    BY <1>3 DEF AreWrites
  <2> QED BY <1>3, <1>4, <2>1, <2>4, <2>5, <2>6
<1> QED BY <1>1, <1>18, <1>19

\* No value compares less or greater than itself.
LEMMA SameCompares ==
  ASSUME NEW v, WellTyped(v), v.type \in TypeId, NEW op \in {"<", ">"}
  PROVE  Compare(op, v, v) # "CmpTrue"
PROOF
<1>1. ASSUME NEW x \in Int PROVE CmpBool(op, x, x) # "CmpTrue"
  BY DEF CmpBool
<1>2. CASE v.type \in NumericTypes
  <2>1. CASE IsNull(v)
    <3>1. \A c : CompareWith(op, v, v, c) = "CmpNull"
      BY <1>2, <2>1 DEF CompareWith, TinyintCompare, SmallintCompare, IntegerCompare, BigintCompare, DecimalCompare,
         CompareNumber, NumericTypes, IntTypes, TINYINT, SMALLINT, INTEGER, BIGINT, DECIMAL, BOOLEANT, VARCHAR
    <3> QED BY <3>1 DEF Compare
  <2>2. CASE ~IsNull(v)
    <3>1. \A c : CompareWith(op, v, v, c) = CmpBool(op, Compared(v, v), Compared(v, v))
      BY <1>2, <2>2, NumbersCompare, Zenon
    <3>2. Compared(v, v) \in Int
      BY <1>2, ComparedInOrder
    <3> QED BY <1>1, <3>1, <3>2 DEF Compare
  <2> QED BY <2>1, <2>2
<1>3. CASE v.type = BOOLEANT
  <2>1. CastAs(v, v.type) = v
    <3>1. BooleanCastAs(v, BOOLEANT) = v
      BY DEF BooleanCastAs, BOOLEANT, VARCHAR
    <3> QED BY <1>3, <3>1, CastAsOf, Zenon
  <2>2. CompareWith(op, v, v, v) = BooleanCompare(op, v, v, v)
    BY <1>3 DEF CompareWith, TINYINT, SMALLINT, INTEGER, BIGINT, DECIMAL, BOOLEANT, VARCHAR
  <2>3. v.val \in Int
    BY <1>3, TypeNames, Widths DEF WellTyped
  <2>4. BooleanCompare(op, v, v, v) # "CmpTrue"
    BY <1>1, <2>3 DEF BooleanCompare, CmpCast
  <2> QED BY <2>1, <2>2, <2>4 DEF Compare
<1>4. CASE v.type = VARCHAR
  <2>1. CastAs(v, v.type) = v
    BY <1>4, CastAsOf, TypeNames DEF VarlenCastAs
  <2>2. CompareWith(op, v, v, v) = VarlenCompare(op, v, v, v)
    BY <1>4 DEF CompareWith, TINYINT, SMALLINT, INTEGER, BIGINT, DECIMAL, BOOLEANT, VARCHAR
  <2>3. CompareStrings(v.val, v.val) = 0
    BY Zenon DEF CompareStrings
  <2>4. VarlenCompare(op, v, v, v) # "CmpTrue"
    BY <1>1, <2>3 DEF VarlenCompare
  <2> QED BY <2>1, <2>2, <2>4 DEF Compare
<1> QED BY <1>2, <1>3, <1>4, TypeNames

\* A key tuple of two columns is the tuple of the two values.
IsKey(kv, v, key, key_schema) ==
  DOMAIN kv = {1, 2} /\ kv[2] = v /\ key_schema = SchemaOf(kv) /\ key = Tuple(kv, key_schema)

\* Tuple::KeyFromTuple makes a tuple of the columns' values.
LEMMA KeyIsTuple ==
  ASSUME NEW V, NEW values \in Seq(V), NEW schema, schema = SchemaOf(values), NEW t,
         \A k \in DOMAIN values : GetValue(t, schema, k) = values[k],
         NEW i \in DOMAIN values, NEW j \in DOMAIN values,
         NEW key_schema, key_schema = CopySchema(schema, <<j, i>>),
         NEW key, key = KeyFromTuple(t, schema, key_schema, <<j, i>>)
  PROVE  \E kv \in Seq(V) : IsKey(kv, values[i], key, key_schema)
PROOF
<1>1. PICK attrs : attrs = <<j, i>>
  OBVIOUS
<1>2. DOMAIN attrs = {1, 2} /\ DOMAIN attrs = 1 .. 2 /\ attrs[1] = j /\ attrs[2] = i
  BY <1>1
<1>3. PICK kv : kv = [k \in DOMAIN attrs |-> values[attrs[k]]]
  OBVIOUS
<1>4. kv \in Seq(V)
  <2>1. \A k \in 1 .. 2 : values[attrs[k]] \in V
    BY <1>2
  <2>2. kv = [k \in 1 .. 2 |-> values[attrs[k]]]
    BY <1>2, <1>3
  <2>3. kv \in [1 .. 2 -> V]
    BY <2>1, <2>2
  <2>4. ASSUME NEW n \in Nat, NEW g \in [1 .. n -> V] PROVE g \in Seq(V)
    OBVIOUS
  <2>5. 2 \in Nat
    OBVIOUS
  <2> QED BY <2>3, <2>4, <2>5, Zenon
<1>5. DOMAIN kv = {1, 2} /\ kv[2] = values[i]
  BY <1>2, <1>3
<1>6. ASSUME NEW k \in DOMAIN attrs PROVE attrs[k] \in DOMAIN values /\ kv[k] = values[attrs[k]]
  BY <1>2, <1>3
<1>7. key_schema = SchemaOf(kv)
  <2>1. key_schema = [k \in DOMAIN attrs |-> schema[attrs[k]]]
    BY <1>1 DEF CopySchema
  <2>2. SchemaOf(kv) = [k \in DOMAIN attrs |-> kv[k].type]
    BY <1>3 DEF SchemaOf
  <2>3. ASSUME NEW k \in DOMAIN attrs PROVE schema[attrs[k]] = kv[k].type
    BY <1>6 DEF SchemaOf
  <2> QED BY <2>1, <2>2, <2>3, Zenon
<1>8. key = Tuple(kv, key_schema)
  <2>1. [k \in DOMAIN attrs |-> GetValue(t, schema, attrs[k])] = kv
    BY <1>3, <1>6, Zenon
  <2> QED BY <1>1, <2>1, Zenon DEF KeyFromTuple
<1> QED BY <1>4, <1>5, <1>7, <1>8, Zenon DEF IsKey

\* A key made of two columns of a tuple that reads back reads back, and equals
\* itself.
LEMMA KeyReads ==
  ASSUME NEW V, Plain(V), NEW values \in Seq(V), NEW schema, schema = SchemaOf(values), NEW t,
         \A k \in DOMAIN values : GetValue(t, schema, k) = values[k],
         NEW i \in DOMAIN values, NEW j \in DOMAIN values,
         NEW key_schema, key_schema = CopySchema(schema, <<j, i>>),
         NEW key, key = KeyFromTuple(t, schema, key_schema, <<j, i>>)
  PROVE  GetValue(key, key_schema, 2) = values[i] /\ CompareKeys(key, key, key_schema) = 0
PROOF
<1>1. PICK kv \in Seq(V) : IsKey(kv, values[i], key, key_schema)
  BY KeyIsTuple
<1>2. \A k \in DOMAIN kv : GetValue(key, key_schema, k) = kv[k]
  <2>1. key_schema = SchemaOf(kv) /\ key = Tuple(kv, key_schema)
    BY <1>1 DEF IsKey
  <2> QED BY <2>1, TupleRead
<1>3. GetValue(key, key_schema, 2) = values[i]
  BY <1>1, <1>2 DEF IsKey
<1>4. DOMAIN key_schema = DOMAIN kv
  BY <1>1 DEF SchemaOf, IsKey
<1>5. ASSUME NEW k \in DOMAIN key_schema, NEW op \in {"<", ">"}
      PROVE  Compare(op, GetValue(key, key_schema, k), GetValue(key, key_schema, k)) # "CmpTrue"
  <2>1. kv[k] \in V /\ GetValue(key, key_schema, k) = kv[k]
    BY <1>2, <1>4
  <2>2. Compare(op, kv[k], kv[k]) # "CmpTrue"
    BY <2>1, SameCompares DEF Plain
  <2> QED BY <2>1, <2>2
<1>6. CompareKeys(key, key, key_schema) = 0
  <2> DEFINE Differ(k, op) == Compare(op, GetValue(key, key_schema, k), GetValue(key, key_schema, k)) = "CmpTrue"
             unequal == {k \in DOMAIN key_schema : Differ(k, "<") \/ Differ(k, ">")}
  <2>1. CompareKeys(key, key, key_schema)
          = IF unequal = {} THEN 0
            ELSE IF Differ(CHOOSE k \in unequal : \A m \in unequal : k <= m, "<") THEN -1 ELSE 1
    BY Zenon DEF CompareKeys
  <2>2. unequal = {}
    BY <1>5
  <2> HIDE DEF unequal
  <2> QED BY <2>1, <2>2, Zenon
<1> QED BY <1>3, <1>6

\* TupleReadsBack, of every row that can be built.
THEOREM TuplesReadBack == Spec => []TupleReadsBack
PROOF
<1>1. ValuesInv => TupleReadsBack
  <2> SUFFICES ASSUME ValuesInv, \A i \in DOMAIN row : row[i] # NullOf(VARCHAR),
                      NEW schema, schema = SchemaOf(row), NEW t, t = Tuple(row, schema)
               PROVE  /\ \A i \in DOMAIN row : GetValue(t, schema, i) = row[i]
                      /\ \A k \in DOMAIN t.writes : t.writes[k].at + t.writes[k].len <= t.size
                      /\ \A i, j \in DOMAIN row :
                           LET key_schema == CopySchema(schema, <<j, i>>)
                               key == KeyFromTuple(t, schema, key_schema, <<j, i>>)
                           IN  /\ GetValue(key, key_schema, 2) = row[i]
                               /\ CompareKeys(key, key, key_schema) = 0
    BY ZenonT(90) DEF TupleReadsBack
  <2>1. PICK V : V = {v \in Stored : v # NullOf(VARCHAR)}
    OBVIOUS
  <2>2. Plain(V)
    BY <2>1, OperandsAssumption DEF Plain
  <2>3. row \in Seq(V)
    <3>1. row \in Seq(Stored) /\ DOMAIN row = 1 .. Len(row) /\ Len(row) \in Nat
      BY DEF ValuesInv
    <3>2. \A i \in DOMAIN row : row[i] \in V
      BY <2>1, <3>1
    <3> QED BY <3>1, <3>2
  <2>4. /\ \A i \in DOMAIN row : GetValue(t, schema, i) = row[i]
        /\ \A k \in DOMAIN t.writes : t.writes[k].at + t.writes[k].len <= t.size
    BY <2>2, <2>3, TupleRead, Zenon
  <2>5. ASSUME NEW i \in DOMAIN row, NEW j \in DOMAIN row, NEW key_schema, key_schema = CopySchema(schema, <<j, i>>),
               NEW key, key = KeyFromTuple(t, schema, key_schema, <<j, i>>)
        PROVE  GetValue(key, key_schema, 2) = row[i] /\ CompareKeys(key, key, key_schema) = 0
    BY <2>2, <2>3, <2>4, <2>5, KeyReads
  <2> QED BY <2>4, <2>5
<1> QED BY <1>1, ValuesAreTyped, PTL
=============================================================================
