----------------------------- MODULE MCValueOps -----------------------------
(* Small widths and boundary literals for ValueOps. *)
EXTENDS ValueOps

MCHalf == [t \in IntTypes |->
             CASE t = TINYINT -> 4 [] t = SMALLINT -> 8 [] t = INTEGER -> 64 [] t = BIGINT -> 128]

\* Doubles of six binary digits in units of a half: whole numbers up to 64 are
\* exact, from there to 128 every second one is; ties go to the even neighbour.
MCDouble ==
  LET Grain(u) == IF u <= 64 THEN 1 ELSE IF u <= 128 THEN 2 ELSE IF u <= 256 THEN 4 ELSE 8
      Nearest(u) ==
        LET g == Grain(u)
            q == u \div g
            r == 2 * (u % g)
        IN  (IF r < g \/ (r = g /\ q % 2 = 0) THEN q ELSE q + 1) * g
  IN  [u \in (-DblMax) .. DblMax |-> IF u < 0 THEN -Nearest(-u) ELSE Nearest(u)]

\* The limits, zero and NULL of every type, small numbers of both signs, a
\* decimal with a fraction, the number 2^63 as a double, a BIGINT that is no
\* double with the double next to it, and texts.
MCLiterals ==
  {GetMinValue(t) : t \in TypeId} \cup {GetMaxValue(t) : t \in TypeId \ {DECIMAL}}
  \cup {GetZeroValueByType(t) : t \in TypeId} \cup {GetNullValueByType(t) : t \in TypeId}
  \cup {IntValue(t, n) : t \in IntTypes, n \in {-2, -1, 2}}
  \cup {DecimalValue(3), DecimalValue(Half[BIGINT] * Scale), IntValue(BIGINT, 65), DecimalValue(128)}
  \cup {VarcharValue(s) : s \in {Text("apple"), Text("true"), Numeral(TRUE, 64, -1), Numeral(FALSE, 6, -1)}}

\* One value of every type, NULL as well for two of them, and texts.
MCStored ==
  {GetMaxValue(t) : t \in TypeId} \cup {GetNullValueByType(SMALLINT)}
  \cup {VarcharValue(s) : s \in {Text("apple"), Numeral(TRUE, 64, -1)}}
=============================================================================
