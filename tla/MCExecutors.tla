---------------------------- MODULE MCExecutors -----------------------------
(* Small tables and one plan or two for every executor. *)
EXTENDS Executors

MCHalf == [t \in IntTypes |->
             CASE t = TINYINT -> 2 [] t = SMALLINT -> 4 [] t = INTEGER -> 16 [] t = BIGINT -> 32]

\* Doubles of four binary digits: INTEGERs are exact, BIGINTs beyond them are
\* rounded to an even number.
MCDouble ==
  LET Grain(u) == IF u <= 16 THEN 1 ELSE IF u <= 32 THEN 2 ELSE 4
      Nearest(u) ==
        LET g == Grain(u)
            q == u \div g
            r == 2 * (u % g)
        IN  (IF r < g \/ (r = g /\ q % 2 = 0) THEN q ELSE q + 1) * g
  IN  [u \in (-DblMax) .. DblMax |-> IF u < 0 THEN -Nearest(-u) ELSE Nearest(u)]

IntOf(n) == IntValue(INTEGER, n)
Null == NullOf(INTEGER)

\* L has a BIGINT key and an INTEGER, R two INTEGERs.  No rows, a key twice,
\* NULL as a key and as a value, and a sum beyond the INTEGERs.
LRow(k, v) == <<IntValue(BIGINT, k), IntOf(v)>>
LNullRow(v) == <<NullOf(BIGINT), IntOf(v)>>
MCLeft == {<<>>, <<LRow(1, 5), LRow(2, 6)>>, <<LRow(1, 5), LNullRow(7), LRow(1, 6)>>}
MCRight == {<<<<IntOf(1), IntOf(2)>>, <<IntOf(2), Null>>, <<IntOf(1), IntOf(2)>>>>,
            <<<<IntOf(2), IntOf(14)>>, <<IntOf(1), IntOf(-5)>>, <<IntOf(2), IntOf(3)>>>>}
MCRightNulls == <<<<Null, IntOf(1)>>, <<IntOf(2), IntOf(3)>>, <<Null, IntOf(1)>>>>
Tables(l, r) == ("L" :> l) @@ ("R" :> r)
MCContents ==
  {Tables(l, r) : l \in MCLeft, r \in MCRight}
  \cup {Tables(<<LRow(1, 5), LNullRow(7)>>, MCRightNulls), Tables(<<LRow(1, 5)>>, <<>>)}

Scan(cols, predicate) == SeqScanPlanNode(cols, predicate, "R")
AllOf(t) == SeqScanPlanNode(<<1, 2>>, Always, t)
ValueOver(n) == Comparison(Column(0, 2), ">", Constant(IntOf(n)))
KeyIs(n) == Comparison(Column(0, 1), "=", Constant(IntOf(n)))
Join(out) == HashJoinPlanNode(out, AllOf("L"), AllOf("R"), Column(0, 1), Column(0, 1))

MCQueries ==
  {Scan(<<2>>, ValueOver(1)),
   Scan(<<0, 0>>, Always),
   LimitPlanNode(AllOf("R"), 2),
   DistinctPlanNode(AllOf("R")),
   AggregationPlanNode(<<AggregateTerm(FALSE, 1), AggregateTerm(FALSE, 2), AggregateTerm(FALSE, 3)>>, AllOf("R"), Always,
                       <<>>, [i \in 1 .. 3 |-> Aggregate(<<"Count", "Min", "Max">>[i], Column(0, 2))]),
   AggregationPlanNode(<<AggregateTerm(TRUE, 1), AggregateTerm(FALSE, 1)>>, AllOf("R"),
                       Comparison(AggregateTerm(FALSE, 1), ">", Constant(IntOf(0))),
                       <<Column(0, 1)>>, <<Aggregate("Sum", Column(0, 2)), Aggregate("Count", Column(0, 2))>>),
   NestedLoopJoinPlanNode(<<Column(0, 2), Column(1, 2)>>, AllOf("L"), AllOf("R"),
                          Comparison(Column(0, 1), "=", Column(1, 1))),
   NestedLoopJoinPlanNode(<<Column(0, 2), Column(1, 1)>>, AllOf("L"), Scan(<<1, 2>>, ValueOver(1)), Always),
   Join(<<Column(0, 2), Column(1, 1), Column(1, 2)>>)}
MCModifications ==
  {InsertRawPlanNode(<<<<IntOf(2), Null>>, <<IntOf(1), IntOf(2)>>>>, "R"),
   InsertPlanNode(Scan(<<1, 2>>, ValueOver(1)), "C"),
   UpdatePlanNode(AllOf("R"), (2 :> UpdateInfo("Add", 2))),
   UpdatePlanNode(Scan(<<1, 2>>, ValueOver(1)), (1 :> UpdateInfo("Set", 1))),
   DeletePlanNode(Scan(<<1, 2>>, KeyIs(2)))}
MCPlans == MCQueries \cup MCModifications
MCIndexes == {<<"R", 1>>, <<"R", 2>>}

\* The join of the test, with the left key after another column.
MCKeyContents == {Tables(l, <<<<IntOf(1), IntOf(9)>>, <<IntOf(2), IntOf(8)>>>>) :
                    l \in {<<<<IntOf(1), IntOf(5)>>>>, <<<<IntOf(1), IntOf(5)>>, <<IntOf(2), IntOf(7)>>, <<IntOf(1), IntOf(6)>>>>}}
MCKeyPlans == {Join(<<Column(0, 2), Column(0, 1), Column(1, 1), Column(1, 2)>>)}
=============================================================================
