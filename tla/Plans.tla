------------------------------- MODULE Plans --------------------------------
(***************************************************************************)
(* Query plans: the expressions (src/include/execution/expressions) and    *)
(* the plan nodes (src/include/execution/plans).                           *)
(*                                                                         *)
(* A row is the sequence of its values.  The children of a plan node are   *)
(* sequential scans, as in the tests; a plan holds the table, the output   *)
(* columns and the predicate of its child under "scan", and those of the   *)
(* second child of a join under "right".                                   *)
(***************************************************************************)
EXTENDS Values

Column(t, c) == [kind |-> "column", tuple_idx |-> t, col_idx |-> c]
Constant(v) == [kind |-> "constant", val |-> v]
AggregateTerm(g, i) == [kind |-> "aggregate", is_group_by_term |-> g, term_idx |-> i]
Comparison(l, op, r) == [kind |-> "comparison", left |-> l, comp_type |-> op, right |-> r]

\* The predicate that an executor makes up when the plan has none.
Always == Constant(IntValue(BOOLEANT, 1))

PerformComparison(op, lhs, rhs) == GetBooleanValue(Compare(op, lhs, rhs))

\* Evaluate and EvaluateJoin; a comparison is between columns and constants.
ColumnValue(e, left, right) == IF e.tuple_idx = 0 THEN left[e.col_idx] ELSE right[e.col_idx]
Operand(e, left, right) == IF e.kind = "column" THEN ColumnValue(e, left, right) ELSE e.val
EvaluateJoin(e, left, right) ==
  IF e.kind = "comparison"
  THEN PerformComparison(e.comp_type, Operand(e.left, left, right), Operand(e.right, left, right))
  ELSE Operand(e, left, right)
Evaluate(e, row) == EvaluateJoin(e, row, row)

AggregateValue(e, group_bys, aggregates) ==
  CASE e.kind = "constant" -> e.val
    [] e.kind = "aggregate" -> IF e.is_group_by_term THEN group_bys[e.term_idx] ELSE aggregates[e.term_idx]
EvaluateAggregate(e, group_bys, aggregates) ==
  IF e.kind = "comparison"
  THEN PerformComparison(e.comp_type, AggregateValue(e.left, group_bys, aggregates),
                                      AggregateValue(e.right, group_bys, aggregates))
  ELSE AggregateValue(e, group_bys, aggregates)

\* GetAs<bool>(): the byte of a NULL is neither 0 nor 1, and a bool read from it
\* may be taken either way.
GetAsBool(v) == IF IsNull(v) THEN BOOLEAN ELSE {v.val = 1}

-----------------------------------------------------------------------------
(* The plan nodes.  An output column of a scan is the position in the table *)
(* of the column with its name, or 0 if there is none.                      *)

SeqScanPlanNode(output, predicate, table) ==
  [type |-> "SeqScan", scan |-> [cols |-> output, predicate |-> predicate, table |-> table]]
LimitPlanNode(child, limit) == [type |-> "Limit", scan |-> child.scan, limit |-> limit]
DistinctPlanNode(child) == [type |-> "Distinct", scan |-> child.scan]

Aggregate(type, expr) == [type |-> type, expr |-> expr]
AggregationPlanNode(output, child, having, group_bys, aggregates) ==
  [type |-> "Aggregation", scan |-> child.scan, out |-> output, having |-> having,
   group_bys |-> group_bys, aggregates |-> aggregates]

NestedLoopJoinPlanNode(output, left, right, predicate) ==
  [type |-> "NestedLoopJoin", scan |-> left.scan, right |-> right.scan, out |-> output, predicate |-> predicate]
HashJoinPlanNode(output, left, right, left_key, right_key) ==
  [type |-> "HashJoin", scan |-> left.scan, right |-> right.scan, out |-> output,
   left_key |-> left_key, right_key |-> right_key]

\* The two constructors of InsertPlanNode: with values, or with a child.
InsertRawPlanNode(raw_values, table) == [type |-> "RawInsert", raw_values |-> raw_values, table |-> table]
InsertPlanNode(child, table) == [type |-> "Insert", scan |-> child.scan, table |-> table]

\* UpdatePlanNode and DeletePlanNode change the table that the child scans.
UpdateInfo(type, update_val) == [type |-> type, update_val |-> update_val]
UpdatePlanNode(child, update_attrs) == [type |-> "Update", scan |-> child.scan, update_attrs |-> update_attrs]
DeletePlanNode(child) == [type |-> "Delete", scan |-> child.scan]

\* The children of a plan, and the tables that it names.
IsJoin(p) == p.type \in {"NestedLoopJoin", "HashJoin"}
GetChildren(p) == (IF p.type = "RawInsert" THEN {} ELSE {p.scan}) \cup (IF IsJoin(p) THEN {p.right} ELSE {})
TablesOf(p) == {s.table : s \in GetChildren(p)}
               \cup (IF p.type \in {"RawInsert", "Insert"} THEN {p.table} ELSE {})
=============================================================================
