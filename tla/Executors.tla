----------------------------- MODULE Executors ------------------------------
(***************************************************************************)
(* The query executors (src/execution), the engine that drives them        *)
(* (execution_engine.h), and the catalog's indexes (catalog.h) that the    *)
(* modifying ones keep.                                                    *)
(*                                                                         *)
(* One transaction runs statements one after the other.  Execute creates   *)
(* the executor of a plan (its constructor and Init); the engine then      *)
(* calls Next until it returns false.  The children of an executor are     *)
(* sequential scans; a scan holds the position its iterator has read       *)
(* ahead.  Joins, DISTINCT and aggregation take one step per iteration of  *)
(* their loop.  A row is the sequence of its values: how a row is stored   *)
(* is the subject of Tuples and TableHeap.                                 *)
(***************************************************************************)
EXTENDS Plans, FiniteSets, FiniteSetsExt, SequencesExt

CONSTANTS
  Contents,        \* the contents the tables may start with: functions from
                   \* table names to sequences of rows
  Plans,           \* the plans that may be executed
  NewTables,       \* the tables that CreateTable may add
  Indexes,         \* the indexes that CreateIndex may add: <<table, column>>
  MaxStatements    \* bound: statements of the transaction

VARIABLES
  heap,            \* table -> its slots, in the order of the record ids
  index,           \* the indexes created -> their entries <<key, record id>>
  plan,            \* the plan under execution
  scan,            \* "left", "right" -> the record id read ahead by the scan
  exec,            \* the fields of the executor
  tuple,           \* the engine's tuple, handed to every call of Next
  result_set,
  status,          \* "idle", "running", or how Execute ended
  before,          \* the heap when the statement started
  statements       \* how many statements were executed

vars == <<heap, index, plan, scan, exec, tuple, result_set, status, before, statements>>

-----------------------------------------------------------------------------
(* Tables and sequential scans. *)

End == 0
Slot(row) == [row |-> row, marked |-> FALSE]
Live(h, t) == {r \in DOMAIN h[t] : ~h[t][r].marked}
RowAt(h, t, r) == h[t][r].row

\* TableHeap::Begin and the iterator's ++: the next record that is not marked.
NextRid(t, r) ==
  LET later == {q \in Live(heap, t) : q > r} IN IF later = {} THEN End ELSE Min(later)
Begin(t) == NextRid(t, 0)

\* SeqScanExecutor's columns: those of the schema with the names of the output
\* columns (0 if there is none); a name that is not found leaves the ones found
\* before it and adds the columns by position.
OutSchemaIdx(s) ==
  IF \A i \in DOMAIN s.cols : s.cols[i] # 0 THEN s.cols
  ELSE LET missing == Min({i \in DOMAIN s.cols : s.cols[i] = 0})
       IN  SubSeq(s.cols, 1, missing - 1) \o [i \in DOMAIN s.cols |-> i]
Project(s, row) == [i \in DOMAIN OutSchemaIdx(s) |-> row[OutSchemaIdx(s)[i]]]
OutRow(s, r) == Project(s, RowAt(heap, s.table, r))

\* What the predicate's GetAs<bool> may be on a record.
Keeps(s, r) == GetAsBool(Evaluate(s.predicate, RowAt(heap, s.table, r)))

\* The first record that is kept (End if none) and the position after it, by
\* what the predicate may be on the records ahead.
FirstKept(t, keeps) ==
  LET Reaches(r) == \A q \in DOMAIN keeps : q < r => FALSE \in keeps[q]
      hits == {r \in DOMAIN keeps : TRUE \in keeps[r] /\ Reaches(r)}
  IN  {[rid |-> r, cur |-> NextRid(t, r)] : r \in hits}
      \cup (IF \A q \in DOMAIN keeps : FALSE \in keeps[q] THEN {[rid |-> End, cur |-> End]} ELSE {})

\* SeqScanExecutor::Next on the scan s read ahead to cur.
ScanNext(s, cur) ==
  FirstKept(s.table, [r \in {r \in Live(heap, s.table) : cur # End /\ r >= cur} |-> Keeps(s, r)])

\* All that a child may return until its Next returns false.
ChildRids(s) ==
  LET live == Live(heap, s.table)
  IN  {SetToSortSeq(S, <) : S \in {S \in SUBSET live : \A r \in live : (r \in S) \in Keeps(s, r)}}

\* UpdateExecutor and DeleteExecutor read the keys of the table's indexes from
\* their child's row, at the positions of the table's schema.  Bound: no INSERT
\* from the table it inserts into, whose scan reads the new rows and need not end.
ASSUME PlansAssumption ==
  /\ \A c \in Contents : \A t \in DOMAIN c : c[t] \in Seq({c[t][r] : r \in DOMAIN c[t]})
  /\ \A p \in Plans : p.type \in {"Update", "Delete"} =>
       \A i \in Indexes : i[1] = p.scan.table =>
         i[2] \in DOMAIN OutSchemaIdx(p.scan) /\ OutSchemaIdx(p.scan)[i[2]] = i[2]
  /\ \A p \in Plans : p.type = "Insert" => p.scan.table # p.table

-----------------------------------------------------------------------------
(* Hash tables of the executors. *)

\* HashJoinKey: the bucket is found by the hash, the entry by CompareEquals.
SameJoinKey(k1, k2) == HashValue(k1) = HashValue(k2) /\ Compare("=", k1, k2) = "CmpTrue"

\* The keys of DISTINCT and of aggregation.
SameKeys(k1, k2) ==
  \A i \in DOMAIN k1 : HashValue(k1[i]) = HashValue(k2[i]) /\ Compare("=", k1[i], k2[i]) = "CmpTrue"

\* One turn of the loop in HashJoinExecutor's constructor.
AddToJoinTable(table, key, row) ==
  LET same == {i \in DOMAIN table : SameJoinKey(table[i].key, key)}
  IN  IF same = {} THEN Append(table, [key |-> key, rows |-> <<row>>])
      ELSE [table EXCEPT ![Min(same)].rows = Append(@, row)]

\* SimpleAggregationHashTable.
InitialAggregate(type) ==
  CASE type \in {"Count", "Sum"} -> IntValue(INTEGER, 0)
    [] type = "Min" -> IntValue(INTEGER, MaxOf(INTEGER))
    [] type = "Max" -> IntValue(INTEGER, MinOf(INTEGER))
GenerateInitialAggregateValue(p) == [i \in DOMAIN p.aggregates |-> InitialAggregate(p.aggregates[i].type)]

CombineAggregate(type, result, input) ==
  CASE type = "Count" -> Arithmetic("Add", result, IntValue(INTEGER, 1))
    [] type = "Sum" -> Arithmetic("Add", result, input)
    [] type = "Min" -> ValueMin(result, input)
    [] type = "Max" -> ValueMax(result, input)
CombineAggregateValues(p, result, input) ==
  [i \in DOMAIN p.aggregates |-> CombineAggregate(p.aggregates[i].type, result[i], input[i])]

\* InsertCombine.  A key that does not equal itself (a NULL in it) is never found
\* again, and the aggregates of the entry that ht_[agg_key] makes are read past
\* their end (a plan has at least one aggregate).
Holding(groups, key) == {i \in DOMAIN groups : SameKeys(groups[i].key, key)}
WithGroup(p, groups, key) ==
  IF Holding(groups, key) # {} THEN groups
  ELSE Append(groups, [key |-> key, aggregates |-> GenerateInitialAggregateValue(p)])
StoreAggregates(groups, at, combined) ==
  IF \E i \in DOMAIN combined : Threw(combined[i]) THEN [groups |-> groups, outcome |-> "uncaught"]
  ELSE [groups |-> [groups EXCEPT ![at].aggregates = combined], outcome |-> "ok"]
CombineAt(p, groups, found, input) ==
  IF found = {} THEN [groups |-> groups, outcome |-> "crashed"]
  ELSE StoreAggregates(groups, Min(found), CombineAggregateValues(p, groups[Min(found)].aggregates, input))
InsertInto(p, groups, key, input) == CombineAt(p, groups, Holding(groups, key), input)
InsertCombine(p, aht, key, input) ==
  IF aht.outcome # "ok" THEN aht ELSE InsertInto(p, WithGroup(p, aht.groups, key), key, input)

-----------------------------------------------------------------------------
(* The catalog. *)

\* A map with one entry more.
Extend(f, x, y) == [z \in DOMAIN f \cup {x} |-> IF z = x THEN y ELSE f[z]]

\* The entries of an index on column attr made by reading the heap from its start.
EntriesOf(h, t, attr) == {<<RowAt(h, t, r)[attr], r>> : r \in Live(h, t)}

\* The transaction is between two statements, and the process is alive.
Idle == status \in {"idle", "true", "false"}

\* Catalog::CreateTable: a name that is taken is refused.
CreateTable(t) ==
  /\ Idle
  /\ t \notin DOMAIN heap
  /\ heap' = Extend(heap, t, <<>>)
  /\ status' = "idle"
  /\ UNCHANGED <<index, plan, scan, exec, tuple, result_set, before, statements>>

\* Catalog::CreateIndex: refused without the table, or if the index exists.
CreateIndex(i) ==
  /\ Idle
  /\ i[1] \in DOMAIN heap
  /\ i \notin DOMAIN index
  /\ index' = Extend(index, i, EntriesOf(heap, i[1], i[2]))
  /\ status' = "idle"
  /\ UNCHANGED <<heap, plan, scan, exec, tuple, result_set, before, statements>>

\* Catalog::GetTableIndexes.
GetTableIndexes(ix, t) == {i \in DOMAIN ix : i[1] = t}

\* ExtendibleHashTableIndex::InsertEntry and DeleteEntry on the indexes of t,
\* with the key that KeyFromTuple takes from the row.
InsertEntry(ix, t, row, rid) ==
  [i \in DOMAIN ix |-> IF i \in GetTableIndexes(ix, t) THEN ix[i] \cup {<<row[i[2]], rid>>} ELSE ix[i]]
DeleteEntry(ix, t, row, rid) ==
  [i \in DOMAIN ix |-> IF i \in GetTableIndexes(ix, t) THEN ix[i] \ {<<row[i[2]], rid>>} ELSE ix[i]]

-----------------------------------------------------------------------------
(* Constructors and Init. *)

Rows(s, rids) == [k \in DOMAIN rids |-> OutRow(s, rids[k])]
Starts(p) == [left |-> IF p.type = "RawInsert" THEN End ELSE Begin(p.scan.table),
              right |-> IF IsJoin(p) THEN Begin(p.right.table) ELSE End]
Running(p, fields) == [status |-> "running", exec |-> fields, scan |-> Starts(p)]

\* HashJoinExecutor::HashJoinExecutor reads the left child to its end.
CreateHashJoin(p) ==
  {Running(p, [hash_table |-> FoldLeft(LAMBDA table, row : AddToJoinTable(table, Evaluate(p.left_key, row), row),
                                       <<>>, Rows(p.scan, rids)),
               outer_table_buffer |-> <<>>, next_pos |-> 0]) : rids \in ChildRids(p.scan)}

\* AggregationExecutor::AggregationExecutor: without GROUP BY every row has one
\* and the same key, the initial aggregates.  Nothing catches what it throws.
AggregationKey(p, row) ==
  IF p.group_bys = <<>> THEN GenerateInitialAggregateValue(p)
  ELSE [i \in DOMAIN p.group_bys |-> Evaluate(p.group_bys[i], row)]
CreateAggregation(p) ==
  LET Input(row) == [i \in DOMAIN p.aggregates |-> Evaluate(p.aggregates[i].expr, row)]
      Built(rids) == FoldLeft(LAMBDA aht, row : InsertCombine(p, aht, AggregationKey(p, row), Input(row)),
                              [groups |-> <<>>, outcome |-> "ok"], Rows(p.scan, rids))
      Created(aht) == [Running(p, [groups |-> ToSet(aht.groups)])
                         EXCEPT !.status = IF aht.outcome = "ok" THEN @ ELSE aht.outcome]
  IN  {Created(Built(rids)) : rids \in ChildRids(p.scan)}

\* NestedLoopJoinExecutor::Init selects the first left row.
CreateNestedLoopJoin(p) ==
  {[Running(p, [is_left_selected |-> nx.rid # End, left |-> nx.rid]) EXCEPT !.scan.left = nx.cur] :
     nx \in ScanNext(p.scan, Begin(p.scan.table))}

\* ExecutorFactory::CreateExecutor and Init.
CreateExecutor(p) ==
  CASE p.type = "HashJoin" -> CreateHashJoin(p)
    [] p.type = "Aggregation" -> CreateAggregation(p)
    [] p.type = "NestedLoopJoin" -> CreateNestedLoopJoin(p)
    [] p.type = "Distinct" -> {Running(p, [hash_table |-> {}])}
    [] p.type = "Limit" -> {Running(p, [num_tuples |-> 0])}
    [] p.type \in {"RawInsert", "Insert"} -> {Running(p, [next_insert_pos |-> 0, stopped |-> FALSE])}
    [] p.type \in {"Update", "Delete"} -> {Running(p, [stopped |-> FALSE])}
    [] p.type = "SeqScan" -> {Running(p, [none |-> TRUE])}

\* ExecutionEngine::Execute up to its loop.
Execute(p) ==
  /\ Idle
  /\ statements < MaxStatements
  /\ TablesOf(p) \subseteq DOMAIN heap
  /\ \E start \in CreateExecutor(p) :
       exec' = start.exec /\ scan' = start.scan /\ status' = start.status
  /\ plan' = p
  /\ tuple' = <<>>
  /\ result_set' = <<>>
  /\ before' = heap
  /\ statements' = statements + 1
  /\ UNCHANGED <<heap, index>>

-----------------------------------------------------------------------------
(* Next of every executor, called by the engine's loop. *)

IsRunning(type) == status = "running" /\ plan.type = type

\* Next returned true: the engine keeps the row.
Return(row) ==
  /\ tuple' = row
  /\ result_set' = Append(result_set, row)
  /\ UNCHANGED <<heap, index, plan, status, before, statements>>

\* The loop inside Next goes on.
Continue == UNCHANGED <<heap, index, plan, result_set, status, before, statements>>

\* Next returned false, or threw an Exception: the engine returns.
Stop(result) ==
  /\ status' = result
  /\ UNCHANGED <<heap, index, plan, scan, tuple, result_set, before, statements>>
Done == Stop("true") /\ UNCHANGED exec

SeqScanNext ==
  /\ IsRunning("SeqScan")
  /\ \E nx \in ScanNext(plan.scan, scan.left) :
       IF nx.rid = End THEN Done
       ELSE /\ Return(OutRow(plan.scan, nx.rid))
            /\ scan' = [scan EXCEPT !.left = nx.cur]
            /\ UNCHANGED exec

LimitNext ==
  /\ IsRunning("Limit")
  /\ \E nx \in ScanNext(plan.scan, scan.left) :
       IF exec.num_tuples >= plan.limit \/ nx.rid = End THEN Done
       ELSE /\ Return(OutRow(plan.scan, nx.rid))
            /\ scan' = [scan EXCEPT !.left = nx.cur]
            /\ exec' = [exec EXCEPT !.num_tuples = @ + 1]

\* Mutant: a row that was seen is tried again.
DistinctNextStays ==
  /\ IsRunning("Distinct")
  /\ \E nx \in ScanNext(plan.scan, scan.left) :
       LET row == OutRow(plan.scan, nx.rid)
           seen == \E key \in exec.hash_table : SameKeys(key, row)
       IN  IF nx.rid = End THEN Done
           ELSE IF seen THEN Continue /\ tuple' = row /\ UNCHANGED <<scan, exec>>
           ELSE /\ Return(row)
                /\ scan' = [scan EXCEPT !.left = nx.cur]
                /\ exec' = [exec EXCEPT !.hash_table = @ \cup {row}]

\* One row of the child: returned unless its key is in the table.
DistinctNext ==
  /\ IsRunning("Distinct")
  /\ \E nx \in ScanNext(plan.scan, scan.left) :
       LET row == OutRow(plan.scan, nx.rid)
           seen == \E key \in exec.hash_table : SameKeys(key, row)
       IN  IF nx.rid = End THEN Done
           ELSE /\ scan' = [scan EXCEPT !.left = nx.cur]
                /\ IF seen THEN Continue /\ tuple' = row /\ UNCHANGED exec
                   ELSE Return(row) /\ exec' = [exec EXCEPT !.hash_table = @ \cup {row}]

\* One group, in the order of an unordered_map.
AggregationNext ==
  /\ IsRunning("Aggregation")
  /\ IF exec.groups = {} THEN Done
     ELSE \E group \in exec.groups :
            LET Output(e) == EvaluateAggregate(e, group.key, group.aggregates)
            IN  /\ exec' = [exec EXCEPT !.groups = @ \ {group}]
                /\ UNCHANGED scan
                /\ \/ TRUE \in GetAsBool(Output(plan.having)) /\ Return([i \in DOMAIN plan.out |-> Output(plan.out[i])])
                   \/ FALSE \in GetAsBool(Output(plan.having)) /\ Continue /\ UNCHANGED tuple

JoinRow(left, right) == [i \in DOMAIN plan.out |-> ColumnValue(plan.out[i], left, right)]

\* The right child has a row: it is paired with the left one.
NestedLoopJoinPair ==
  /\ IsRunning("NestedLoopJoin")
  /\ exec.is_left_selected
  /\ \E nx \in ScanNext(plan.right, scan.right) :
       LET left == OutRow(plan.scan, exec.left)
           right == OutRow(plan.right, nx.rid)
           keeps == GetAsBool(EvaluateJoin(plan.predicate, left, right))
       IN  /\ nx.rid # End
           /\ scan' = [scan EXCEPT !.right = nx.cur]
           /\ UNCHANGED exec
           /\ \/ TRUE \in keeps /\ Return(JoinRow(left, right))
              \/ FALSE \in keeps /\ Continue /\ UNCHANGED tuple

\* Mutant: the right child is not initialised again.
NestedLoopJoinNextLeftNoInit ==
  /\ IsRunning("NestedLoopJoin")
  /\ exec.is_left_selected
  /\ \E nx \in ScanNext(plan.right, scan.right) : nx.rid = End
  /\ \E nx \in ScanNext(plan.scan, scan.left) :
       IF nx.rid = End THEN Done
       ELSE /\ exec' = [exec EXCEPT !.left = nx.rid]
            /\ scan' = [scan EXCEPT !.left = nx.cur]
            /\ Continue
            /\ UNCHANGED tuple

\* The right child is at its end: the next left row, and the right child anew.
NestedLoopJoinNextLeft ==
  /\ IsRunning("NestedLoopJoin")
  /\ exec.is_left_selected
  /\ \E nx \in ScanNext(plan.right, scan.right) : nx.rid = End
  /\ \E nx \in ScanNext(plan.scan, scan.left) :
       IF nx.rid = End THEN Done
       ELSE /\ exec' = [exec EXCEPT !.left = nx.rid]
            /\ scan' = [left |-> nx.cur, right |-> Begin(plan.right.table)]
            /\ Continue
            /\ UNCHANGED tuple

NestedLoopJoinEmpty == IsRunning("NestedLoopJoin") /\ ~exec.is_left_selected /\ Done

\* HashJoinExecutor::Next with its buffer used up: one row of the right child,
\* read into the engine's tuple.
HashJoinProbe ==
  /\ IsRunning("HashJoin")
  /\ exec.next_pos >= Len(exec.outer_table_buffer)
  /\ \E nx \in ScanNext(plan.right, scan.right) :
       LET right == OutRow(plan.right, nx.rid)
           key == Evaluate(plan.right_key, right)
           same == {i \in DOMAIN exec.hash_table : SameJoinKey(exec.hash_table[i].key, key)}
           found == exec.hash_table[Min(same)].rows
       IN  IF nx.rid = End THEN Done
           ELSE /\ scan' = [scan EXCEPT !.right = nx.cur]
                /\ IF same = {} THEN Continue /\ tuple' = right /\ UNCHANGED exec
                   ELSE /\ exec' = [exec EXCEPT !.outer_table_buffer = found, !.next_pos = 1]
                        /\ Return(JoinRow(found[1], right))

\* With rows in the buffer the right columns are read from the engine's tuple,
\* which holds the row returned last.  Its columns and those of the right child
\* have one width, so that a column is found by its position.
HashJoinBuffered ==
  /\ IsRunning("HashJoin")
  /\ exec.next_pos < Len(exec.outer_table_buffer)
  /\ exec' = [exec EXCEPT !.next_pos = @ + 1]
  /\ Return(JoinRow(exec.outer_table_buffer[exec.next_pos + 1], tuple))
  /\ UNCHANGED scan

\* A modification that the heap refuses (no room, no frame) ends the statement:
\* Next returns false, and the engine returns true.
Refused == Stop("true") /\ exec' = [exec EXCEPT !.stopped = TRUE]

\* A modification that succeeds: the engine keeps no row.
Modified(row) ==
  /\ tuple' = row
  /\ UNCHANGED <<plan, result_set, status, before, statements>>

\* InsertTuple, then an entry in every index of the table.
InsertRow(t, row) ==
  /\ heap' = [heap EXCEPT ![t] = Append(@, Slot(row))]
  /\ index' = InsertEntry(index, t, row, Len(heap[t]) + 1)
  /\ Modified(row)

RawInsertNext ==
  /\ IsRunning("RawInsert")
  /\ IF exec.next_insert_pos = Len(plan.raw_values) THEN Done
     ELSE \/ /\ InsertRow(plan.table, plan.raw_values[exec.next_insert_pos + 1])
             /\ exec' = [exec EXCEPT !.next_insert_pos = @ + 1]
             /\ UNCHANGED scan
          \/ Refused

InsertNext ==
  /\ IsRunning("Insert")
  /\ \E nx \in ScanNext(plan.scan, scan.left) :
       IF nx.rid = End THEN Done
       ELSE \/ /\ InsertRow(plan.table, OutRow(plan.scan, nx.rid))
               /\ scan' = [scan EXCEPT !.left = nx.cur]
               /\ UNCHANGED exec
            \/ Refused

UpdatedValue(info, v) ==
  CASE info.type = "Add" -> Arithmetic("Add", v, IntValue(INTEGER, info.update_val))
    [] info.type = "Set" -> IntValue(INTEGER, info.update_val)
GenerateUpdatedTuple(update_attrs, row) ==
  [c \in DOMAIN row |-> IF c \in DOMAIN update_attrs THEN UpdatedValue(update_attrs[c], row[c]) ELSE row[c]]

\* Mutant: the entries under the old key stay.
UpdateEntryKeepsOld(ix, t, old, new, rid) == InsertEntry(ix, t, new, rid)

\* The entries under the old key go before the ones under the new key come.
UpdateEntry(ix, t, old, new, rid) == InsertEntry(DeleteEntry(ix, t, old, rid), t, new, rid)

UpdateNext ==
  /\ IsRunning("Update")
  /\ \E nx \in ScanNext(plan.scan, scan.left) :
       LET t == plan.scan.table
           row == OutRow(plan.scan, nx.rid)
           new == GenerateUpdatedTuple(plan.update_attrs, row)
           throws == \E c \in DOMAIN new : Threw(new[c])
       IN  \/ nx.rid = End /\ Done
           \/ nx.rid # End /\ throws /\ Stop("false") /\ UNCHANGED exec
           \/ /\ nx.rid # End /\ ~throws
              /\ heap' = [heap EXCEPT ![t][nx.rid].row = new]
              /\ index' = UpdateEntry(index, t, row, new, nx.rid)
              /\ Modified(row)
              /\ scan' = [scan EXCEPT !.left = nx.cur]
              /\ UNCHANGED exec
           \/ nx.rid # End /\ ~throws /\ Refused

DeleteNext ==
  /\ IsRunning("Delete")
  /\ \E nx \in ScanNext(plan.scan, scan.left) :
       LET t == plan.scan.table
           row == OutRow(plan.scan, nx.rid)
       IN  IF nx.rid = End THEN Done
           ELSE \/ /\ heap' = [heap EXCEPT ![t][nx.rid].marked = TRUE]
                   /\ index' = DeleteEntry(index, t, row, nx.rid)
                   /\ Modified(row)
                   /\ scan' = [scan EXCEPT !.left = nx.cur]
                   /\ UNCHANGED exec
                \/ Refused

-----------------------------------------------------------------------------
Init ==
  /\ heap \in {[t \in DOMAIN c |-> [r \in DOMAIN c[t] |-> Slot(c[t][r])]] : c \in Contents}
  /\ index = <<>>
  /\ plan = [type |-> "none"]
  /\ scan = [left |-> End, right |-> End]
  /\ exec = [none |-> TRUE]
  /\ tuple = <<>>
  /\ result_set = <<>>
  /\ status = "idle"
  /\ before = heap
  /\ statements = 0

ExecutorNext ==
  \/ SeqScanNext \/ LimitNext \/ DistinctNext \/ AggregationNext
  \/ NestedLoopJoinPair \/ NestedLoopJoinNextLeft \/ NestedLoopJoinEmpty
  \/ HashJoinProbe \/ HashJoinBuffered
  \/ RawInsertNext \/ InsertNext \/ UpdateNext \/ DeleteNext

Next ==
  \/ \E t \in NewTables : CreateTable(t)
  \/ \E i \in Indexes : CreateIndex(i)
  \/ \E p \in Plans : Execute(p)
  \/ ExecutorNext

\* The engine's loop runs on one thread and waits for nobody.
Spec == Init /\ [][Next]_vars /\ WF_vars(ExecutorNext)

-----------------------------------------------------------------------------
(* Reference: what the answer of a plan is, over the rows at its start. *)

\* SQL's reading of a predicate: "unknown" on a NULL, otherwise by the numbers.
Relates(op, x, y) ==
  CASE op = "=" -> x = y [] op = "#" -> x # y [] op = "<" -> x < y
    [] op = "<=" -> x <= y [] op = ">" -> x > y [] op = ">=" -> x >= y
TruthOf(op, v, w) ==
  CASE IsNull(v) \/ IsNull(w) -> "unknown"
    [] OTHER -> IF Relates(op, Number(v), Number(w)) THEN "true" ELSE "false"
Truth(e, left, right) ==
  IF e.kind = "comparison" THEN TruthOf(e.comp_type, Operand(e.left, left, right), Operand(e.right, left, right))
  ELSE "true"

\* The rows that a scan must return, and those it may.
Sure(s) == {r \in Live(before, s.table) : LET row == RowAt(before, s.table, r) IN Truth(s.predicate, row, row) = "true"}
Possible(s) == {r \in Live(before, s.table) : LET row == RowAt(before, s.table, r) IN Truth(s.predicate, row, row) # "false"}
Output(s, r) == Project(s, RowAt(before, s.table, r))
Ended == status \notin {"idle", "running"}
\* Keys, groups and aggregated expressions are columns of the one row.
ColumnOf(e, row) == Operand(e, row, row)
Count(row) == Cardinality({k \in DOMAIN result_set : result_set[k] = row})

\* The rows returned are those of a bag between two: items, with their row.
Between(sure, possible, RowOf(_)) ==
  /\ \A x \in sure : Count(RowOf(x)) >= Cardinality({y \in sure : RowOf(y) = RowOf(x)})
  /\ \A k \in DOMAIN result_set :
       Count(result_set[k]) <= Cardinality({y \in possible : RowOf(y) = result_set[k]})

SeqScanAnswer == Between(Sure(plan.scan), Possible(plan.scan), LAMBDA r : Output(plan.scan, r))

LimitAnswer ==
  /\ Between({}, Possible(plan.scan), LAMBDA r : Output(plan.scan, r))
  /\ Len(result_set) <= plan.limit
  /\ Len(result_set) >= Min({plan.limit, Cardinality(Sure(plan.scan))})

\* Every row once.  Exception: a row with a NULL equals no row, itself included,
\* and is not removed, although distinct_executor.h says that duplicates are.
DistinctAnswer ==
  LET HasNull(row) == \E c \in DOMAIN row : IsNull(row[c])
  IN  /\ Between({}, Possible(plan.scan), LAMBDA r : Output(plan.scan, r))
      /\ \A r \in Sure(plan.scan) : Count(Output(plan.scan, r)) >= 1
      /\ \A k \in DOMAIN result_set : HasNull(result_set[k]) \/ Count(result_set[k]) = 1

\* As the code has it, SUM, MIN and MAX over values that contain a NULL are NULL;
\* COUNT counts rows.
AggregateOf(type, bag) ==
  LET numbers == {bag[r].val : r \in DOMAIN bag}
  IN  CASE type = "Count" -> IntValue(INTEGER, Cardinality(DOMAIN bag))
        [] type # "Count" /\ (\E r \in DOMAIN bag : IsNull(bag[r])) -> NullOf(INTEGER)
        [] OTHER -> IntValue(INTEGER, CASE type = "Sum" -> MapThenSumSet(LAMBDA r : bag[r].val, DOMAIN bag)
                                        [] type = "Min" -> Min(numbers)
                                        [] type = "Max" -> Max(numbers))
\* One row for every group.  Exceptions: over a group key with a NULL the code
\* reads past the end of a vector, and the exception of a SUM that overflows in
\* the constructor leaves Execute, although execution_engine.h promises false.
AggregationAnswer ==
  LET Key(r) == [i \in DOMAIN plan.group_bys |-> ColumnOf(plan.group_bys[i], Output(plan.scan, r))]
      Keys == {Key(r) : r \in Sure(plan.scan)}
      Members(key) == {r \in Sure(plan.scan) : Key(r) = key}
      Bag(i, S) == [r \in S |-> ColumnOf(plan.aggregates[i].expr, Output(plan.scan, r))]
      Aggregates(key) == [i \in DOMAIN plan.aggregates |-> AggregateOf(plan.aggregates[i].type, Bag(i, Members(key)))]
      Side(e, key) == AggregateValue(e, key, Aggregates(key))
      Having(key) == IF plan.having.kind = "comparison"
                     THEN TruthOf(plan.having.comp_type, Side(plan.having.left, key), Side(plan.having.right, key))
                     ELSE "true"
      Row(key) == [i \in DOMAIN plan.out |-> Side(plan.out[i], key)]
      NullKey == \E key \in Keys, i \in DOMAIN plan.group_bys : IsNull(key[i])
      Overflow == \E key \in Keys : \E i \in DOMAIN plan.aggregates : \E S \in SUBSET Members(key) :
                    /\ plan.aggregates[i].type = "Sum"
                    /\ \A r \in S : ~IsNull(Bag(i, S)[r])
                    /\ MapThenSumSet(LAMBDA r : Bag(i, S)[r].val, S) \notin MinOf(INTEGER) .. MaxOf(INTEGER)
  IN  \/ NullKey \/ Overflow
      \/ status = "true" /\ Between({key \in Keys : Having(key) = "true"}, {key \in Keys : Having(key) # "false"}, Row)

\* The pairs of a join.  Exception: a hash join in which a right row meets two
\* left rows (JoinKeysEqual is about the rows it returns then).
JoinAnswer ==
  LET Meet(pair) == IF plan.type = "NestedLoopJoin"
                    THEN Truth(plan.predicate, Output(plan.scan, pair[1]), Output(plan.right, pair[2]))
                    ELSE TruthOf("=", ColumnOf(plan.left_key, Output(plan.scan, pair[1])),
                                      ColumnOf(plan.right_key, Output(plan.right, pair[2])))
      sure == {pair \in Sure(plan.scan) \X Sure(plan.right) : Meet(pair) = "true"}
      possible == {pair \in Possible(plan.scan) \X Possible(plan.right) :
                     \/ Meet(pair) = "true"
                     \/ Meet(pair) = "unknown" /\ plan.type = "NestedLoopJoin"}
      repeats == \E p1, p2 \in possible : p1[1] # p2[1] /\ p1[2] = p2[2]
  IN  \/ plan.type = "HashJoin" /\ repeats
      \/ Between(sure, possible, LAMBDA pair : JoinRow(Output(plan.scan, pair[1]), Output(plan.right, pair[2])))

\* The other tables keep their rows, and so do the slots before the new ones.
OnlyChanged(t) == \A u \in DOMAIN before : u # t => heap[u] = before[u]

InsertAnswer ==
  LET t == plan.table
      added == [k \in 1 .. Len(heap[t]) - Len(before[t]) |-> heap[t][Len(before[t]) + k].row]
      rows == {added[k] : k \in DOMAIN added}
      Added(row) == Cardinality({k \in DOMAIN added : added[k] = row})
      Children(S, row) == Cardinality({r \in S : Output(plan.scan, r) = row})
  IN  /\ OnlyChanged(t)
      /\ IsPrefix(before[t], heap[t])
      /\ IF plan.type = "RawInsert" THEN IsPrefix(added, plan.raw_values) /\ (exec.stopped \/ added = plan.raw_values)
         ELSE /\ \A row \in rows : Added(row) <= Children(Possible(plan.scan), row)
              /\ exec.stopped \/ \A r \in Sure(plan.scan) :
                   Added(Output(plan.scan, r)) >= Children(Sure(plan.scan), Output(plan.scan, r))

\* Every row is as it was or updated once; all of them, unless the statement
\* ended early: at a refusal, or at a row whose new value does not fit.
UpdateAnswer ==
  LET t == plan.scan.table
      Old(r) == RowAt(before, t, r)
      Value(c, v) == CASE plan.update_attrs[c].type = "Set" -> plan.update_attrs[c].update_val
                       [] plan.update_attrs[c].type = "Add" -> v.val + plan.update_attrs[c].update_val
      New(r) == [c \in DOMAIN Old(r) |->
                   IF c \notin DOMAIN plan.update_attrs THEN Old(r)[c]
                   ELSE IF plan.update_attrs[c].type = "Add" /\ IsNull(Old(r)[c]) THEN NullOf(INTEGER)
                   ELSE IntValue(INTEGER, Value(c, Old(r)[c]))]
      Fits(r) == \A c \in DOMAIN plan.update_attrs :
                   IsNull(Old(r)[c]) \/ Value(c, Old(r)[c]) \in MinOf(INTEGER) .. MaxOf(INTEGER)
      Changed(r) == Fits(r) /\ heap[t][r] = Slot(New(r))
      Kept(r) == heap[t][r] = before[t][r]
  IN  /\ OnlyChanged(t)
      /\ DOMAIN heap[t] = DOMAIN before[t]
      /\ \A r \in DOMAIN heap[t] : Kept(r) \/ (Changed(r) /\ r \in Possible(plan.scan))
      /\ status = "true" => exec.stopped \/ \A r \in Sure(plan.scan) : Changed(r)
      /\ status = "false" => \E r \in Possible(plan.scan) : ~Fits(r)

DeleteAnswer ==
  LET t == plan.scan.table
      gone == Live(before, t) \ Live(heap, t)
  IN  /\ OnlyChanged(t)
      /\ DOMAIN heap[t] = DOMAIN before[t]
      /\ \A r \in DOMAIN heap[t] : RowAt(heap, t, r) = RowAt(before, t, r)
      /\ Live(heap, t) \subseteq Live(before, t)
      /\ gone \subseteq Possible(plan.scan)
      /\ exec.stopped \/ Sure(plan.scan) \subseteq gone

(***************************************************************************)
(* A plan answers its query: when Execute returns, the rows it returned,   *)
(* or the rows it left in the tables, are the ones that the plan's meaning *)
(* over the tables at its start gives, each as often as it should be, and  *)
(* it returned true, or false if a row cannot be updated.  Where a         *)
(* predicate compares a NULL either outcome is allowed, since the code     *)
(* reads a bool from the NULL's byte.  Where the code departs from what    *)
(* its headers promise, less is asked: of a modification that the table    *)
(* refuses half-way, which returns true (execution_engine.h:49 promises    *)
(* false), only that no row is left half changed; of DISTINCT,             *)
(* aggregation and the hash join see the exceptions above.  Every          *)
(* executor's Next, and the constructors of the joins and of aggregation,  *)
(* are behind it.                                                          *)
(***************************************************************************)
QueryAnswer ==
  Ended =>
    /\ plan.type \notin {"Aggregation", "Update"} => status = "true"
    /\ CASE plan.type = "SeqScan" -> SeqScanAnswer
         [] plan.type = "Limit" -> LimitAnswer
         [] plan.type = "Distinct" -> DistinctAnswer
         [] plan.type = "Aggregation" -> AggregationAnswer
         [] plan.type \in {"NestedLoopJoin", "HashJoin"} -> JoinAnswer
         [] plan.type \in {"RawInsert", "Insert"} -> InsertAnswer
         [] plan.type = "Update" -> UpdateAnswer
         [] plan.type = "Delete" -> DeleteAnswer

(***************************************************************************)
(* Every index holds one entry for every live row of its table, under the  *)
(* row's key, and no other entry: after CreateIndex over a table with      *)
(* deleted rows, between the rows of a modification, and after one that    *)
(* ended early or threw (the loops over index_info_array_).                *)
(***************************************************************************)
IndexFollowsTable == \A i \in DOMAIN index : index[i] = EntriesOf(heap, i[1], i[2])

(***************************************************************************)
(* Execute returns: the loops in Next (the rescans of a nested loop join,  *)
(* the rows that DISTINCT or a hash join skips, the scan under an UPDATE   *)
(* or DELETE of the scanned table) all come to their end.  It is not       *)
(* claimed of an INSERT from the table it inserts into, which              *)
(* PlansAssumption leaves out: its child goes on to the rows that          *)
(* InsertExecutor::Next has inserted, and need not come to an end.         *)
(***************************************************************************)
Terminates == (status = "running") ~> (status # "running")

(***************************************************************************)
(* Join keys are equivalent in every row of a hash join, as the test of    *)
(* the executor asserts (executor_test.cpp).  It is refuted: see           *)
(* HashJoinBuffered.                                                       *)
(***************************************************************************)
JoinKeysEqual ==
  plan.type = "HashJoin" =>
    LET at(e) == CHOOSE i \in DOMAIN plan.out : plan.out[i] = e
        left == at(Column(0, plan.left_key.col_idx))
        right == at(Column(1, plan.right_key.col_idx))
    IN  \A k \in DOMAIN result_set : TruthOf("=", result_set[k][left], result_set[k][right]) = "true"
=============================================================================
