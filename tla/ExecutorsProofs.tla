--------------------------- MODULE ExecutorsProofs ---------------------------
(***************************************************************************)
(* The indexes follow their tables, for all tables, indexes and plans.       *)
(*                                                                         *)
(* That is nearly inductive: what has to be added is that tables are         *)
(* sequences of slots, that an index is on a table that exists, and that the *)
(* plan under execution is one of Plans over tables that exist.             *)
(***************************************************************************)
EXTENDS Executors, TLAPS

\* A table is a sequence of slots.
IsTable(s) ==
  /\ s \in Seq({s[r] : r \in DOMAIN s})
  /\ \A r \in DOMAIN s : s[r] \in [row : {s[r].row}, marked : BOOLEAN]

TablesOK == \A t \in DOMAIN heap : IsTable(heap[t])
IndexesOK == \A i \in DOMAIN index : i \in Indexes /\ i[1] \in DOMAIN heap
PlanOK == status = "running" => plan \in Plans /\ TablesOf(plan) \subseteq DOMAIN heap

IndexInv == TablesOK /\ IndexesOK /\ PlanOK /\ IndexFollowsTable

\* A slot as the heap makes it for a new row.
LEMMA SlotShape ==
  ASSUME NEW row
  PROVE  /\ Slot(row).row = row /\ Slot(row).marked = FALSE
         /\ Slot(row) \in [row : {Slot(row).row}, marked : BOOLEAN]
BY DEF Slot

-----------------------------------------------------------------------------
(* Steps that touch neither the tables nor the indexes.                     *)

\* A step that changes neither tables nor indexes.
LEMMA QuietStep ==
  ASSUME IndexInv, UNCHANGED <<heap, index>>, PlanOK'
  PROVE  IndexInv'
BY DEF IndexInv, TablesOK, IndexesOK, IndexFollowsTable, EntriesOf, Live, RowAt

\* The plan does not change while a statement runs.
LEMMA SamePlan ==
  ASSUME IndexInv, DOMAIN heap \subseteq DOMAIN heap', plan' = plan,
         status' = status \/ status' # "running"
  PROVE  PlanOK'
BY DEF IndexInv, PlanOK, TablesOf, GetChildren, IsJoin

\* The record SeqScanExecutor returns is live.
LEMMA ScanFindsLive ==
  ASSUME NEW s, NEW cur, NEW nx \in ScanNext(s, cur), nx.rid # End
  PROVE  nx.rid \in Live(heap, s.table)
PROOF
<1> DEFINE keeps == [r \in {r \in Live(heap, s.table) : cur # End /\ r >= cur} |-> Keeps(s, r)]
<1>1. nx \in FirstKept(s.table, keeps) /\ DOMAIN keeps \subseteq Live(heap, s.table)
  BY DEF ScanNext
<1> HIDE DEF keeps
<1>2. nx.rid \in DOMAIN keeps \/ nx.rid = End
  <2>1. \/ \E r \in DOMAIN keeps : nx = [rid |-> r, cur |-> NextRid(s.table, r)]
        \/ nx = [rid |-> End, cur |-> End]
    BY <1>1 DEF FirstKept
  <2> QED BY <2>1
<1> QED BY <1>1, <1>2

-----------------------------------------------------------------------------
(* What a modification of one slot does to the entries of its table.        *)

\* A change to one table leaves the entries due for another table as they are.
LEMMA OtherTables ==
  ASSUME NEW t, NEW s, heap' = [heap EXCEPT ![t] = s], NEW u \in DOMAIN heap, u # t, NEW a
  PROVE  EntriesOf(heap', u, a) = EntriesOf(heap, u, a)
PROOF
<1>1. heap'[u] = heap[u]
  OBVIOUS
<1> QED BY <1>1 DEF EntriesOf, Live, RowAt

\* An index that is consistent before InsertEntry or DeleteEntry on table t is
\* consistent afterwards when the entries of t changed by the same entry.
LEMMA IndexesFollow ==
  ASSUME IndexInv, PlanOK', NEW t \in DOMAIN heap, NEW s, heap' = [heap EXCEPT ![t] = s], IsTable(s),
         DOMAIN index' = DOMAIN index,
         \A i \in DOMAIN index : i[1] # t => index'[i] = index[i],
         \A i \in DOMAIN index : i[1] = t => index'[i] = EntriesOf(heap', t, i[2])
  PROVE  IndexInv'
PROOF
<1>1. DOMAIN heap' = DOMAIN heap
  OBVIOUS
<1>2. TablesOK'
  BY DEF IndexInv, TablesOK
<1>3. IndexesOK'
  BY <1>1 DEF IndexInv, IndexesOK
<1>4. ASSUME NEW i \in DOMAIN index' PROVE index'[i] = EntriesOf(heap', i[1], i[2])
  <2>1. i \in DOMAIN index /\ i[1] \in DOMAIN heap /\ index[i] = EntriesOf(heap, i[1], i[2])
    BY DEF IndexInv, IndexesOK, IndexFollowsTable
  <2>2. CASE i[1] = t
    BY <2>1, <2>2
  <2>3. CASE i[1] # t
    BY <2>1, <2>3, OtherTables
  <2> QED BY <2>2, <2>3
<1>5. IndexFollowsTable'
  BY <1>4 DEF IndexFollowsTable
<1> QED BY <1>2, <1>3, <1>5 DEF IndexInv

\* A new row.
LEMMA AppendEntries ==
  ASSUME IndexInv, NEW t \in DOMAIN heap, NEW row,
         heap' = [heap EXCEPT ![t] = Append(heap[t], Slot(row))], NEW a
  PROVE  /\ IsTable(Append(heap[t], Slot(row)))
         /\ EntriesOf(heap', t, a) = EntriesOf(heap, t, a) \cup {<<row[a], Len(heap[t]) + 1>>}
PROOF
<1> DEFINE old == heap[t]
           new == Append(heap[t], Slot(row))
           n == Len(heap[t])
<1>1. IsTable(old) /\ heap'[t] = new
  BY DEF IndexInv, TablesOK
<1>2. n \in Nat /\ DOMAIN old = 1 .. n
  BY <1>1 DEF IsTable
<1>3. /\ DOMAIN new = 1 .. (n + 1) /\ new[n + 1] = Slot(row)
      /\ \A r \in 1 .. n : new[r] = old[r]
  BY <1>1, <1>2 DEF IsTable
<1>4. new \in Seq({new[r] : r \in DOMAIN new})
  <2> DEFINE S == {new[r] : r \in DOMAIN new}
  <2>1. Slot(row) \in S /\ \A r \in 1 .. n : old[r] \in S
    BY <1>2, <1>3
  <2>2. old \in Seq(S)
    <3> HIDE DEF S, new
    <3>1. \A x \in {old[r] : r \in DOMAIN old} : x \in S
      BY <1>2, <2>1
    <3> HIDE DEF old
    <3> QED BY <1>1, <1>2, <2>1, <3>1 DEF IsTable
  <2> QED BY <2>1, <2>2
<1> HIDE DEF old, new
<1>5. IsTable(new)
  <2>1. ASSUME NEW r \in DOMAIN new PROVE new[r] \in [row : {new[r].row}, marked : BOOLEAN]
    <3>1. CASE r = n + 1
      BY <1>3, <3>1, SlotShape, Zenon
    <3>2. CASE r # n + 1
      BY <1>1, <1>2, <1>3, <3>2 DEF IsTable
    <3> QED BY <3>1, <3>2
  <2> QED BY <1>4, <2>1 DEF IsTable
<1>6. Live(heap', t) = Live(heap, t) \cup {n + 1}
  BY <1>1, <1>2, <1>3 DEF Live, Slot, old
<1>7. \A r \in Live(heap, t) : RowAt(heap', t, r) = RowAt(heap, t, r)
  BY <1>1, <1>2, <1>3 DEF Live, RowAt, old
<1>8. RowAt(heap', t, n + 1) = row
  BY <1>1, <1>3 DEF RowAt, Slot
<1> QED BY <1>5, <1>6, <1>7, <1>8 DEF EntriesOf, new

\* The row goes into the heap, its keys into every index of the table.
LEMMA InsertStep ==
  ASSUME IndexInv, PlanOK', NEW t \in DOMAIN heap, NEW row, InsertRow(t, row)
  PROVE  IndexInv'
PROOF
<1> DEFINE rid == Len(heap[t]) + 1
<1>1. heap' = [heap EXCEPT ![t] = Append(heap[t], Slot(row))] /\ index' = InsertEntry(index, t, row, rid)
  BY DEF InsertRow
<1> HIDE DEF rid
<1>2. /\ IsTable(Append(heap[t], Slot(row)))
      /\ \A a : EntriesOf(heap', t, a) = EntriesOf(heap, t, a) \cup {<<row[a], rid>>}
  BY <1>1, AppendEntries DEF rid
<1>3. ASSUME NEW i \in DOMAIN index, i[1] = t PROVE index'[i] = EntriesOf(heap', t, i[2])
  <2>1. index'[i] = index[i] \cup {<<row[i[2]], rid>>}
    BY <1>1, <1>3 DEF InsertEntry, GetTableIndexes
  <2> QED BY <1>2, <1>3, <2>1 DEF IndexInv, IndexFollowsTable
<1>4. DOMAIN index' = DOMAIN index /\ \A i \in DOMAIN index : i[1] # t => index'[i] = index[i]
  BY <1>1 DEF InsertEntry, GetTableIndexes
<1> QED BY <1>1, <1>2, <1>3, <1>4, IndexesFollow

\* A live slot that changes: its row or its mark.
LEMMA SlotChanges ==
  ASSUME NEW old, IsTable(old), NEW rid \in DOMAIN old, NEW slot, slot.marked \in BOOLEAN,
         slot \in [row : {slot.row}, marked : BOOLEAN]
  PROVE  LET new == [old EXCEPT ![rid] = slot]
         IN  /\ IsTable(new) /\ DOMAIN new = DOMAIN old /\ new[rid] = slot
             /\ \A r \in DOMAIN old \ {rid} : new[r] = old[r]
PROOF
<1> DEFINE new == [old EXCEPT ![rid] = slot]
<1>1. DOMAIN old = 1 .. Len(old) /\ Len(old) \in Nat
  BY DEF IsTable
<1>2. DOMAIN new = DOMAIN old /\ new[rid] = slot /\ \A r \in DOMAIN old \ {rid} : new[r] = old[r]
  OBVIOUS
<1>3. new \in Seq({new[r] : r \in DOMAIN new})
  <2> DEFINE S == {new[r] : r \in DOMAIN new}
  <2>1. slot \in S /\ \A r \in DOMAIN old \ {rid} : old[r] \in S
    BY <1>2
  <2>2. \A r \in 1 .. Len(old) : new[r] \in S
    BY <1>1, <1>2
  <2>3. new = [r \in 1 .. Len(old) |-> new[r]]
    BY <1>1, <1>2
  <2> HIDE DEF S, new
  <2>4. new \in [1 .. Len(old) -> S]
    BY <2>2, <2>3
  <2> QED BY <1>1, <2>4
<1> HIDE DEF new
<1>4. IsTable(new)
  BY <1>2, <1>3 DEF IsTable
<1> QED BY <1>2, <1>4 DEF new

\* The key an executor takes from its child's row is the key of the stored row.
LEMMA KeyOfChild ==
  ASSUME PlanOK, status = "running", plan.type \in {"Update", "Delete"},
         NEW i \in Indexes, i[1] = plan.scan.table, NEW r
  PROVE  OutRow(plan.scan, r)[i[2]] = RowAt(heap, plan.scan.table, r)[i[2]]
PROOF
<1>1. i[2] \in DOMAIN OutSchemaIdx(plan.scan) /\ OutSchemaIdx(plan.scan)[i[2]] = i[2]
  BY PlansAssumption DEF PlanOK
<1> QED BY <1>1 DEF OutRow, Project

\* The scan under a running Update or Delete reads a table of the catalog.
LEMMA ChildTable ==
  ASSUME PlanOK, status = "running", plan.type \in {"Update", "Delete"}
  PROVE  plan.scan.table \in DOMAIN heap
BY DEF PlanOK, TablesOf, GetChildren

\* The live slot rid of table t changed, and nothing else.
SlotReplaced(t, rid, new) ==
  /\ t \in DOMAIN heap /\ rid \in Live(heap, t)
  /\ heap' = [heap EXCEPT ![t] = new]
  /\ DOMAIN new = DOMAIN heap[t]
  /\ \A r \in DOMAIN heap[t] \ {rid} : new[r] = heap[t][r]

OtherEntries(t, rid, a) == EntriesOf(heap, t, a) \ {<<RowAt(heap, t, rid)[a], rid>>}
NewEntries(t, rid, a, row) == OtherEntries(t, rid, a) \cup {<<row[a], rid>>}

\* The entries of a table in which a live slot changed.
LEMMA EntriesAfter ==
  ASSUME NEW t, NEW rid, NEW new, NEW a, SlotReplaced(t, rid, new)
  PROVE  /\ new[rid].marked = TRUE => EntriesOf(heap', t, a) = OtherEntries(t, rid, a)
         /\ new[rid].marked = FALSE => EntriesOf(heap', t, a) = NewEntries(t, rid, a, new[rid].row)
PROOF
<1>0. /\ t \in DOMAIN heap /\ rid \in Live(heap, t)
      /\ DOMAIN new = DOMAIN heap[t]
      /\ \A r \in DOMAIN heap[t] \ {rid} : new[r] = heap[t][r]
  BY DEF SlotReplaced
<1>1. heap'[t] = new
  BY DEF SlotReplaced
<1>2. Live(heap', t) = (Live(heap, t) \ {rid}) \cup (IF new[rid].marked THEN {} ELSE {rid})
  BY <1>0, <1>1 DEF Live
<1>3. \A r \in Live(heap, t) \ {rid} : RowAt(heap', t, r) = RowAt(heap, t, r)
  BY <1>0, <1>1 DEF Live, RowAt
<1>4. RowAt(heap', t, rid) = new[rid].row
  BY <1>1 DEF RowAt
<1> DEFINE E(h, r) == <<RowAt(h, t, r)[a], r>>
<1>5. EntriesOf(heap, t, a) = {E(heap, r) : r \in Live(heap, t)}
  BY DEF EntriesOf
<1>6. EntriesOf(heap', t, a) = {E(heap', r) : r \in Live(heap', t)}
  BY DEF EntriesOf
<1>7. \A r, q : E(heap, r) = E(heap, q) => r = q
  OBVIOUS
<1>8. /\ \A r \in Live(heap, t) \ {rid} : E(heap', r) = E(heap, r)
      /\ E(heap', rid) = <<new[rid].row[a], rid>>
  BY <1>3, <1>4
<1>9. E(heap, rid) = <<RowAt(heap, t, rid)[a], rid>>
  OBVIOUS
<1> HIDE DEF E
<1>10. CASE new[rid].marked = TRUE
  <2>1. EntriesOf(heap', t, a) = {E(heap', r) : r \in Live(heap, t) \ {rid}}
    BY <1>2, <1>6, <1>10
  <2>2. EntriesOf(heap', t, a) = {E(heap, r) : r \in Live(heap, t) \ {rid}}
    BY <1>8, <2>1
  <2>3. {E(heap, r) : r \in Live(heap, t) \ {rid}} = {E(heap, r) : r \in Live(heap, t)} \ {E(heap, rid)}
    BY <1>7
  <2> QED BY <1>5, <1>9, <1>10, <2>2, <2>3 DEF OtherEntries
<1>11. CASE new[rid].marked = FALSE
  <2>1. EntriesOf(heap', t, a) = {E(heap', r) : r \in Live(heap, t) \ {rid}} \cup {E(heap', rid)}
    BY <1>2, <1>6, <1>11
  <2>2. EntriesOf(heap', t, a) = {E(heap, r) : r \in Live(heap, t) \ {rid}} \cup {E(heap', rid)}
    BY <1>8, <2>1
  <2>3. {E(heap, r) : r \in Live(heap, t) \ {rid}} = {E(heap, r) : r \in Live(heap, t)} \ {E(heap, rid)}
    BY <1>7
  <2> QED BY <1>5, <1>8, <1>9, <1>11, <2>2, <2>3 DEF OtherEntries, NewEntries
<1> QED BY <1>10, <1>11

\* Next of UpdateExecutor: old keys out, new keys in, for the record the scan is
\* on.
LEMMA UpdateStep ==
  ASSUME IndexInv, PlanOK', UpdateNext
  PROVE  IndexInv'
PROOF
<1>0. PICK t : t = plan.scan.table
  OBVIOUS
<1>1. PICK nx \in ScanNext(plan.scan, scan.left) :
        LET row == OutRow(plan.scan, nx.rid)
            new == GenerateUpdatedTuple(plan.update_attrs, row)
        IN  \/ UNCHANGED <<heap, index>>
            \/ /\ nx.rid # End
               /\ heap' = [heap EXCEPT ![t][nx.rid].row = new]
               /\ index' = UpdateEntry(index, t, row, new, nx.rid)
  BY <1>0 DEF UpdateNext, Done, Stop, Refused
<1>2. CASE UNCHANGED <<heap, index>>
  BY <1>2, QuietStep
<1>3. CASE ~ UNCHANGED <<heap, index>>
  <2>r. PICK rid : rid = nx.rid
    OBVIOUS
  <2> DEFINE row == OutRow(plan.scan, rid)
             new == GenerateUpdatedTuple(plan.update_attrs, row)
             slot == [heap[t][rid] EXCEPT !.row = new]
  <2>0. PICK s : s = [heap[t] EXCEPT ![rid] = slot]
    OBVIOUS
  <2>1. t \in DOMAIN heap
    BY <1>0, ChildTable DEF IndexInv, UpdateNext, IsRunning
  <2>2. rid \in Live(heap, t)
    BY <1>0, <1>1, <1>3, <2>r, ScanFindsLive
  <2>3. IsTable(heap[t]) /\ rid \in DOMAIN heap[t] /\ ~ heap[t][rid].marked
        /\ heap[t][rid] \in [row : {heap[t][rid].row}, marked : BOOLEAN]
    BY <2>1, <2>2 DEF IndexInv, TablesOK, Live, IsTable
  <2>4. slot.row = new /\ slot.marked = FALSE /\ slot \in [row : {slot.row}, marked : BOOLEAN]
    BY <2>3
  <2>5. heap' = [heap EXCEPT ![t] = s] /\ index' = UpdateEntry(index, t, row, new, rid)
    BY <1>1, <1>3, <2>0, <2>r
  <2>6. \A i \in DOMAIN index : i[1] = t => row[i[2]] = RowAt(heap, t, rid)[i[2]]
    BY <1>0, KeyOfChild DEF IndexInv, IndexesOK, UpdateNext, IsRunning
  <2> HIDE DEF row, new, slot
  <2>7. /\ IsTable(s) /\ DOMAIN s = DOMAIN heap[t] /\ s[rid] = slot
        /\ \A r \in DOMAIN heap[t] \ {rid} : s[r] = heap[t][r]
    BY <2>0, <2>3, <2>4, SlotChanges
  <2>8. /\ DOMAIN index' = DOMAIN index
        /\ \A i \in DOMAIN index : i[1] # t => index'[i] = index[i]
        /\ \A i \in DOMAIN index : i[1] = t =>
             index'[i] = (index[i] \ {<<row[i[2]], rid>>}) \cup {<<new[i[2]], rid>>}
    BY <2>5 DEF UpdateEntry, InsertEntry, DeleteEntry, GetTableIndexes
  <2>9. ASSUME NEW i \in DOMAIN index, i[1] = t PROVE index'[i] = EntriesOf(heap', t, i[2])
    <3>1. s[rid].marked = FALSE /\ s[rid].row = new
      BY <2>4, <2>7
    <3>2. index[i] = EntriesOf(heap, t, i[2])
      BY <2>9 DEF IndexInv, IndexFollowsTable
    <3>3. EntriesOf(heap', t, i[2]) = NewEntries(t, rid, i[2], s[rid].row)
      <4>1. SlotReplaced(t, rid, s)
        BY <2>1, <2>2, <2>5, <2>7 DEF SlotReplaced
      <4> QED BY <3>1, <4>1, EntriesAfter, Zenon
    <3> QED BY <2>6, <2>8, <2>9, <3>1, <3>2, <3>3 DEF OtherEntries, NewEntries
  <2> QED BY <2>1, <2>5, <2>7, <2>8, <2>9, IndexesFollow
<1> QED BY <1>2, <1>3

\* Next of DeleteExecutor: the row is marked and its keys are taken out.
LEMMA DeleteStep ==
  ASSUME IndexInv, PlanOK', DeleteNext
  PROVE  IndexInv'
PROOF
<1>0. PICK t : t = plan.scan.table
  OBVIOUS
<1>1. PICK nx \in ScanNext(plan.scan, scan.left) :
        LET row == OutRow(plan.scan, nx.rid)
        IN  \/ UNCHANGED <<heap, index>>
            \/ /\ nx.rid # End
               /\ heap' = [heap EXCEPT ![t][nx.rid].marked = TRUE]
               /\ index' = DeleteEntry(index, t, row, nx.rid)
  BY <1>0 DEF DeleteNext, Done, Stop, Refused
<1>2. CASE UNCHANGED <<heap, index>>
  BY <1>2, QuietStep
<1>3. CASE ~ UNCHANGED <<heap, index>>
  <2>r. PICK rid : rid = nx.rid
    OBVIOUS
  <2> DEFINE row == OutRow(plan.scan, rid)
             slot == [heap[t][rid] EXCEPT !.marked = TRUE]
  <2>0. PICK s : s = [heap[t] EXCEPT ![rid] = slot]
    OBVIOUS
  <2>1. t \in DOMAIN heap
    BY <1>0, ChildTable DEF IndexInv, DeleteNext, IsRunning
  <2>2. rid \in Live(heap, t)
    BY <1>0, <1>1, <1>3, <2>r, ScanFindsLive
  <2>3. IsTable(heap[t]) /\ rid \in DOMAIN heap[t]
        /\ heap[t][rid] \in [row : {heap[t][rid].row}, marked : BOOLEAN]
    BY <2>1, <2>2 DEF IndexInv, TablesOK, Live, IsTable
  <2>4. slot.marked = TRUE /\ slot \in [row : {slot.row}, marked : BOOLEAN]
    BY <2>3
  <2>5. heap' = [heap EXCEPT ![t] = s] /\ index' = DeleteEntry(index, t, row, rid)
    BY <1>1, <1>3, <2>0, <2>r
  <2>6. \A i \in DOMAIN index : i[1] = t => row[i[2]] = RowAt(heap, t, rid)[i[2]]
    BY <1>0, KeyOfChild DEF IndexInv, IndexesOK, DeleteNext, IsRunning
  <2> HIDE DEF row, slot
  <2>7. /\ IsTable(s) /\ DOMAIN s = DOMAIN heap[t] /\ s[rid] = slot
        /\ \A r \in DOMAIN heap[t] \ {rid} : s[r] = heap[t][r]
    BY <2>0, <2>3, <2>4, SlotChanges
  <2>8. /\ DOMAIN index' = DOMAIN index
        /\ \A i \in DOMAIN index : i[1] # t => index'[i] = index[i]
        /\ \A i \in DOMAIN index : i[1] = t => index'[i] = index[i] \ {<<row[i[2]], rid>>}
    BY <2>5 DEF DeleteEntry, GetTableIndexes
  <2>9. ASSUME NEW i \in DOMAIN index, i[1] = t PROVE index'[i] = EntriesOf(heap', t, i[2])
    <3>1. s[rid].marked = TRUE
      BY <2>4, <2>7
    <3>2. index[i] = EntriesOf(heap, t, i[2])
      BY <2>9 DEF IndexInv, IndexFollowsTable
    <3>3. EntriesOf(heap', t, i[2]) = OtherEntries(t, rid, i[2])
      <4>1. SlotReplaced(t, rid, s)
        BY <2>1, <2>2, <2>5, <2>7 DEF SlotReplaced
      <4> QED BY <3>1, <4>1, EntriesAfter, Zenon
    <3> QED BY <2>6, <2>8, <2>9, <3>1, <3>2, <3>3 DEF OtherEntries
  <2> QED BY <2>1, <2>5, <2>7, <2>8, <2>9, IndexesFollow
<1> QED BY <1>2, <1>3

-----------------------------------------------------------------------------
(* The catalog, and the induction.                                         *)

\* A new table has no index.
LEMMA CreateTableStep ==
  ASSUME IndexInv, NEW t \in NewTables, CreateTable(t)
  PROVE  IndexInv'
PROOF
<1>1. /\ DOMAIN heap' = DOMAIN heap \cup {t} /\ heap'[t] = <<>>
      /\ \A u \in DOMAIN heap : heap'[u] = heap[u]
      /\ index' = index /\ status' = "idle"
  BY DEF CreateTable, Extend
<1>2. IsTable(<<>>)
  BY DEF IsTable
<1>3. TablesOK' /\ IndexesOK' /\ PlanOK'
  BY <1>1, <1>2 DEF IndexInv, TablesOK, IndexesOK, PlanOK
<1>4. ASSUME NEW i \in DOMAIN index PROVE EntriesOf(heap', i[1], i[2]) = EntriesOf(heap, i[1], i[2])
  <2>1. heap'[i[1]] = heap[i[1]]
    BY <1>1 DEF IndexInv, IndexesOK
  <2> QED BY <2>1 DEF EntriesOf, Live, RowAt
<1>5. IndexFollowsTable'
  BY <1>1, <1>4 DEF IndexInv, IndexFollowsTable
<1> QED BY <1>3, <1>5 DEF IndexInv

\* A new index is filled from the live rows.
LEMMA CreateIndexStep ==
  ASSUME IndexInv, NEW i \in Indexes, CreateIndex(i)
  PROVE  IndexInv'
PROOF
<1>1. /\ DOMAIN index' = DOMAIN index \cup {i} /\ index'[i] = EntriesOf(heap, i[1], i[2])
      /\ \A j \in DOMAIN index : j # i => index'[j] = index[j]
      /\ heap' = heap /\ status' = "idle" /\ i[1] \in DOMAIN heap
  BY DEF CreateIndex, Extend
<1>2. \A j : EntriesOf(heap', j[1], j[2]) = EntriesOf(heap, j[1], j[2])
  BY <1>1 DEF EntriesOf, Live, RowAt
<1>3. IndexFollowsTable'
  BY <1>1, <1>2 DEF IndexInv, IndexFollowsTable
<1>4. TablesOK' /\ IndexesOK' /\ PlanOK'
  BY <1>1 DEF IndexInv, TablesOK, IndexesOK, PlanOK
<1> QED BY <1>3, <1>4 DEF IndexInv

\* The indexes of the initial catalog, if any, follow its tables.
LEMMA IndexInit == Init => IndexInv
PROOF
<1> SUFFICES ASSUME Init PROVE IndexInv
  OBVIOUS
<1>1. DOMAIN index = {} /\ status # "running"
  BY DEF Init
<1>2. PICK c \in Contents : heap = [t \in DOMAIN c |-> [r \in DOMAIN c[t] |-> Slot(c[t][r])]]
  BY DEF Init
<1>3. ASSUME NEW t \in DOMAIN heap PROVE IsTable(heap[t])
  <2> DEFINE s == heap[t]
             n == Len(c[t])
  <2>1. t \in DOMAIN c /\ c[t] \in Seq({c[t][r] : r \in DOMAIN c[t]})
    BY <1>2, PlansAssumption
  <2>2. n \in Nat /\ DOMAIN c[t] = 1 .. n
    BY <2>1
  <2>3. DOMAIN s = 1 .. n /\ \A r \in 1 .. n : s[r] = Slot(c[t][r])
    BY <1>2, <2>1, <2>2
  <2>4. s = [r \in 1 .. n |-> s[r]]
    BY <1>2, <2>1, <2>2
  <2> HIDE DEF s, n
  <2>5. s \in Seq({s[r] : r \in DOMAIN s})
    <3> DEFINE S == {s[r] : r \in DOMAIN s}
    <3>1. \A r \in 1 .. n : s[r] \in S
      BY <2>3
    <3> HIDE DEF S
    <3>2. s \in [1 .. n -> S]
      BY <2>4, <3>1
    <3>3. s \in Seq(S)
      BY <2>2, <3>2
    <3> QED BY <3>3 DEF S
  <2>6. \A r \in DOMAIN s : s[r] \in [row : {s[r].row}, marked : BOOLEAN]
    <3> SUFFICES ASSUME NEW r \in DOMAIN s PROVE s[r] \in [row : {s[r].row}, marked : BOOLEAN]
      OBVIOUS
    <3>1. s[r] = Slot(c[t][r])
      BY <2>3
    <3> QED BY <3>1, SlotShape, Zenon
  <2>7. IsTable(s)
    BY <2>5, <2>6 DEF IsTable
  <2> QED BY <2>7 DEF s
<1> QED BY <1>1, <1>3 DEF IndexInv, TablesOK, IndexesOK, PlanOK, IndexFollowsTable

\* Every step preserves the invariant.
LEMMA IndexStep == IndexInv /\ [Next]_vars => IndexInv'
PROOF
<1> SUFFICES ASSUME IndexInv, [Next]_vars PROVE IndexInv'
  OBVIOUS
<1>1. ASSUME NEW p \in Plans, Execute(p) PROVE IndexInv'
  <2>1. PlanOK' /\ UNCHANGED <<heap, index>>
    BY <1>1 DEF Execute, PlanOK
  <2> QED BY <2>1, QuietStep
<1>2. CASE \/ SeqScanNext \/ LimitNext \/ DistinctNext \/ AggregationNext
           \/ NestedLoopJoinPair \/ NestedLoopJoinNextLeft \/ NestedLoopJoinEmpty
           \/ HashJoinProbe \/ HashJoinBuffered
  <2>1. UNCHANGED <<heap, index, plan>> /\ (status' = status \/ status' # "running")
    BY <1>2 DEF SeqScanNext, LimitNext, DistinctNext, AggregationNext, NestedLoopJoinPair,
         NestedLoopJoinNextLeft, NestedLoopJoinEmpty, HashJoinProbe, HashJoinBuffered,
         Done, Stop, Return, Continue
  <2>2. PlanOK'
    BY <2>1, SamePlan
  <2> QED BY <2>1, <2>2, QuietStep
<1>3. CASE RawInsertNext \/ InsertNext
  <2>1. plan.table \in DOMAIN heap
    BY <1>3 DEF RawInsertNext, InsertNext, IsRunning, IndexInv, PlanOK, TablesOf
  <2>2. \/ UNCHANGED <<heap, index>> /\ plan' = plan /\ status' # "running"
        \/ \E row : InsertRow(plan.table, row)
    BY <1>3 DEF RawInsertNext, InsertNext, Done, Stop, Refused
  <2>3. CASE UNCHANGED <<heap, index>> /\ plan' = plan /\ status' # "running"
    <3>1. PlanOK'
      BY <2>3, SamePlan
    <3> QED BY <2>3, <3>1, QuietStep
  <2>4. CASE \E row : InsertRow(plan.table, row)
    <3>1. PICK row : InsertRow(plan.table, row)
      BY <2>4
    <3>2. DOMAIN heap' = DOMAIN heap /\ plan' = plan /\ status' = status
      BY <3>1 DEF InsertRow, Modified
    <3>3. PlanOK'
      BY <3>2, SamePlan
    <3> QED BY <2>1, <3>1, <3>3, InsertStep
  <2> QED BY <2>2, <2>3, <2>4
<1>4. CASE UpdateNext \/ DeleteNext
  <2>1. DOMAIN heap' = DOMAIN heap /\ plan' = plan /\ (status' = status \/ status' # "running")
    BY <1>4 DEF UpdateNext, DeleteNext, Done, Stop, Refused, Modified
  <2>2. PlanOK'
    BY <2>1, SamePlan
  <2> QED BY <1>4, <2>2, UpdateStep, DeleteStep
<1>5. CASE UNCHANGED vars
  <2>1. PlanOK' /\ UNCHANGED <<heap, index>>
    BY <1>5 DEF vars, IndexInv, PlanOK
  <2> QED BY <2>1, QuietStep
<1> QED BY <1>1, <1>2, <1>3, <1>4, <1>5, CreateTableStep, CreateIndexStep DEF Next, ExecutorNext

\* Whatever tables, indexes and plans there are, as long as an update or delete
\* gets the key columns from its child: every index has exactly one entry for
\* every live row of its table, at every row of every statement.
THEOREM IndexesFollowTables == Spec => []IndexFollowsTable
PROOF
<1>1. IndexInv => IndexFollowsTable
  BY DEF IndexInv
<1> QED BY <1>1, IndexInit, IndexStep, PTL DEF Spec
=============================================================================
