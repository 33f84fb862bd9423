----------------------------- MODULE TableHeap -----------------------------
(***************************************************************************)
(* TableHeap, TablePage and TableIterator (src/storage/table/table_heap.cpp,*)
(* src/storage/page/table_page.cpp, src/storage/table/table_iterator.cpp)   *)
(* with the table write sets that TransactionManager::Commit and Abort work *)
(* off (src/concurrency/transaction_manager.cpp).                           *)
(*                                                                         *)
(* A call works on one page at a time, under that page's latch: what it     *)
(* does to one page is one action.  enable_logging is off, as it is in the  *)
(* program, so the heap itself takes no locks: the transactions are the     *)
(* lock manager's, which touch no record that another one has written.      *)
(*                                                                         *)
(* Page ids and slot numbers count from 1, and 0 is INVALID_PAGE_ID.  The    *)
(* previous page id is left out: it is written and never read.              *)
(***************************************************************************)
EXTENDS Integers, Sequences, FiniteSets

CONSTANTS
  PAGE_SIZE, SIZE_TABLE_PAGE_HEADER, SIZE_TUPLE,
  Tuples,      \* the tuples that are stored: non-empty sequences of bytes
  Txns,
  MaxPages,    \* bound: the pool has no room for more pages of this table
  MaxWrites,   \* bound: calls of InsertTuple, MarkDelete and UpdateTuple
  Checked,     \* do clients look at a record, once it is theirs, before they change it?
  MayShrink    \* may an update make a tuple shorter?

ASSUME HeapAssumption ==
  /\ PAGE_SIZE \in Nat /\ SIZE_TABLE_PAGE_HEADER \in Nat /\ SIZE_TUPLE \in Nat
  /\ SIZE_TABLE_PAGE_HEADER <= PAGE_SIZE
  /\ \A tuple \in Tuples : tuple \in Seq(Nat \ {0}) /\ tuple # <<>>
  /\ MaxPages \in Nat \ {0} /\ MaxWrites \in Nat
  /\ Checked \in BOOLEAN /\ MayShrink \in BOOLEAN

VARIABLES
  pages,      \* the pages of the table, in the order they were created
  write_set,  \* the table write set of every transaction
  phase,      \* "run", "insert" (inside InsertTuple), "failed", "commit" or "abort"
  call,       \* the tuple an InsertTuple under way inserts and the page it has come to
  scan,       \* the iterator of one scan
  writes,     \* ghost: how many of the calls that MaxWrites bounds were made
  committed   \* ghost: the tuple every record id held when last committed

vars == <<pages, write_set, phase, call, scan, writes, committed>>

INVALID_PAGE_ID == 0
Offsets == 0 .. (PAGE_SIZE - 1)
NoTuple == <<>>
Rids == (1 .. MaxPages) \X (1 .. PAGE_SIZE)

NoCall == [tuple |-> NoTuple, page |-> INVALID_PAGE_ID]
NoScan == [at |-> "none", rid |-> <<0, 0>>, must |-> {}]

-----------------------------------------------------------------------------
(* TablePage.  Bytes of the free space are blanked after each operation:    *)
(* nothing reads them.                                                     *)

InitPage ==
  [next |-> INVALID_PAGE_ID, free_space_pointer |-> PAGE_SIZE,
   slots |-> <<>>, data |-> [o \in Offsets |-> 0]]

GetFreeSpaceRemaining(page) ==
  page.free_space_pointer - SIZE_TABLE_PAGE_HEADER - SIZE_TUPLE * Len(page.slots)

EmptySlot == [offset |-> 0, size |-> 0, marked |-> FALSE]
IsDeleted(slot) == slot.marked \/ slot.size = 0

memmove(data, dst, src, n) ==
  [o \in Offsets |-> IF o \in dst .. (dst + n - 1) THEN data[o - dst + src] ELSE data[o]]
memcpy(data, dst, bytes) ==
  [o \in Offsets |-> IF o \in dst .. (dst + Len(bytes) - 1) THEN bytes[o - dst + 1] ELSE data[o]]
Blanked(data, free) == [o \in Offsets |-> IF o < free THEN 0 ELSE data[o]]

HasRoom(page, tuple) == GetFreeSpaceRemaining(page) >= Len(tuple) + SIZE_TUPLE

\* The first empty slot, or a new one.
FreeSlot(page) ==
  CHOOSE i \in 1 .. (Len(page.slots) + 1) :
    /\ i <= Len(page.slots) => page.slots[i].size = 0
    /\ \A j \in 1 .. (i - 1) : page.slots[j].size # 0

InsertInPage(page, tuple) ==
  LET free == page.free_space_pointer - Len(tuple)
      i == FreeSlot(page)
      slot == [offset |-> free, size |-> Len(tuple), marked |-> FALSE]
  IN [page EXCEPT !.free_space_pointer = free,
                  !.data = memcpy(@, free, tuple),
                  !.slots = IF i > Len(@) THEN Append(@, slot) ELSE [@ EXCEPT ![i] = slot]]

MarkInPage(page, i) ==
  IF IsDeleted(page.slots[i]) THEN page ELSE [page EXCEPT !.slots[i].marked = TRUE]

CanUpdate(page, i, tuple) ==
  /\ ~ IsDeleted(page.slots[i])
  /\ GetFreeSpaceRemaining(page) + page.slots[i].size >= Len(tuple)

\* The tuples below the old one, and the new one, move by the difference.
UpdateInPage(page, i, tuple) ==
  LET old == page.slots[i]
      shift == old.size - Len(tuple)
      free == page.free_space_pointer
      moved == memmove(page.data, free + shift, free, old.offset - free)
  IN [page EXCEPT
       !.free_space_pointer = free + shift,
       !.data = Blanked(memcpy(moved, old.offset + shift, tuple), free + shift),
       !.slots = [j \in DOMAIN @ |->
         LET slot == IF j = i THEN [@[j] EXCEPT !.size = Len(tuple)] ELSE @[j]
         IN IF slot.size > 0 /\ slot.offset < old.offset + old.size
            THEN [slot EXCEPT !.offset = @ + shift] ELSE slot]]

\* Mutant: the offsets of the tuples that moved are not adjusted.
ApplyInPageKeepsOffsets(page, i) ==
  LET gone == page.slots[i]
      free == page.free_space_pointer
      moved == memmove(page.data, free + gone.size, free, gone.offset - free)
  IN [page EXCEPT
       !.free_space_pointer = free + gone.size,
       !.data = Blanked(moved, free + gone.size),
       !.slots = [@ EXCEPT ![i] = EmptySlot]]

ApplyInPage(page, i) ==
  LET gone == page.slots[i]
      free == page.free_space_pointer
      moved == memmove(page.data, free + gone.size, free, gone.offset - free)
  IN [page EXCEPT
       !.free_space_pointer = free + gone.size,
       !.data = Blanked(moved, free + gone.size),
       !.slots = [j \in DOMAIN @ |->
         LET slot == @[j]
         IN IF j = i THEN EmptySlot
            ELSE IF slot.size # 0 /\ slot.offset < gone.offset
                 THEN [slot EXCEPT !.offset = @ + gone.size] ELSE slot]]

RollbackInPage(page, i) == [page EXCEPT !.slots[i].marked = FALSE]

Bytes(page, i) ==
  [k \in 1 .. page.slots[i].size |-> page.data[page.slots[i].offset + k - 1]]

-----------------------------------------------------------------------------
(* Records of the table.                                                   *)

Exists(rid) == rid[1] \in 1 .. Len(pages) /\ rid[2] \in 1 .. Len(pages[rid[1]].slots)
Slot(rid) == pages[rid[1]].slots[rid[2]]
Live(rid) == Exists(rid) /\ ~ IsDeleted(Slot(rid))

\* TablePage::GetTuple.
GetTuple(rid) == IF Live(rid) THEN Bytes(pages[rid[1]], rid[2]) ELSE NoTuple

Written(t) == {write_set[t][i].rid : i \in 1 .. Len(write_set[t])}

Init ==
  /\ pages = <<InitPage>>
  /\ write_set = [t \in Txns |-> <<>>]
  /\ phase = [t \in Txns |-> "run"]
  /\ call = [t \in Txns |-> NoCall]
  /\ scan = NoScan
  /\ writes = 0
  /\ committed = [r \in Rids |-> NoTuple]

\* scan.must: what a running scan has to return yet.  A record that disappears is
\* no longer among it, and nothing is after BeginNextPage used a reused frame.
KeepMust == scan' = [scan EXCEPT !.must = {r \in @ : Live(r)'}]

SetPage(p, page) == pages' = [pages EXCEPT ![p] = page]

Record(t, rid, wtype, tuple) ==
  write_set' = [write_set EXCEPT ![t] =
    Append(@, [rid |-> rid, wtype |-> wtype, tuple |-> tuple])]

\* A transaction that runs and may make another call.
Running(t) == phase[t] = "run" /\ writes < MaxWrites

-----------------------------------------------------------------------------
(* InsertTuple: page after page until one has room.                         *)

InsertTuple(t, tuple) ==
  /\ Running(t)
  /\ IF Len(tuple) + SIZE_TABLE_PAGE_HEADER + SIZE_TUPLE > PAGE_SIZE
     THEN phase' = [phase EXCEPT ![t] = "failed"] /\ UNCHANGED call
     ELSE /\ phase' = [phase EXCEPT ![t] = "insert"]
          /\ call' = [call EXCEPT ![t] = [tuple |-> tuple, page |-> 1]]
  /\ writes' = writes + 1
  /\ UNCHANGED <<pages, write_set, scan, committed>>

InsertReturns(t, result) ==
  /\ phase' = [phase EXCEPT ![t] = result]
  /\ call' = [call EXCEPT ![t] = NoCall]

InsertHere(t) ==
  LET p == call[t].page
  IN /\ phase[t] = "insert" /\ HasRoom(pages[p], call[t].tuple)
     /\ SetPage(p, InsertInPage(pages[p], call[t].tuple))
     /\ Record(t, <<p, FreeSlot(pages[p])>>, "INSERT", NoTuple)
     /\ InsertReturns(t, "run")
     /\ KeepMust
     /\ UNCHANGED <<writes, committed>>

InsertGoOn(t) ==
  LET p == call[t].page
  IN /\ phase[t] = "insert" /\ ~ HasRoom(pages[p], call[t].tuple)
     /\ pages[p].next # INVALID_PAGE_ID
     /\ call' = [call EXCEPT ![t].page = pages[p].next]
     /\ UNCHANGED <<pages, write_set, phase, scan, writes, committed>>

\* The new page is latched before it is linked, and kept latched until the
\* tuple is in it: it is empty and takes every tuple.
InsertNewPage(t) ==
  LET p == call[t].page
      new == Len(pages) + 1
  IN /\ phase[t] = "insert" /\ ~ HasRoom(pages[p], call[t].tuple)
     /\ pages[p].next = INVALID_PAGE_ID
     /\ IF new > MaxPages
        THEN InsertReturns(t, "failed") /\ UNCHANGED <<pages, write_set>>
        ELSE /\ pages' = Append([pages EXCEPT ![p].next = new],
                                InsertInPage(InitPage, call[t].tuple))
             /\ Record(t, <<new, 1>>, "INSERT", NoTuple)
             /\ InsertReturns(t, "run")
     /\ UNCHANGED <<scan, writes, committed>>

-----------------------------------------------------------------------------
(* MarkDelete and UpdateTuple of a record the client found in a scan.       *)

MayTouch(t, rid) ==
  /\ Running(t)
  /\ Exists(rid)
  /\ \A u \in Txns \ {t} : rid \notin Written(u)
  /\ Checked => Live(rid)

\* The result of TablePage::MarkDelete is not looked at.
MarkDelete(t, rid) ==
  /\ MayTouch(t, rid)
  /\ SetPage(rid[1], MarkInPage(pages[rid[1]], rid[2]))
  /\ Record(t, rid, "DELETE", NoTuple)
  /\ writes' = writes + 1
  /\ KeepMust
  /\ UNCHANGED <<phase, call, committed>>

\* Without room, or without a tuple, UpdateTuple returns false and changes nothing.
UpdateTuple(t, rid, tuple) ==
  /\ MayTouch(t, rid)
  /\ MayShrink \/ Len(tuple) >= Slot(rid).size
  /\ CanUpdate(pages[rid[1]], rid[2], tuple)
  /\ SetPage(rid[1], UpdateInPage(pages[rid[1]], rid[2], tuple))
  /\ Record(t, rid, "UPDATE", GetTuple(rid))
  /\ writes' = writes + 1
  /\ UNCHANGED <<phase, call, scan, committed>>

-----------------------------------------------------------------------------
(* Commit and Abort work the write set off from its end.                    *)

\* What t makes of a record when it commits.
Outcome(t, rid) ==
  IF \E i \in 1 .. Len(write_set[t]) :
       write_set[t][i].rid = rid /\ write_set[t][i].wtype = "DELETE"
  THEN NoTuple ELSE GetTuple(rid)

Commit(t) ==
  /\ phase[t] = "run" /\ write_set[t] # <<>>
  /\ phase' = [phase EXCEPT ![t] = "commit"]
  /\ committed' = [r \in Rids |-> IF r \in Written(t) THEN Outcome(t, r) ELSE committed[r]]
  /\ UNCHANGED <<pages, write_set, call, scan, writes>>

Abort(t) ==
  /\ phase[t] \in {"run", "failed"}
  /\ phase[t] = "run" => write_set[t] # <<>>
  /\ phase' = [phase EXCEPT ![t] = "abort"]
  /\ UNCHANGED <<pages, write_set, call, scan, writes, committed>>

Last(t) == write_set[t][Len(write_set[t])]
PopBack(t) == write_set' = [write_set EXCEPT ![t] = SubSeq(@, 1, Len(@) - 1)]

CommitStep(t) ==
  LET item == Last(t)
  IN /\ phase[t] = "commit" /\ write_set[t] # <<>>
     /\ IF item.wtype = "DELETE"
        THEN SetPage(item.rid[1], ApplyInPage(pages[item.rid[1]], item.rid[2]))
        ELSE UNCHANGED pages
     /\ PopBack(t)
     /\ KeepMust
     /\ UNCHANGED <<phase, call, writes, committed>>

\* Mutant: an insertion is not undone.
RolledBackInsertStays(page, item) ==
  CASE item.wtype = "DELETE" -> RollbackInPage(page, item.rid[2])
    [] item.wtype = "INSERT" -> page
    [] OTHER -> IF CanUpdate(page, item.rid[2], item.tuple)
                THEN UpdateInPage(page, item.rid[2], item.tuple) ELSE page

\* Mutant: a deletion is performed instead of undone.
RolledBackDeletes(page, item) ==
  CASE item.wtype \in {"DELETE", "INSERT"} -> ApplyInPage(page, item.rid[2])
    [] OTHER -> IF CanUpdate(page, item.rid[2], item.tuple)
                THEN UpdateInPage(page, item.rid[2], item.tuple) ELSE page

\* The page after one write record was undone.
RolledBack(page, item) ==
  CASE item.wtype = "DELETE" -> RollbackInPage(page, item.rid[2])
    [] item.wtype = "INSERT" -> ApplyInPage(page, item.rid[2])
    [] OTHER -> IF CanUpdate(page, item.rid[2], item.tuple)
                THEN UpdateInPage(page, item.rid[2], item.tuple) ELSE page

AbortStep(t) ==
  LET item == Last(t)
  IN /\ phase[t] = "abort" /\ write_set[t] # <<>>
     /\ SetPage(item.rid[1], RolledBack(pages[item.rid[1]], item))
     /\ PopBack(t)
     /\ KeepMust
     /\ UNCHANGED <<phase, call, writes, committed>>

\* The client goes on with its next transaction.
Finish(t) ==
  /\ phase[t] \in {"commit", "abort"} /\ write_set[t] = <<>>
  /\ phase' = [phase EXCEPT ![t] = "run"]
  /\ UNCHANGED <<pages, write_set, call, scan, writes, committed>>

-----------------------------------------------------------------------------
(* A scan: TableHeap::Begin, then TableIterator::operator++ to the end.     *)

\* Mutant: the search for the next tuple skips one slot.
TuplesFromSkips(p, i) ==
  {j \in (IF i = 1 THEN 1 ELSE i + 1) .. Len(pages[p].slots) : ~ IsDeleted(pages[p].slots[j])}

\* The live slots of a page from slot i on.
TuplesFrom(p, i) == {j \in i .. Len(pages[p].slots) : ~ IsDeleted(pages[p].slots[j])}

\* The search takes the first live slot.
First(slots) == CHOOSE j \in slots : \A k \in slots : j <= k
On(p, slot) == [scan EXCEPT !.at = "on", !.rid = <<p, slot>>, !.must = @ \ {<<p, slot>>}]
AtEnd == [scan EXCEPT !.at = "end", !.rid = <<INVALID_PAGE_ID, 0>>]

ScanStep(s) == scan' = s /\ UNCHANGED <<pages, write_set, phase, call, writes, committed>>

Begin ==
  /\ scan.at = "none"
  /\ ScanStep([at |-> "first", rid |-> <<1, 0>>, must |-> {r \in Rids : Live(r)}])

\* Begin looks for the first tuple page by page.  The page is unlatched before
\* its next page id is read, and before the iterator's constructor reads the tuple.
BeginPage ==
  LET p == scan.rid[1]
      found == TuplesFrom(p, 1)
  IN /\ scan.at = "first"
     /\ ScanStep(IF found # {} THEN [scan EXCEPT !.at = "construct", !.rid = <<p, First(found)>>]
                 ELSE [scan EXCEPT !.at = "none first"])

FirstOn(next) ==
  IF next = INVALID_PAGE_ID THEN AtEnd ELSE [scan EXCEPT !.at = "first", !.rid = <<next, 0>>]

\* The page is unpinned, too, when its next page id is read.  The frame still
\* holds it, or the pool has given the frame to another page: then the id is any
\* that page may have there, and leads to any page of the table, to its end or
\* out of it.  Nothing is then asked of the scan any more.
BeginNextPage ==
  /\ scan.at = "none first"
  /\ \/ ScanStep(FirstOn(pages[scan.rid[1]].next))
     \/ \E next \in 0 .. Len(pages) : ScanStep([FirstOn(next) EXCEPT !.must = {}])
     \/ ScanStep([scan EXCEPT !.at = "astray", !.must = {}])

\* The iterator stays on the record although there may be no tuple any more.
Construct ==
  /\ scan.at = "construct"
  /\ ScanStep([scan EXCEPT !.at = "on", !.must = @ \ {scan.rid}])

\* operator++ after it searched page p from slot i: on a tuple, which it copies
\* before it unlatches the page, on the way to the next page, or at the end.
Searched(p, i) ==
  LET found == TuplesFrom(p, i)
      next == pages[p].next
  IN IF found # {} THEN On(p, First(found))
     ELSE IF next # INVALID_PAGE_ID THEN [scan EXCEPT !.at = "page", !.rid = <<next, 0>>]
     ELSE AtEnd

ScanNext == scan.at = "on" /\ ScanStep(Searched(scan.rid[1], scan.rid[2] + 1))
ScanPage == scan.at = "page" /\ ScanStep(Searched(scan.rid[1], 1))

\* The caller compares the iterator with End() and stops, sooner or later also
\* one that has left the table.
ScanEnd == scan.at \in {"end", "astray"} /\ ScanStep(NoScan)

-----------------------------------------------------------------------------
Next ==
  \/ \E t \in Txns :
       \/ \E tuple \in Tuples : InsertTuple(t, tuple)
       \/ InsertHere(t) \/ InsertGoOn(t) \/ InsertNewPage(t)
       \/ \E rid \in Rids : MarkDelete(t, rid) \/ \E tuple \in Tuples : UpdateTuple(t, rid, tuple)
       \/ Commit(t) \/ Abort(t) \/ CommitStep(t) \/ AbortStep(t) \/ Finish(t)
  \/ Begin \/ BeginPage \/ BeginNextPage \/ Construct
  \/ ScanNext \/ ScanPage \/ ScanEnd

Spec == Init /\ [][Next]_vars

-----------------------------------------------------------------------------
(* Properties.                                                             *)

\* The slotted page: the tuples of a page, marked ones included, lie side by
\* side between the free space pointer and the end of the page, none over
\* another, and the slot array ends before the free space pointer.
Layout ==
  \A p \in 1 .. Len(pages) :
    LET page == pages[p]
        used == {i \in 1 .. Len(page.slots) : page.slots[i].size > 0}
        Cells(i) == page.slots[i].offset .. (page.slots[i].offset + page.slots[i].size - 1)
    IN /\ GetFreeSpaceRemaining(page) >= 0
       /\ UNION {Cells(i) : i \in used} = page.free_space_pointer .. (PAGE_SIZE - 1)
       /\ \A i, j \in used : i # j => Cells(i) \cap Cells(j) = {}

\* A record that no unfinished transaction has written is what the last
\* transaction that committed it left: changes of other records of the page
\* do not disturb it, and Abort restores what it found.
CommittedView ==
  \A r \in Rids : (\A t \in Txns : r \notin Written(t)) => GetTuple(r) = committed[r]

\* ApplyDelete, by which Commit performs a deletion and Abort undoes an
\* insertion, finds the tuple there (the assertion of TablePage::ApplyDelete).
ApplyFindsTuple ==
  \A t \in {u \in Txns : write_set[u] # <<>>} :
    \/ phase[t] = "commit" /\ Last(t).wtype = "DELETE"
    \/ phase[t] = "abort" /\ Last(t).wtype = "INSERT"
    => Slot(Last(t).rid).size > 0

\* A scan returns every record that was there when it began and did not
\* disappear before it ended, whatever is inserted, moved or deleted meanwhile,
\* as long as Begin did not read a next page id from a frame that had been given
\* to another page (table_heap.cpp:183-187): such a scan may miss everything.
ScanSeesAll == scan.at = "end" => scan.must = {}
=============================================================================
