--------------------------- MODULE TableHeapProofs ---------------------------
(***************************************************************************)
(* Proofs about TableHeap: the layout of the slotted pages, the tuples that  *)
(* Commit and Abort find, what a scan sees, and what is committed, for every *)
(* size of a page, every set of tuples and any number of transactions and    *)
(* pages.                                                                   *)
(***************************************************************************)
EXTENDS TableHeap, SequenceTheorems, WellFoundedInduction, TLAPS

SlotType == [offset : 0 .. PAGE_SIZE, size : Nat, marked : BOOLEAN]
PageType == [next : Nat, free_space_pointer : Nat, slots : Seq(SlotType),
             data : [Offsets -> Nat]]
Item == [rid : Nat \X Nat, wtype : {"INSERT", "UPDATE", "DELETE"}, tuple : Seq(Nat)]
Phases == {"run", "insert", "failed", "commit", "abort"}

-----------------------------------------------------------------------------
(***************************************************************************)
(* The layout of a page, slot by slot: a slot with a tuple lies between the  *)
(* free space pointer and the end of the page, two of them side by side, and *)
(* every byte there belongs to one of them.                                 *)
(***************************************************************************)
Used(page) == {i \in 1 .. Len(page.slots) : page.slots[i].size > 0}
Start(page, i) == page.slots[i].offset
End(page, i) == page.slots[i].offset + page.slots[i].size

Inside(page) ==
  \A i \in Used(page) : page.free_space_pointer <= Start(page, i) /\ End(page, i) <= PAGE_SIZE
Apart(page) ==
  \A i, j \in Used(page) : i # j => End(page, i) <= Start(page, j) \/ End(page, j) <= Start(page, i)
Covered(page) ==
  \A o \in page.free_space_pointer .. (PAGE_SIZE - 1) :
    \E i \in Used(page) : Start(page, i) <= o /\ o < End(page, i)

PageOK(page) ==
  /\ page \in PageType /\ page.free_space_pointer <= PAGE_SIZE
  /\ GetFreeSpaceRemaining(page) >= 0
  /\ Inside(page) /\ Apart(page) /\ Covered(page)

\* The pages are chained in the order they were created.
Chained == \A p \in 1 .. Len(pages) : pages[p].next = IF p = Len(pages) THEN INVALID_PAGE_ID ELSE p + 1

\* An InsertTuple under way is on a page of the table.
CallOK(t) ==
  phase[t] = "insert" =>
    /\ call[t].page \in 1 .. Len(pages) /\ call[t].tuple # <<>>
    /\ Len(call[t].tuple) + SIZE_TABLE_PAGE_HEADER + SIZE_TUPLE <= PAGE_SIZE

\* Write records name slots of the table.
ItemsOK(t) ==
  \A i \in 1 .. Len(write_set[t]) :
    /\ Exists(write_set[t][i].rid)
    /\ write_set[t][i].wtype = "UPDATE" => write_set[t][i].tuple # <<>>

PagesInv ==
  /\ pages \in Seq(PageType) /\ Len(pages) > 0
  /\ \A p \in 1 .. Len(pages) : PageOK(pages[p])
  /\ Chained

HeapInv ==
  /\ PagesInv
  /\ phase \in [Txns -> Phases]
  /\ call \in [Txns -> [tuple : Seq(Nat), page : Nat]]
  /\ write_set \in [Txns -> Seq(Item)]
  /\ \A t \in Txns : CallOK(t) /\ ItemsOK(t)

-----------------------------------------------------------------------------
(***************************************************************************)
(* The records a transaction answers for: what it wrote, and once it commits *)
(* what it has still to delete.  They have a tuple, and no two transactions  *)
(* answer for one.  A deletion is the last write to its record, an insertion *)
(* the first.                                                               *)
(***************************************************************************)
Claimed(t, i) == phase[t] = "commit" => write_set[t][i].wtype = "DELETE"
HasTuple(r) == Slot(r).size > 0
IsMarked(r) == Slot(r).marked

ClaimsHaveTuples ==
  \A t \in Txns : \A i \in 1 .. Len(write_set[t]) : Claimed(t, i) => HasTuple(write_set[t][i].rid)
ClaimsDisjoint ==
  \A t, u \in Txns : t # u =>
    \A i \in 1 .. Len(write_set[t]), j \in 1 .. Len(write_set[u]) :
      Claimed(t, i) /\ Claimed(u, j) => write_set[t][i].rid # write_set[u][j].rid
DeletedAreMarked ==
  \A t \in Txns : \A i \in 1 .. Len(write_set[t]) :
    write_set[t][i].wtype = "DELETE" => IsMarked(write_set[t][i].rid)
DeleteIsLast ==
  \A t \in Txns : \A i, j \in 1 .. Len(write_set[t]) :
    i < j /\ write_set[t][i].wtype = "DELETE" => write_set[t][i].rid # write_set[t][j].rid
InsertIsFirst ==
  \A t \in Txns : \A i, j \in 1 .. Len(write_set[t]) :
    i < j /\ write_set[t][j].wtype = "INSERT" => write_set[t][i].rid # write_set[t][j].rid

ClaimParts == ClaimsHaveTuples /\ ClaimsDisjoint /\ DeletedAreMarked /\ DeleteIsLast /\ InsertIsFirst
ClaimInv == HeapInv /\ ClaimParts

-----------------------------------------------------------------------------
(***************************************************************************)
(* A scan: what it has to return yet lies ahead of it.                      *)
(***************************************************************************)
Ahead(s, r) ==
  \/ s.at \in {"first", "page"} /\ r[1] >= s.rid[1]
  \/ s.at \in {"none first", "construct", "on"} /\ r[1] > s.rid[1]
  \/ s.at = "construct" /\ r[1] = s.rid[1] /\ r[2] >= s.rid[2]
  \/ s.at = "on" /\ r[1] = s.rid[1] /\ r[2] > s.rid[2]

Moving == {"first", "none first", "construct", "on", "page"}
ScanType == [at : Moving \cup {"none", "end", "astray"}, rid : Nat \X Nat, must : SUBSET Rids]

ScanOK(s) ==
  /\ s \in ScanType
  /\ s.at \in Moving => s.rid[1] \in 1 .. Len(pages)
  /\ \A r \in s.must : Live(r) /\ Ahead(s, r)

ScanInv == HeapInv /\ ScanOK(scan)

-----------------------------------------------------------------------------
(* Small facts.                                                            *)

\* Every non-empty set of numbers has a least one.
LEMMA LeastExists ==
  ASSUME NEW S \in SUBSET Nat, S # {}
  PROVE  \E i \in S : \A j \in S : i <= j
PROOF
<1>1. PICK i \in S : \A j \in S : ~ (<<j, i>> \in OpToRel(<, Nat))
  BY WFMin, NatLessThanWellFounded
<1>2. ASSUME NEW j \in S, j < i PROVE FALSE
  BY <1>1, <1>2 DEF OpToRel
<1> QED BY <1>2

\* Products of naturals, for the length of the slot array.
LEMMA Product ==
  ASSUME NEW m \in Nat, NEW n \in Nat
  PROVE  m * n \in Nat /\ m * (n + 1) = m * n + m
BY Z3

\* A function on 1 .. n is a sequence.
LEMMA AsSeq ==
  ASSUME NEW S, NEW n \in Nat, NEW f \in [1 .. n -> S]
  PROVE  f \in Seq(S) /\ Len(f) = n
PROOF
<1>1. f \in Seq(S)
  BY SeqDef
<1>2. Len(f) \in Nat /\ DOMAIN f = 1 .. Len(f) /\ DOMAIN f = 1 .. n
  BY <1>1, LenProperties
<1>3. \A k \in Nat : 1 .. k = 1 .. n => k = n
  OBVIOUS
<1> QED BY <1>1, <1>2, <1>3

\* The fields of a page and their types.
LEMMA PageFacts ==
  ASSUME NEW page \in PageType
  PROVE  /\ page.free_space_pointer \in Nat /\ page.next \in Nat
         /\ page.slots \in Seq(SlotType) /\ Len(page.slots) \in Nat
         /\ DOMAIN page.slots = 1 .. Len(page.slots)
         /\ page.data \in [Offsets -> Nat]
         /\ \A i \in 1 .. Len(page.slots) :
              /\ page.slots[i] \in SlotType
              /\ page.slots[i].offset \in Nat /\ page.slots[i].size \in Nat
              /\ page.slots[i].offset <= PAGE_SIZE
              /\ page.slots[i].marked \in BOOLEAN
PROOF
<1>1. page.slots \in Seq(SlotType)
  BY DEF PageType
<1>2. \A i \in 1 .. Len(page.slots) : page.slots[i] \in SlotType
  BY <1>1
<1>3. \A s \in SlotType : /\ s.offset \in Nat /\ s.size \in Nat /\ s.marked \in BOOLEAN
                          /\ s.offset <= PAGE_SIZE
  BY HeapAssumption DEF SlotType
<1> QED BY <1>1, <1>2, <1>3 DEF PageType

\* The first empty slot, or a new one.
LEMMA FreeSlotFacts ==
  ASSUME NEW page \in PageType
  PROVE  /\ FreeSlot(page) \in 1 .. (Len(page.slots) + 1)
         /\ FreeSlot(page) <= Len(page.slots) => page.slots[FreeSlot(page)].size = 0
PROOF
<1> DEFINE n == Len(page.slots)
           S == {i \in 1 .. (n + 1) : i <= n => page.slots[i].size = 0}
           Ok(i) == /\ i <= n => page.slots[i].size = 0
                    /\ \A j \in 1 .. (i - 1) : page.slots[j].size # 0
<1>1. n \in Nat
  BY PageFacts
<1>2. PICK i \in S : \A j \in S : i <= j
  <2>1. n + 1 \in S /\ S \in SUBSET Nat
    BY <1>1
  <2> HIDE DEF S
  <2> QED BY <2>1, LeastExists
<1>3. i \in 1 .. (n + 1) /\ Ok(i)
  BY <1>1, <1>2
<1>4. FreeSlot(page) = CHOOSE k \in 1 .. (n + 1) : Ok(k)
  BY DEF FreeSlot
<1>5. FreeSlot(page) \in 1 .. (n + 1) /\ Ok(FreeSlot(page))
  BY <1>3, <1>4
<1> QED BY <1>5

\* The bytes of a page stay bytes of a page.
LEMMA MemcpyType ==
  ASSUME NEW data \in [Offsets -> Nat], NEW dst \in Nat, NEW bytes \in Seq(Nat)
  PROVE  memcpy(data, dst, bytes) \in [Offsets -> Nat]
PROOF
<1>1. PICK n \in Nat : n = Len(bytes)
  OBVIOUS
<1>2. ASSUME NEW o \in Offsets, o \in dst .. (dst + n - 1) PROVE bytes[o - dst + 1] \in Nat
  <2>1. PICK k : k = o - dst + 1
    OBVIOUS
  <2>2. k \in 1 .. n
    BY <1>1, <1>2, <2>1
  <2> QED BY <1>1, <2>1, <2>2
<1> QED BY <1>1, <1>2 DEF memcpy

\* memmove within the page leaves bytes at every offset.
LEMMA MemmoveType ==
  ASSUME NEW data \in [Offsets -> Nat], NEW dst \in Nat, NEW src \in Nat, NEW n \in Int,
         src + n <= PAGE_SIZE
  PROVE  memmove(data, dst, src, n) \in [Offsets -> Nat]
PROOF
<1>1. ASSUME NEW o \in Offsets, o \in dst .. (dst + n - 1) PROVE data[o - dst + src] \in Nat
  <2>1. PICK k : k = o - dst + src
    OBVIOUS
  <2>2. k \in Offsets
    BY <1>1, <2>1, HeapAssumption DEF Offsets
  <2> QED BY <2>1, <2>2
<1> QED BY <1>1 DEF memmove

\* Blanking the free space leaves bytes at every offset.
LEMMA BlankedType ==
  ASSUME NEW data \in [Offsets -> Nat], NEW free
  PROVE  Blanked(data, free) \in [Offsets -> Nat]
BY DEF Blanked

-----------------------------------------------------------------------------
(* What an operation on a page leaves alone.                               *)

\* The page keeps its link and its slots: their number does not shrink, and the
\* sizes and marks of all but slot i stay.
SameButSlot(old, new, i) ==
  /\ new.next = old.next
  /\ Len(new.slots) >= Len(old.slots)
  /\ i \in 1 .. Len(new.slots)
  /\ \A j \in 1 .. Len(new.slots) : j # i =>
       /\ j <= Len(old.slots)
       /\ new.slots[j].size = old.slots[j].size
       /\ new.slots[j].marked = old.slots[j].marked

-----------------------------------------------------------------------------
(* InsertTuple in a page.                                                  *)

\* TablePage::InsertTuple: the tuple goes below the free space pointer, into an
\* empty or a new slot.
LEMMA InsertInPageOK ==
  ASSUME NEW page, PageOK(page), NEW tuple \in Seq(Nat), tuple # <<>>, HasRoom(page, tuple)
  PROVE  LET new == InsertInPage(page, tuple)
             i == FreeSlot(page)
             free == page.free_space_pointer - Len(tuple)
         IN  /\ PageOK(new) /\ SameButSlot(page, new, i)
             /\ free \in Nat /\ free + Len(tuple) <= PAGE_SIZE
             /\ new.data = memcpy(page.data, free, tuple)
             /\ new.slots[i].offset = free /\ new.slots[i].size = Len(tuple)
             /\ \A j \in 1 .. Len(new.slots) : j # i => new.slots[j] = page.slots[j]
             /\ new.slots[i].size > 0 /\ ~ new.slots[i].marked
             /\ i <= Len(page.slots) => page.slots[i].size = 0
PROOF
<1> DEFINE new == InsertInPage(page, tuple)
           i == FreeSlot(page)
           n == Len(page.slots)
           m == Len(tuple)
           old == page.free_space_pointer
           free == old - m
           slot == [offset |-> free, size |-> m, marked |-> FALSE]
           slots == IF i > n THEN Append(page.slots, slot) ELSE [page.slots EXCEPT ![i] = slot]
           data == memcpy(page.data, free, tuple)
<1>1. /\ page \in PageType /\ n \in Nat /\ m \in Nat /\ m > 0 /\ old \in Nat
      /\ old <= PAGE_SIZE /\ PAGE_SIZE \in Nat
      /\ SIZE_TABLE_PAGE_HEADER \in Nat /\ SIZE_TUPLE \in Nat
  BY PageFacts, HeapAssumption DEF PageOK
<1>2. i \in 1 .. (n + 1) /\ (i <= n => page.slots[i].size = 0)
  BY <1>1, FreeSlotFacts
<1>3. SIZE_TUPLE * n \in Nat /\ SIZE_TUPLE * (n + 1) = SIZE_TUPLE * n + SIZE_TUPLE
  BY <1>1, Product
<1>4. old - SIZE_TABLE_PAGE_HEADER - SIZE_TUPLE * n >= m + SIZE_TUPLE
  BY DEF HasRoom, GetFreeSpaceRemaining
<1>5. free \in Nat /\ free + m = old
  BY <1>1, <1>3, <1>4, SMTT(60)
<1>6. slot \in SlotType /\ slot.offset = free /\ slot.size = m /\ slot.marked = FALSE
  BY <1>1, <1>5 DEF SlotType
<1>7. data \in [Offsets -> Nat]
  <2>1. page.data \in [Offsets -> Nat]
    BY <1>1, PageFacts
  <2> QED BY <1>5, <2>1, MemcpyType
<1>8. new = [page EXCEPT !.free_space_pointer = free, !.data = data, !.slots = slots]
  BY DEF InsertInPage
<1> HIDE DEF slot, data, free, i
<1>9. /\ slots \in Seq(SlotType) /\ Len(slots) \in {n, n + 1} /\ i \in 1 .. Len(slots)
      /\ slots[i] = slot
      /\ \A j \in 1 .. Len(slots) : j # i => j <= n /\ slots[j] = page.slots[j]
  <2>1. page.slots \in Seq(SlotType)
    BY <1>1, PageFacts
  <2>2. CASE i > n
    BY <1>1, <1>2, <1>6, <2>1, <2>2
  <2>3. CASE ~ (i > n)
    BY <1>1, <1>2, <1>6, <2>1, <2>3
  <2> QED BY <2>2, <2>3
<1> HIDE DEF slots
<1>10. /\ new \in PageType /\ new.free_space_pointer = free /\ new.slots = slots
       /\ new.next = page.next /\ new.data = data
  BY <1>1, <1>5, <1>7, <1>8, <1>9 DEF PageType
<1> HIDE DEF new, n, m, old
<1>11. \A j \in 1 .. Len(slots) : slots[j] \in SlotType /\ slots[j].offset \in Nat /\ slots[j].size \in Nat
  BY <1>10, PageFacts
<1>12. Used(new) = Used(page) \cup {i} /\ i \notin Used(page)
  BY <1>1, <1>2, <1>6, <1>9, <1>10, SMTT(60) DEF Used, n
<1>13. /\ Start(new, i) = free /\ End(new, i) = old
       /\ \A j \in Used(page) : Start(new, j) = Start(page, j) /\ End(new, j) = End(page, j)
                               /\ Start(page, j) \in Nat /\ End(page, j) \in Nat
  <2>1. Start(new, i) = free /\ End(new, i) = old
    BY <1>5, <1>6, <1>9, <1>10 DEF Start, End
  <2>2. ASSUME NEW j \in Used(page) PROVE slots[j] = page.slots[j] /\ j \in 1 .. Len(slots)
    BY <1>9, <1>12, <1>1 DEF Used, n
  <2> QED BY <1>10, <1>11, <2>1, <2>2 DEF Start, End
<1>14. Inside(new)
  BY <1>1, <1>5, <1>10, <1>12, <1>13 DEF PageOK, Inside, old
<1>15. Apart(new)
  <2>1. Inside(page) /\ Apart(page)
    BY DEF PageOK
  <2> SUFFICES ASSUME NEW a \in Used(new), NEW b \in Used(new), a # b
               PROVE  End(new, a) <= Start(new, b) \/ End(new, b) <= Start(new, a)
    BY DEF Apart
  <2>2. CASE a \in Used(page) /\ b \in Used(page)
    BY <1>13, <2>1, <2>2 DEF Apart
  <2>3. CASE a = i
    BY <1>12, <1>13, <2>1, <2>3 DEF Inside, old
  <2>4. CASE b = i
    BY <1>12, <1>13, <2>1, <2>4 DEF Inside, old
  <2> QED BY <1>12, <2>2, <2>3, <2>4
<1>16. Covered(new)
  <2> SUFFICES ASSUME NEW o \in free .. (PAGE_SIZE - 1)
               PROVE  \E j \in Used(new) : Start(new, j) <= o /\ o < End(new, j)
    BY <1>10 DEF Covered
  <2>1. CASE o < old
    BY <1>12, <1>13, <2>1
  <2>2. CASE ~ (o < old)
    <3>1. o \in page.free_space_pointer .. (PAGE_SIZE - 1)
      BY <1>1, <1>5, <2>2 DEF old
    <3>2. PICK j \in Used(page) : Start(page, j) <= o /\ o < End(page, j)
      BY <3>1 DEF PageOK, Covered
    <3> QED BY <1>12, <1>13, <3>2
  <2> QED BY <2>1, <2>2
<1>17. GetFreeSpaceRemaining(new) >= 0
  <2>1. GetFreeSpaceRemaining(new) = free - SIZE_TABLE_PAGE_HEADER - SIZE_TUPLE * Len(slots)
    BY <1>10 DEF GetFreeSpaceRemaining
  <2> DEFINE x == SIZE_TUPLE * n
             y == SIZE_TUPLE * Len(slots)
  <2>2. (y = x \/ y = x + SIZE_TUPLE) /\ x \in Nat
    BY <1>3, <1>9
  <2>3. old - SIZE_TABLE_PAGE_HEADER - x >= m + SIZE_TUPLE
    BY <1>4
  <2>4. GetFreeSpaceRemaining(new) = free - SIZE_TABLE_PAGE_HEADER - y
    BY <2>1
  <2> HIDE DEF x, y
  <2> QED BY <1>1, <1>5, <2>2, <2>3, <2>4
<1>18. PageOK(new)
  BY <1>1, <1>5, <1>10, <1>14, <1>15, <1>16, <1>17 DEF PageOK
<1>19. SameButSlot(page, new, i)
  BY <1>1, <1>9, <1>10 DEF SameButSlot, n
<1>20. new.slots[i].size > 0 /\ ~ new.slots[i].marked
  BY <1>1, <1>6, <1>9, <1>10
<1>21. /\ free \in Nat /\ free + m <= PAGE_SIZE /\ new.data = memcpy(page.data, free, tuple)
       /\ new.slots[i].offset = free /\ new.slots[i].size = m
       /\ \A j \in 1 .. Len(new.slots) : j # i => new.slots[j] = page.slots[j]
  BY <1>1, <1>5, <1>6, <1>9, <1>10 DEF data
<1> QED BY <1>2, <1>18, <1>19, <1>20, <1>21 DEF new, i, n, m, free, old

-----------------------------------------------------------------------------
(* UpdateTuple and ApplyDelete in a page.                                  *)

\* The tuple of slot i now takes n bytes, and the ones below it, and its own new
\* bytes, have moved by the difference.
Shifted(page, new, i, n) ==
  LET shift == page.slots[i].size - n
  IN /\ new \in PageType /\ new.next = page.next /\ Len(new.slots) = Len(page.slots)
     /\ new.free_space_pointer = page.free_space_pointer + shift
     /\ new.slots[i].size = n
     /\ n > 0 => new.slots[i].offset = page.slots[i].offset + shift
     /\ \A j \in 1 .. Len(page.slots) : j # i =>
          /\ new.slots[j].size = page.slots[j].size
          /\ new.slots[j].marked = page.slots[j].marked
          /\ page.slots[j].size > 0 =>
               new.slots[j].offset = IF page.slots[j].offset < page.slots[i].offset
                                     THEN page.slots[j].offset + shift ELSE page.slots[j].offset

\* The common part of update and removal: one tuple gets another length and those
\* below it move by the difference.
LEMMA ShiftedOK ==
  ASSUME NEW page, PageOK(page), NEW i \in Used(page), NEW n \in Nat, NEW new,
         GetFreeSpaceRemaining(page) + page.slots[i].size >= n,
         Shifted(page, new, i, n)
  PROVE  PageOK(new) /\ SameButSlot(page, new, i)
PROOF
<1>1. /\ page \in PageType /\ new \in PageType /\ PAGE_SIZE \in Nat
      /\ SIZE_TABLE_PAGE_HEADER \in Nat /\ SIZE_TUPLE \in Nat
      /\ i \in 1 .. Len(page.slots)
  BY HeapAssumption DEF PageOK, Shifted, Used
<1>2. PICK s \in Nat : s = page.slots[i].size
  BY <1>1, PageFacts
<1>3. PICK a \in Nat : a = page.slots[i].offset
  BY <1>1, PageFacts
<1>4. PICK f \in Nat : f = page.free_space_pointer
  BY <1>1, PageFacts
<1>5. PICK len \in Nat : len = Len(page.slots) /\ len = Len(new.slots)
  BY <1>1, PageFacts DEF Shifted
<1>6. PICK x \in Nat : x = SIZE_TUPLE * len
  BY <1>1, Product
<1>7. /\ f <= PAGE_SIZE /\ f <= a /\ a + s <= PAGE_SIZE /\ s > 0
      /\ f - SIZE_TABLE_PAGE_HEADER - x + s >= n
      /\ f - SIZE_TABLE_PAGE_HEADER - x >= 0
  <2>1. f <= PAGE_SIZE /\ Inside(page) /\ GetFreeSpaceRemaining(page) >= 0
    BY <1>4 DEF PageOK
  <2>2. GetFreeSpaceRemaining(page) = f - SIZE_TABLE_PAGE_HEADER - x
    BY <1>4, <1>5, <1>6 DEF GetFreeSpaceRemaining
  <2>3. f <= a /\ a + s <= PAGE_SIZE
    BY <1>2, <1>3, <1>4, <2>1 DEF Inside, Start, End
  <2>4. s > 0
    BY <1>2 DEF Used
  <2> QED BY <1>2, <2>1, <2>2, <2>3, <2>4
<1>8. /\ new.free_space_pointer = f + s - n /\ new.slots[i].size = n
      /\ n > 0 => new.slots[i].offset = a + s - n
      /\ new.next = page.next
  <2>1. \A b : b \in Nat => b + (s - n) = b + s - n
    OBVIOUS
  <2> QED BY <1>2, <1>3, <1>4, <2>1 DEF Shifted
<1>9. PICK g \in Nat : g = new.free_space_pointer /\ g = f + s - n
  BY <1>1, <1>8, PageFacts
<1>10. GetFreeSpaceRemaining(new) >= 0 /\ g <= PAGE_SIZE
  <2>1. GetFreeSpaceRemaining(new) = g - SIZE_TABLE_PAGE_HEADER - x
    BY <1>5, <1>6, <1>9 DEF GetFreeSpaceRemaining
  <2>2. PICK h \in Nat : h = SIZE_TABLE_PAGE_HEADER
    BY <1>1
  <2>3. g = f + s - n /\ f - h - x + s >= n
    BY <1>7, <1>9, <2>2
  <2>4. g - h - x >= 0
    BY <2>3
  <2>5. g <= PAGE_SIZE
    <3>1. f <= a /\ a + s <= PAGE_SIZE
      BY <1>7
    <3> QED BY <1>1, <2>3, <3>1
  <2> QED BY <2>1, <2>2, <2>4, <2>5
<1> DEFINE U == Used(page)
           V == Used(new)
<1>11. /\ \A j \in V : j \in U /\ (j = i => n > 0)
       /\ \A j \in U : j # i => j \in V
       /\ n > 0 => i \in V
  BY <1>1, <1>5, <1>7, <1>8 DEF Used, Shifted
<1>12. \A j \in U : /\ Start(page, j) \in Nat /\ End(page, j) \in Nat
                    /\ Start(page, j) < End(page, j)
                    /\ f <= Start(page, j) /\ End(page, j) <= PAGE_SIZE
  <2>1. Inside(page)
    BY DEF PageOK
  <2> QED BY <1>1, <1>4, <2>1, PageFacts, SMTT(60) DEF Used, Start, End, Inside
<1>13. Start(page, i) = a /\ End(page, i) = a + s
  BY <1>2, <1>3 DEF Start, End
<1>14. \A j \in U : j # i =>
         /\ Start(page, j) < a => /\ Start(new, j) = Start(page, j) + s - n
                                 /\ End(new, j) = End(page, j) + s - n
                                 /\ End(page, j) <= a
         /\ ~ (Start(page, j) < a) => /\ Start(new, j) = Start(page, j)
                                     /\ End(new, j) = End(page, j)
                                     /\ a + s <= Start(page, j)
  <2> SUFFICES ASSUME NEW j \in U, j # i
               PROVE  /\ Start(page, j) < a => /\ Start(new, j) = Start(page, j) + s - n
                                 /\ End(new, j) = End(page, j) + s - n
                                 /\ End(page, j) <= a
                      /\ ~ (Start(page, j) < a) => /\ Start(new, j) = Start(page, j)
                                     /\ End(new, j) = End(page, j)
                                     /\ a + s <= Start(page, j)
    OBVIOUS
  <2>1. PICK b \in Nat : b = page.slots[j].offset
    BY <1>1, PageFacts DEF Used
  <2>2. PICK c \in Nat : c = page.slots[j].size
    BY <1>1, PageFacts DEF Used
  <2>3. /\ new.slots[j].size = c
        /\ new.slots[j].offset = IF b < a THEN b + (s - n) ELSE b
    BY <1>2, <1>3, <2>1, <2>2 DEF Shifted, Used
  <2>4. Start(page, j) = b /\ End(page, j) = b + c /\ c > 0
    BY <2>1, <2>2 DEF Start, End, Used
  <2>5. a + s <= b \/ b + c <= a
    <3>1. Apart(page)
      BY DEF PageOK
    <3> QED BY <1>13, <2>4, <3>1 DEF Apart
  <2>6. /\ Start(new, j) = IF b < a THEN b + (s - n) ELSE b
        /\ End(new, j) = (IF b < a THEN b + (s - n) ELSE b) + c
    BY <2>3 DEF Start, End
  <2> QED BY <1>7, <2>4, <2>5, <2>6
<1>15. n > 0 => Start(new, i) = a + s - n /\ End(new, i) = a + s
  <2>1. n > 0 => Start(new, i) = a + s - n /\ End(new, i) = a + s - n + n
    BY <1>8 DEF Start, End
  <2> QED BY <2>1
<1> HIDE DEF U, V
<1>16. Inside(new)
  <2> SUFFICES ASSUME NEW j \in V PROVE g <= Start(new, j) /\ End(new, j) <= PAGE_SIZE
    BY <1>9 DEF Inside, V
  <2>1. CASE j = i
    BY <1>1, <1>7, <1>9, <1>11, <1>15, <2>1
  <2>2. CASE j # i /\ Start(page, j) < a
    BY <1>1, <1>7, <1>9, <1>11, <1>12, <1>14, <2>2
  <2>3. CASE j # i /\ ~ (Start(page, j) < a)
    BY <1>1, <1>7, <1>9, <1>11, <1>12, <1>14, <2>3
  <2> QED BY <2>1, <2>2, <2>3
<1>17. Apart(new)
  <2>1. \A j, k \in U : j # k => End(page, j) <= Start(page, k) \/ End(page, k) <= Start(page, j)
    BY DEF PageOK, Apart, U
  <2> SUFFICES ASSUME NEW j \in V, NEW k \in V, j # k
               PROVE  End(new, j) <= Start(new, k) \/ End(new, k) <= Start(new, j)
    BY DEF Apart, V
  <2>2. j \in U /\ k \in U
    BY <1>11
  <2>3. CASE j = i
    BY <1>7, <1>11, <1>12, <1>14, <1>15, <2>2, <2>3
  <2>4. CASE k = i
    BY <1>7, <1>11, <1>12, <1>14, <1>15, <2>2, <2>4
  <2>5. CASE j # i /\ k # i
    BY <1>7, <1>12, <1>14, <2>1, <2>2, <2>5
  <2> QED BY <2>3, <2>4, <2>5
<1>18. Covered(new)
  <2>1. \A o \in f .. (PAGE_SIZE - 1) : \E j \in U : Start(page, j) <= o /\ o < End(page, j)
    BY <1>4 DEF PageOK, Covered, U
  <2> SUFFICES ASSUME NEW o \in g .. (PAGE_SIZE - 1)
               PROVE  \E j \in V : Start(new, j) <= o /\ o < End(new, j)
    BY <1>9 DEF Covered, V
  <2>2. o \in Nat
    OBVIOUS
  <2>3. CASE o >= a + s
    <3>1. PICK j \in U : Start(page, j) <= o /\ o < End(page, j)
      BY <1>1, <1>7, <2>1, <2>2, <2>3, SMTT(60)
    <3>2. j # i /\ ~ (Start(page, j) < a)
      BY <1>7, <1>12, <1>13, <1>14, <2>3, <3>1
    <3> QED BY <1>11, <1>14, <3>1, <3>2
  <2>4. CASE o < a + s /\ o >= a + s - n
    <3>1. n > 0
      BY <2>2, <2>4
    <3> QED BY <1>11, <1>15, <2>4, <3>1
  <2>5. CASE o < a + s - n
    <3>1. PICK b : b = o - s + n
      OBVIOUS
    <3>2. b \in f .. (PAGE_SIZE - 1) /\ b < a /\ o = b + s - n
      <4>1. g <= o /\ g = f + s - n /\ a <= PAGE_SIZE
        BY <1>1, <1>7, <1>9
      <4>2. b \in Int /\ b < a /\ o = b + s - n
        BY <2>2, <2>5, <3>1
      <4>3. f <= b
        BY <4>1, <4>2
      <4> QED BY <1>1, <4>1, <4>2, <4>3
    <3>3. PICK j \in U : Start(page, j) <= b /\ b < End(page, j)
      BY <2>1, <3>2
    <3>4. j # i /\ Start(page, j) < a
      BY <1>7, <1>12, <1>13, <3>2, <3>3
    <3>5. Start(new, j) <= o /\ o < End(new, j)
      BY <1>12, <1>14, <2>2, <3>2, <3>3, <3>4
    <3> QED BY <1>11, <3>4, <3>5
  <2> QED BY <2>2, <2>3, <2>4, <2>5
<1>19. PageOK(new)
  BY <1>1, <1>9, <1>10, <1>16, <1>17, <1>18 DEF PageOK
<1>20. SameButSlot(page, new, i)
  BY <1>1, <1>5 DEF Shifted, SameButSlot
<1> QED BY <1>19, <1>20

\* Without such a change the layout stays.
LEMMA SameLayoutOK ==
  ASSUME NEW page, PageOK(page), NEW new \in PageType,
         new.free_space_pointer = page.free_space_pointer,
         Len(new.slots) = Len(page.slots),
         \A j \in 1 .. Len(page.slots) :
           /\ new.slots[j].size = page.slots[j].size
           /\ page.slots[j].size > 0 => new.slots[j].offset = page.slots[j].offset
  PROVE  PageOK(new)
PROOF
<1>1. Used(new) = Used(page)
  BY DEF Used
<1>2. \A j \in Used(page) : Start(new, j) = Start(page, j) /\ End(new, j) = End(page, j)
  BY DEF Used, Start, End
<1>3. Inside(new) /\ Apart(new) /\ Covered(new)
  BY <1>1, <1>2 DEF PageOK, Inside, Apart, Covered
<1>4. GetFreeSpaceRemaining(new) = GetFreeSpaceRemaining(page)
  BY DEF GetFreeSpaceRemaining
<1> QED BY <1>3, <1>4 DEF PageOK

\* TablePage::UpdateTuple gives a tuple another length and moves those below it.
LEMMA UpdateInPageShifts ==
  ASSUME NEW page, PageOK(page), NEW i \in 1 .. Len(page.slots),
         NEW tuple \in Seq(Nat), tuple # <<>>, CanUpdate(page, i, tuple)
  PROVE  LET new == UpdateInPage(page, i, tuple)
             a == page.slots[i].offset
             f == page.free_space_pointer
             shift == page.slots[i].size - Len(tuple)
         IN  /\ Shifted(page, new, i, Len(tuple)) /\ i \in Used(page) /\ Len(tuple) > 0
             /\ ~ new.slots[i].marked /\ ~ page.slots[i].marked
             /\ GetFreeSpaceRemaining(page) + page.slots[i].size >= Len(tuple)
             /\ f + shift \in Nat
             /\ new.data = Blanked(memcpy(memmove(page.data, f + shift, f, a - f), a + shift, tuple),
                                   f + shift)
PROOF
<1> DEFINE new == UpdateInPage(page, i, tuple)
           n == Len(tuple)
           old == page.slots[i]
           shift == old.size - n
           free == page.free_space_pointer
           moved == memmove(page.data, free + shift, free, old.offset - free)
           data == Blanked(memcpy(moved, old.offset + shift, tuple), free + shift)
           Mid(j) == IF j = i THEN [page.slots[j] EXCEPT !.size = n] ELSE page.slots[j]
           E(j) == IF Mid(j).size > 0 /\ Mid(j).offset < old.offset + old.size
                   THEN [Mid(j) EXCEPT !.offset = @ + shift] ELSE Mid(j)
           slots == [j \in DOMAIN page.slots |-> E(j)]
<1>1. /\ page \in PageType /\ Len(page.slots) \in Nat /\ n \in Nat /\ n > 0 /\ free \in Nat
      /\ free <= PAGE_SIZE /\ PAGE_SIZE \in Nat
      /\ SIZE_TABLE_PAGE_HEADER \in Nat /\ SIZE_TUPLE \in Nat
      /\ old \in SlotType /\ old.offset \in Nat /\ old.size \in Nat
  BY PageFacts, EmptySeq, HeapAssumption DEF PageOK
<1>2. /\ ~ old.marked /\ old.size > 0
      /\ GetFreeSpaceRemaining(page) + old.size >= n
  BY <1>1 DEF CanUpdate, IsDeleted
<1>3. i \in Used(page)
  BY <1>2 DEF Used
<1>4. free <= old.offset /\ old.offset + old.size <= PAGE_SIZE
  BY <1>3 DEF PageOK, Inside, Start, End
<1>5. free + shift \in Nat /\ old.offset + shift \in Nat /\ old.offset + shift <= PAGE_SIZE
  <2>1. PICK x \in Nat : x = SIZE_TUPLE * Len(page.slots)
    BY <1>1, Product
  <2>2. free - SIZE_TABLE_PAGE_HEADER - x + old.size >= n
    BY <1>2, <2>1 DEF GetFreeSpaceRemaining
  <2>3. PICK h \in Nat : h = SIZE_TABLE_PAGE_HEADER
    BY <1>1
  <2>4. free - h - x + old.size >= n
    BY <2>2, <2>3
  <2> HIDE DEF n, old, free
  <2>5. free + (old.size - n) \in Nat
    BY <1>1, <2>4
  <2> QED BY <1>1, <1>4, <2>5, SMTT(60)
<1>6. data \in [Offsets -> Nat]
  <2>1. page.data \in [Offsets -> Nat]
    BY <1>1, PageFacts
  <2> HIDE DEF shift, free, old
  <2>2. old.offset - free \in Int /\ free + (old.offset - free) <= PAGE_SIZE
    <3>1. PICK a \in Nat, z \in Nat : a = old.offset /\ z = old.size
      BY <1>1
    <3>2. PICK f \in Nat : f = free
      BY <1>1
    <3>3. f <= a /\ a + z <= PAGE_SIZE
      BY <1>4, <3>1, <3>2
    <3>4. a - f \in Int /\ f + (a - f) <= PAGE_SIZE
      BY <1>1, <3>3
    <3> QED BY <3>1, <3>2, <3>4
  <2>3. moved \in [Offsets -> Nat]
    BY <1>1, <1>5, <2>1, <2>2, MemmoveType
  <2> HIDE DEF moved
  <2>4. memcpy(moved, old.offset + shift, tuple) \in [Offsets -> Nat]
    BY <1>5, <2>3, MemcpyType
  <2> QED BY <2>4, BlankedType
<1>7. \A j \in 1 .. Len(page.slots) : j # i /\ page.slots[j].size > 0 =>
        /\ page.slots[j].offset < old.offset + old.size <=> page.slots[j].offset < old.offset
        /\ free <= page.slots[j].offset
        /\ page.slots[j].offset < old.offset => page.slots[j].offset + page.slots[j].size <= old.offset
  <2> SUFFICES ASSUME NEW j \in 1 .. Len(page.slots), j # i, page.slots[j].size > 0
               PROVE  /\ page.slots[j].offset < old.offset + old.size <=> page.slots[j].offset < old.offset
                      /\ free <= page.slots[j].offset
                      /\ page.slots[j].offset < old.offset =>
                           page.slots[j].offset + page.slots[j].size <= old.offset
    OBVIOUS
  <2>1. j \in Used(page)
    BY DEF Used
  <2>2. PICK b \in Nat : b = page.slots[j].offset
    BY <1>1, PageFacts
  <2>3. PICK c \in Nat : c = page.slots[j].size
    BY <1>1, PageFacts
  <2>4. free <= b
    BY <2>1, <2>2 DEF PageOK, Inside, Start
  <2>5. old.offset + old.size <= b \/ b + c <= old.offset
    BY <1>3, <2>1, <2>2, <2>3 DEF PageOK, Apart, Start, End
  <2>6. PICK a \in Nat, z \in Nat : a = old.offset /\ z = old.size /\ z > 0
    BY <1>1, <1>2
  <2>7. a + z <= b \/ b + c <= a
    BY <2>5, <2>6
  <2>8. /\ b < a + z <=> b < a
        /\ b < a => b + c <= a
    <3>1. c > 0
      BY <2>3
    <3>2. CASE a + z <= b
      BY <2>6, <3>2, SMTT(60)
    <3>3. CASE b + c <= a
      BY <2>6, <3>1, <3>3, SMTT(60)
    <3> QED BY <2>7, <3>2, <3>3
  <2> HIDE DEF old, free
  <2> QED BY <2>2, <2>3, <2>4, <2>6, <2>8
<1>8. \A j \in 1 .. Len(page.slots) :
        /\ E(j) \in SlotType
        /\ E(j).marked = page.slots[j].marked
        /\ j = i => E(j).size = n /\ E(j).offset = old.offset + shift
        /\ j # i => /\ E(j).size = page.slots[j].size
                    /\ page.slots[j].size > 0 =>
                         E(j).offset = IF page.slots[j].offset < old.offset
                                       THEN page.slots[j].offset + shift ELSE page.slots[j].offset
  <2> SUFFICES ASSUME NEW j \in 1 .. Len(page.slots)
               PROVE  /\ E(j) \in SlotType
                      /\ E(j).marked = page.slots[j].marked
                      /\ j = i => E(j).size = n /\ E(j).offset = old.offset + shift
                      /\ j # i => /\ E(j).size = page.slots[j].size
                                  /\ page.slots[j].size > 0 =>
                                       E(j).offset = IF page.slots[j].offset < old.offset
                                                     THEN page.slots[j].offset + shift
                                                     ELSE page.slots[j].offset
    OBVIOUS
  <2>1. PICK k \in SlotType : k = page.slots[j]
    BY <1>1, PageFacts
  <2>2. CASE j = i
    <3>1. Mid(j) = [old EXCEPT !.size = n]
      BY <2>2
    <3>2. PICK m : m = Mid(j)
      OBVIOUS
    <3>3. m \in SlotType /\ m.offset = old.offset /\ m.size = n /\ m.marked = old.marked
      BY <1>1, <3>1, <3>2 DEF SlotType
    <3>4. E(j) = [m EXCEPT !.offset = @ + shift]
      BY <1>1, <1>2, <3>2, <3>3, SMTT(60)
    <3>5. old.offset + shift \in 0 .. PAGE_SIZE
      BY <1>1, <1>5
    <3> HIDE DEF shift, old, n, E
    <3>6. E(j) \in SlotType /\ E(j).offset = m.offset + shift /\ E(j).size = m.size /\ E(j).marked = m.marked
      BY <3>3, <3>4, <3>5 DEF SlotType
    <3> QED BY <2>2, <3>3, <3>6 DEF old
  <2>3. CASE j # i
    <3>1. Mid(j) = k
      BY <2>1, <2>3
    <3>2. /\ k.size > 0 => (k.offset < old.offset + old.size <=> k.offset < old.offset)
          /\ k.size > 0 => free <= k.offset
          /\ k.size > 0 /\ k.offset < old.offset => k.offset + k.size <= old.offset
      BY <1>7, <2>1, <2>3
    <3>3. E(j) = IF k.size > 0 /\ k.offset < old.offset + old.size
                 THEN [k EXCEPT !.offset = @ + shift] ELSE k
      BY <3>1
    <3>4. CASE k.size > 0 /\ k.offset < old.offset
      <4>1. E(j) = [k EXCEPT !.offset = @ + shift]
        BY <3>2, <3>3, <3>4
      <4>2. k.offset \in Nat /\ k.size \in Nat
        BY DEF SlotType
      <4>3. PICK c : c = k.offset + shift
        OBVIOUS
      <4>4. c \in 0 .. PAGE_SIZE
        <5>1. free <= k.offset /\ k.offset < old.offset
          BY <3>2, <3>4
        <5>2. free + shift \in Nat /\ old.offset + shift <= PAGE_SIZE /\ shift \in Int
          BY <1>1, <1>5, SMTT(60)
        <5> HIDE DEF free, old, shift
        <5> QED BY <1>1, <4>2, <4>3, <5>1, <5>2, SMTT(60)
      <4> HIDE DEF E, shift, old
      <4>5. E(j) \in SlotType /\ E(j).offset = k.offset + shift /\ E(j).size = k.size /\ E(j).marked = k.marked
        BY <4>1, <4>3, <4>4 DEF SlotType
      <4> QED BY <2>1, <2>3, <3>4, <4>5
    <3>5. CASE ~ (k.size > 0 /\ k.offset < old.offset)
      <4>1. E(j) = k
        BY <3>2, <3>3, <3>5
      <4> HIDE DEF E, shift, old
      <4> QED BY <2>1, <2>3, <3>5, <4>1
    <3> QED BY <3>4, <3>5
  <2> QED BY <2>2, <2>3
<1>9. new = [page EXCEPT !.free_space_pointer = free + shift, !.data = data, !.slots = slots]
  BY DEF UpdateInPage
<1>10. slots \in Seq(SlotType) /\ Len(slots) = Len(page.slots)
       /\ \A j \in 1 .. Len(page.slots) : slots[j] = E(j)
  <2>1. DOMAIN page.slots = 1 .. Len(page.slots)
    BY <1>1, PageFacts
  <2> HIDE DEF E
  <2>2. slots \in [1 .. Len(page.slots) -> SlotType]
    BY <1>8, <2>1
  <2>3. \A j \in 1 .. Len(page.slots) : slots[j] = E(j)
    BY <2>1
  <2> HIDE DEF slots
  <2> QED BY <1>1, <2>2, <2>3, AsSeq
<1> HIDE DEF slots, data, E
<1>11. /\ new \in PageType /\ new.free_space_pointer = free + shift /\ new.slots = slots
       /\ new.next = page.next /\ new.data = data
  BY <1>1, <1>5, <1>6, <1>9, <1>10 DEF PageType
<1> HIDE DEF new
<1>12. Shifted(page, new, i, n)
  BY <1>8, <1>10, <1>11 DEF Shifted
<1>13. ~ new.slots[i].marked
  BY <1>1, <1>2, <1>8, <1>10, <1>11
<1> QED BY <1>1, <1>2, <1>3, <1>5, <1>11, <1>12, <1>13 DEF new, data

\* TablePage::UpdateTuple keeps the layout and changes one slot.
LEMMA UpdateInPageOK ==
  ASSUME NEW page, PageOK(page), NEW i \in 1 .. Len(page.slots),
         NEW tuple \in Seq(Nat), tuple # <<>>, CanUpdate(page, i, tuple)
  PROVE  LET new == UpdateInPage(page, i, tuple)
         IN  /\ PageOK(new) /\ SameButSlot(page, new, i) /\ Len(new.slots) = Len(page.slots)
             /\ new.slots[i].size > 0 /\ ~ new.slots[i].marked
PROOF
<1>1. PICK new : new = UpdateInPage(page, i, tuple)
  OBVIOUS
<1>2. /\ Shifted(page, new, i, Len(tuple)) /\ i \in Used(page) /\ Len(tuple) > 0
      /\ ~ new.slots[i].marked
      /\ GetFreeSpaceRemaining(page) + page.slots[i].size >= Len(tuple)
  BY <1>1, UpdateInPageShifts
<1>3. PageOK(new) /\ SameButSlot(page, new, i)
  BY <1>2, ShiftedOK, SMTT(60)
<1> QED BY <1>1, <1>2, <1>3 DEF Shifted

\* TablePage::ApplyDelete takes a tuple out and moves those below it.
LEMMA ApplyInPageShifts ==
  ASSUME NEW page, PageOK(page), NEW i \in 1 .. Len(page.slots)
  PROVE  LET new == ApplyInPage(page, i)
             gone == page.slots[i]
             f == page.free_space_pointer
         IN  /\ Shifted(page, new, i, 0)
             /\ new.data = Blanked(memmove(page.data, f + gone.size, f, gone.offset - f), f + gone.size)
PROOF
<1> DEFINE new == ApplyInPage(page, i)
           gone == page.slots[i]
           free == page.free_space_pointer
           moved == memmove(page.data, free + gone.size, free, gone.offset - free)
           data == Blanked(moved, free + gone.size)
           E(j) == IF j = i THEN EmptySlot
                   ELSE IF page.slots[j].size # 0 /\ page.slots[j].offset < gone.offset
                        THEN [page.slots[j] EXCEPT !.offset = @ + gone.size] ELSE page.slots[j]
           slots == [j \in DOMAIN page.slots |-> E(j)]
<1>1. /\ page \in PageType /\ Len(page.slots) \in Nat /\ free \in Nat
      /\ free <= PAGE_SIZE /\ PAGE_SIZE \in Nat
      /\ gone \in SlotType /\ gone.offset \in Nat /\ gone.size \in Nat
      /\ gone.offset <= PAGE_SIZE
  BY PageFacts, HeapAssumption DEF PageOK
<1>2. gone.size > 0 => free <= gone.offset /\ gone.offset + gone.size <= PAGE_SIZE
  BY DEF PageOK, Inside, Start, End, Used
<1>3. data \in [Offsets -> Nat]
  <2>1. page.data \in [Offsets -> Nat]
    BY <1>1, PageFacts
  <2>2. /\ gone.offset - free \in Int /\ free + (gone.offset - free) <= PAGE_SIZE
        /\ free + gone.size \in Nat
    BY <1>1, SMTT(60)
  <2> HIDE DEF free, gone
  <2>3. moved \in [Offsets -> Nat]
    BY <1>1, <2>1, <2>2, MemmoveType
  <2> HIDE DEF moved
  <2> QED BY <2>3, BlankedType
<1>4. \A j \in 1 .. Len(page.slots) :
        /\ E(j) \in SlotType
        /\ j = i => E(j).size = 0
        /\ j # i => /\ E(j).size = page.slots[j].size
                    /\ E(j).marked = page.slots[j].marked
                    /\ page.slots[j].size > 0 =>
                         E(j).offset = IF page.slots[j].offset < gone.offset
                                       THEN page.slots[j].offset + gone.size ELSE page.slots[j].offset
  <2> SUFFICES ASSUME NEW j \in 1 .. Len(page.slots)
               PROVE  /\ E(j) \in SlotType
                      /\ j = i => E(j).size = 0
                      /\ j # i => /\ E(j).size = page.slots[j].size
                                  /\ E(j).marked = page.slots[j].marked
                                  /\ page.slots[j].size > 0 =>
                                       E(j).offset = IF page.slots[j].offset < gone.offset
                                                     THEN page.slots[j].offset + gone.size
                                                     ELSE page.slots[j].offset
    OBVIOUS
  <2>1. PICK k \in SlotType : k = page.slots[j]
    BY <1>1, PageFacts
  <2>2. k.offset \in Nat /\ k.size \in Nat
    BY DEF SlotType
  <2>3. CASE j = i
    <3>1. E(j) = EmptySlot
      BY <2>3
    <3> HIDE DEF E
    <3> QED BY <1>1, <2>3, <3>1 DEF EmptySlot, SlotType
  <2>4. CASE j # i /\ k.size # 0 /\ k.offset < gone.offset
    <3>1. E(j) = [k EXCEPT !.offset = @ + gone.size]
      BY <2>1, <2>4
    <3>2. PICK c : c = k.offset + gone.size
      OBVIOUS
    <3>3. c \in 0 .. PAGE_SIZE
      <4>1. CASE gone.size > 0
        BY <1>1, <1>2, <2>2, <2>4, <3>2, <4>1, SMTT(60)
      <4>2. CASE gone.size = 0
        BY <1>1, <2>2, <2>4, <3>2, <4>2
      <4> QED BY <1>1, <4>1, <4>2
    <3> HIDE DEF E, gone
    <3>4. E(j) \in SlotType /\ E(j).offset = k.offset + gone.size /\ E(j).size = k.size /\ E(j).marked = k.marked
      BY <3>1, <3>2, <3>3 DEF SlotType
    <3> QED BY <2>1, <2>4, <3>4
  <2>5. CASE j # i /\ ~ (k.size # 0 /\ k.offset < gone.offset)
    <3>1. E(j) = k
      BY <2>1, <2>5
    <3> HIDE DEF E, gone
    <3> QED BY <2>1, <2>2, <2>5, <3>1
  <2> QED BY <2>3, <2>4, <2>5
<1>5. new = [page EXCEPT !.free_space_pointer = free + gone.size, !.data = data, !.slots = slots]
  BY DEF ApplyInPage
<1>6. slots \in Seq(SlotType) /\ Len(slots) = Len(page.slots)
      /\ \A j \in 1 .. Len(page.slots) : slots[j] = E(j)
  <2>1. DOMAIN page.slots = 1 .. Len(page.slots)
    BY <1>1, PageFacts
  <2> HIDE DEF E
  <2>2. slots \in [1 .. Len(page.slots) -> SlotType]
    BY <1>4, <2>1
  <2>3. \A j \in 1 .. Len(page.slots) : slots[j] = E(j)
    BY <2>1
  <2> HIDE DEF slots
  <2> QED BY <1>1, <2>2, <2>3, AsSeq
<1> HIDE DEF slots, data, E
<1>7. /\ new \in PageType /\ new.free_space_pointer = free + gone.size /\ new.slots = slots
      /\ new.next = page.next /\ new.data = data
  <2>1. PICK f \in Nat : f = free + gone.size
    BY <1>1
  <2>2. new = [page EXCEPT !.free_space_pointer = f, !.data = data, !.slots = slots]
    BY <1>5, <2>1
  <2> HIDE DEF new, free, gone
  <2> QED BY <1>1, <1>3, <1>6, <2>1, <2>2 DEF PageType
<1> HIDE DEF new
<1>8. gone.size - 0 = gone.size
  BY <1>1
<1>9. Shifted(page, new, i, 0)
  BY <1>4, <1>6, <1>7, <1>8 DEF Shifted
<1> QED BY <1>7, <1>9 DEF new, data

\* TablePage::ApplyDelete keeps the layout and empties one slot.
LEMMA ApplyInPageOK ==
  ASSUME NEW page, PageOK(page), NEW i \in 1 .. Len(page.slots)
  PROVE  LET new == ApplyInPage(page, i)
         IN  /\ PageOK(new) /\ SameButSlot(page, new, i) /\ Len(new.slots) = Len(page.slots)
             /\ new.slots[i].size = 0
PROOF
<1>1. PICK new : new = ApplyInPage(page, i)
  OBVIOUS
<1>2. Shifted(page, new, i, 0)
  BY <1>1, ApplyInPageShifts
<1>3. PICK s \in Nat : s = page.slots[i].size
  BY PageFacts DEF PageOK
<1>4. s - 0 = s
  OBVIOUS
<1>5. CASE s > 0
  <2>1. i \in Used(page) /\ GetFreeSpaceRemaining(page) >= 0
    BY <1>3, <1>5 DEF Used, PageOK
  <2>2. GetFreeSpaceRemaining(page) \in Int
    <3>1. PICK x \in Nat : x = SIZE_TUPLE * Len(page.slots)
      BY Product, PageFacts, HeapAssumption DEF PageOK
    <3>2. page.free_space_pointer \in Nat /\ SIZE_TABLE_PAGE_HEADER \in Nat
      BY PageFacts, HeapAssumption DEF PageOK
    <3> QED BY <3>1, <3>2 DEF GetFreeSpaceRemaining
  <2>3. GetFreeSpaceRemaining(page) + page.slots[i].size >= 0
    BY <1>3, <2>1, <2>2
  <2> QED BY <1>1, <1>2, <2>1, <2>3, ShiftedOK DEF Shifted
<1>6. CASE s = 0
  <2>1. /\ new \in PageType /\ new.next = page.next /\ Len(new.slots) = Len(page.slots)
        /\ new.free_space_pointer = page.free_space_pointer
    BY <1>2, <1>3, <1>4, <1>6, PageFacts DEF Shifted, PageOK
  <2>2. ASSUME NEW j \in 1 .. Len(page.slots)
        PROVE  /\ new.slots[j].size = page.slots[j].size
               /\ page.slots[j].size > 0 => new.slots[j].offset = page.slots[j].offset
    <3>1. PICK b \in Nat : b = page.slots[j].offset /\ b + (s - 0) = b
      BY <1>6, PageFacts DEF PageOK
    <3>2. CASE j = i
      <4>1. new.slots[i].size = 0
        BY <1>2 DEF Shifted
      <4>2. page.slots[j].size = 0 /\ new.slots[j].size = 0
        BY <1>3, <1>6, <3>2, <4>1, Zenon
      <4>3. ~ (0 > 0)
        OBVIOUS
      <4> QED BY <4>2, <4>3, Zenon
    <3>3. CASE j # i
      <4>1. /\ new.slots[j].size = page.slots[j].size
            /\ page.slots[j].size > 0 =>
                 new.slots[j].offset = page.slots[j].offset + (page.slots[i].size - 0)
                 \/ new.slots[j].offset = page.slots[j].offset
        BY <1>2, <3>3 DEF Shifted
      <4> QED BY <1>3, <3>1, <4>1
    <3> QED BY <3>2, <3>3
  <2>3. PageOK(new)
    BY <2>1, <2>2, SameLayoutOK
  <2>4. SameButSlot(page, new, i)
    BY <1>2, <2>1, PageFacts DEF SameButSlot, Shifted
  <2> QED BY <1>1, <1>2, <2>3, <2>4 DEF Shifted
<1> QED BY <1>5, <1>6

-----------------------------------------------------------------------------
(* MarkDelete and RollbackDelete in a page.                                *)

\* Setting or clearing the delete mark moves nothing.
LEMMA SetMarkOK ==
  ASSUME NEW page, PageOK(page), NEW i \in 1 .. Len(page.slots), NEW b \in BOOLEAN,
         NEW new, new = [page EXCEPT !.slots[i].marked = b]
  PROVE  /\ PageOK(new) /\ SameButSlot(page, new, i) /\ Len(new.slots) = Len(page.slots)
         /\ new.slots[i].size = page.slots[i].size /\ new.slots[i].marked = b
PROOF
<1> DEFINE slots == [page.slots EXCEPT ![i].marked = b]
<1>1. page \in PageType /\ page.slots \in Seq(SlotType) /\ page.slots[i] \in SlotType
  BY PageFacts DEF PageOK
<1>2. PICK s : s = [page.slots[i] EXCEPT !.marked = b]
  OBVIOUS
<1>3. s \in SlotType /\ s.size = page.slots[i].size /\ s.offset = page.slots[i].offset /\ s.marked = b
  BY <1>1, <1>2 DEF SlotType
<1>4. slots = [page.slots EXCEPT ![i] = s]
  BY <1>2
<1>5. /\ slots \in Seq(SlotType) /\ Len(slots) = Len(page.slots)
      /\ slots[i] = s /\ \A j \in 1 .. Len(page.slots) : j # i => slots[j] = page.slots[j]
  BY <1>1, <1>3, <1>4, SMTT(60)
<1>6. new = [page EXCEPT !.slots = slots]
  OBVIOUS
<1> HIDE DEF slots
<1>7. /\ new \in PageType /\ new.next = page.next /\ new.slots = slots
      /\ new.free_space_pointer = page.free_space_pointer
  BY <1>1, <1>5, <1>6 DEF PageType
<1>8. PageOK(new)
  BY <1>3, <1>5, <1>7, SameLayoutOK, ZenonT(60)
<1>9. SameButSlot(page, new, i)
  BY <1>1, <1>5, <1>7, PageFacts DEF SameButSlot
<1> QED BY <1>3, <1>5, <1>7, <1>8, <1>9

\* TablePage::MarkDelete marks a tuple that is there.
LEMMA MarkInPageOK ==
  ASSUME NEW page, PageOK(page), NEW i \in 1 .. Len(page.slots)
  PROVE  LET new == MarkInPage(page, i)
         IN  /\ PageOK(new) /\ SameButSlot(page, new, i) /\ Len(new.slots) = Len(page.slots)
             /\ new.slots[i].size = page.slots[i].size
             /\ page.slots[i].size > 0 => new.slots[i].marked
PROOF
<1>1. page \in PageType /\ Len(page.slots) \in Nat /\ page.slots[i].size \in Nat
  BY PageFacts DEF PageOK
<1>2. CASE IsDeleted(page.slots[i])
  <2>1. MarkInPage(page, i) = page
    BY <1>2 DEF MarkInPage
  <2> QED BY <1>1, <1>2, <2>1 DEF IsDeleted, SameButSlot
<1>3. CASE ~ IsDeleted(page.slots[i])
  <2>1. MarkInPage(page, i) = [page EXCEPT !.slots[i].marked = TRUE]
    BY <1>3 DEF MarkInPage
  <2>2. PICK new : new = MarkInPage(page, i)
    OBVIOUS
  <2>3. /\ PageOK(new) /\ SameButSlot(page, new, i) /\ Len(new.slots) = Len(page.slots)
        /\ new.slots[i].size = page.slots[i].size /\ new.slots[i].marked = TRUE
    <3>1. PICK b \in BOOLEAN : b = TRUE
      OBVIOUS
    <3>2. new = [page EXCEPT !.slots[i].marked = b]
      BY <2>1, <2>2, <3>1
    <3>3. /\ PageOK(new) /\ SameButSlot(page, new, i) /\ Len(new.slots) = Len(page.slots)
          /\ new.slots[i].size = page.slots[i].size /\ new.slots[i].marked = b
      BY <3>2, SetMarkOK
    <3> QED BY <3>1, <3>3
  <2> QED BY <2>2, <2>3
<1> QED BY <1>2, <1>3

\* A tuple that is there has bytes.
LEMMA BytesOK ==
  ASSUME NEW page, PageOK(page), NEW i \in 1 .. Len(page.slots), page.slots[i].size > 0
  PROVE  /\ Bytes(page, i) \in Seq(Nat) /\ Bytes(page, i) # <<>>
         /\ Len(Bytes(page, i)) = page.slots[i].size
PROOF
<1>1. page \in PageType /\ i \in Used(page)
  BY DEF PageOK, Used
<1>2. PICK a \in Nat, s \in Nat, f \in Nat :
        a = page.slots[i].offset /\ s = page.slots[i].size /\ f = page.free_space_pointer
  BY <1>1, PageFacts
<1>3. f <= a /\ a + s <= PAGE_SIZE /\ s > 0
  BY <1>1, <1>2 DEF PageOK, Inside, Start, End
<1>4. ASSUME NEW k \in 1 .. s PROVE page.data[a + k - 1] \in Nat
  <2>1. PICK o : o = a + k - 1
    OBVIOUS
  <2>2. o \in Offsets
    BY <1>3, <2>1, HeapAssumption DEF Offsets
  <2> QED BY <1>1, <2>1, <2>2, PageFacts
<1>5. PICK f2 : f2 = Bytes(page, i)
  OBVIOUS
<1>6. f2 \in [1 .. s -> Nat]
  BY <1>2, <1>4, <1>5 DEF Bytes
<1>7. f2 \in Seq(Nat) /\ Len(f2) = s
  BY <1>6, AsSeq
<1> QED BY <1>2, <1>3, <1>5, <1>7, EmptySeq

\* TablePage::RollbackDelete clears the mark.
LEMMA RollbackInPageOK ==
  ASSUME NEW page, PageOK(page), NEW i \in 1 .. Len(page.slots)
  PROVE  LET new == RollbackInPage(page, i)
         IN  /\ PageOK(new) /\ SameButSlot(page, new, i) /\ Len(new.slots) = Len(page.slots)
             /\ new.slots[i].size = page.slots[i].size /\ ~ new.slots[i].marked
PROOF
<1>1. PICK b \in BOOLEAN : b = FALSE
  OBVIOUS
<1>2. PICK new : new = RollbackInPage(page, i)
  OBVIOUS
<1>3. new = [page EXCEPT !.slots[i].marked = b]
  BY <1>1, <1>2 DEF RollbackInPage
<1>4. /\ PageOK(new) /\ SameButSlot(page, new, i) /\ Len(new.slots) = Len(page.slots)
      /\ new.slots[i].size = page.slots[i].size /\ new.slots[i].marked = b
  BY <1>3, SetMarkOK
<1> QED BY <1>1, <1>2, <1>4

-----------------------------------------------------------------------------
(* One page of the table changes, in one slot.                             *)

OnlySlot(p, i) ==
  /\ Len(pages') = Len(pages) /\ p \in 1 .. Len(pages)
  /\ \A q \in 1 .. Len(pages) : q # p => pages'[q] = pages[q]
  /\ SameButSlot(pages[p], pages'[p], i)

\* Replacing a page by one that differs in a slot is a change of that slot of the
\* table.
LEMMA TouchPage ==
  ASSUME PagesInv, NEW p \in 1 .. Len(pages), NEW i, NEW new,
         PageOK(new), SameButSlot(pages[p], new, i), SetPage(p, new)
  PROVE  PagesInv' /\ OnlySlot(p, i) /\ pages'[p] = new
PROOF
<1>1. pages \in Seq(PageType) /\ Len(pages) \in Nat /\ new \in PageType /\ Len(pages) > 0
  BY DEF PagesInv, PageOK
<1>2. pages' = [pages EXCEPT ![p] = new]
  BY DEF SetPage
<1>3. /\ pages' \in Seq(PageType) /\ Len(pages') = Len(pages) /\ pages'[p] = new
      /\ \A q \in 1 .. Len(pages) : q # p => pages'[q] = pages[q]
  BY <1>1, <1>2
<1>4. \A q \in 1 .. Len(pages') : PageOK(pages'[q])
  BY <1>3 DEF PagesInv
<1>5. \A q \in 1 .. Len(pages) : pages'[q].next = pages[q].next
  BY <1>3 DEF SameButSlot
<1>6. Chained'
  BY <1>3, <1>5 DEF PagesInv, Chained
<1>7. PagesInv'
  BY <1>1, <1>3, <1>4, <1>6 DEF PagesInv
<1> QED BY <1>3, <1>7 DEF OnlySlot

\* Slots stay, and all but the one keep size and mark.
LEMMA OthersStay ==
  ASSUME PagesInv, PagesInv', NEW p, NEW i, OnlySlot(p, i), NEW r, Exists(r)
  PROVE  /\ Exists(r)'
         /\ r[1] # p \/ r[2] # i =>
              Slot(r)'.size = Slot(r).size /\ Slot(r)'.marked = Slot(r).marked
PROOF
<1>1. r[1] \in 1 .. Len(pages) /\ r[2] \in 1 .. Len(pages[r[1]].slots)
  BY DEF Exists
<1>2. Len(pages[r[1]].slots) \in Nat /\ Len(pages'[r[1]].slots) \in Nat
  BY <1>1, PageFacts DEF PagesInv, PageOK, OnlySlot
<1>3. CASE r[1] # p
  <2>1. pages'[r[1]] = pages[r[1]] /\ Len(pages') = Len(pages)
    BY <1>1, <1>3 DEF OnlySlot
  <2> QED BY <1>1, <2>1 DEF Exists, Slot
<1>4. CASE r[1] = p
  <2>1. Len(pages') = Len(pages) /\ SameButSlot(pages[p], pages'[p], i)
    BY DEF OnlySlot
  <2>2. r[2] \in 1 .. Len(pages'[p].slots)
    BY <1>1, <1>2, <1>4, <2>1 DEF SameButSlot
  <2>3. Exists(r)'
    BY <1>1, <1>4, <2>1, <2>2 DEF Exists
  <2>4. r[2] # i => /\ pages'[p].slots[r[2]].size = pages[p].slots[r[2]].size
                    /\ pages'[p].slots[r[2]].marked = pages[p].slots[r[2]].marked
    BY <2>1, <2>2 DEF SameButSlot
  <2> QED BY <1>4, <2>3, <2>4 DEF Slot
<1> QED BY <1>3, <1>4

-----------------------------------------------------------------------------
(* What every action does to the pages.                                    *)

\* What InsertTuple does when the page has room: an unmarked tuple in a slot that
\* was empty or new.
LEMMA InsertHereEffect ==
  ASSUME HeapInv, NEW t \in Txns, InsertHere(t),
         NEW p, p = call[t].page, NEW i, i = FreeSlot(pages[p])
  PROVE  /\ PagesInv' /\ OnlySlot(p, i) /\ Exists(<<p, i>>)'
         /\ p \in Nat /\ i \in Nat
         /\ Slot(<<p, i>>)'.size > 0 /\ ~ Slot(<<p, i>>)'.marked
         /\ Exists(<<p, i>>) => Slot(<<p, i>>).size = 0
PROOF
<1>1. PICK tuple : tuple = call[t].tuple
  OBVIOUS
<1>2. PICK page : page = pages[p]
  OBVIOUS
<1>3. p \in 1 .. Len(pages) /\ tuple \in Seq(Nat) /\ tuple # <<>> /\ PagesInv
  BY <1>1 DEF HeapInv, CallOK, InsertHere
<1>4. PageOK(page) /\ HasRoom(page, tuple) /\ SetPage(p, InsertInPage(page, tuple))
  BY <1>1, <1>2, <1>3 DEF PagesInv, InsertHere
<1>5. PICK new : new = InsertInPage(page, tuple)
  OBVIOUS
<1>6. /\ PageOK(new) /\ SameButSlot(page, new, i)
      /\ new.slots[i].size > 0 /\ ~ new.slots[i].marked
      /\ i <= Len(page.slots) => page.slots[i].size = 0
  BY <1>2, <1>3, <1>4, <1>5, InsertInPageOK
<1>7. PagesInv' /\ OnlySlot(p, i) /\ pages'[p] = new
  BY <1>2, <1>3, <1>4, <1>5, <1>6, TouchPage
<1>8. i \in Nat /\ i \in 1 .. Len(new.slots)
  <2>1. i \in 1 .. Len(new.slots)
    BY <1>6 DEF SameButSlot
  <2>2. page \in PageType
    BY <1>4 DEF PageOK
  <2>3. i \in Nat
    BY <1>2, <2>2, FreeSlotFacts
  <2> QED
    BY <2>1, <2>3
<1>9. Exists(<<p, i>>)'
  BY <1>3, <1>7, <1>8 DEF Exists, OnlySlot
<1>10. Slot(<<p, i>>)' = new.slots[i] /\ Slot(<<p, i>>) = page.slots[i]
  BY <1>2, <1>7 DEF Slot
<1>11. Exists(<<p, i>>) => i <= Len(page.slots)
  BY <1>2, <1>4, PageFacts DEF Exists, PageOK
<1> QED BY <1>3, <1>6, <1>7, <1>8, <1>9, <1>10, <1>11

\* A new page is empty.
LEMMA InitPageOK ==
  /\ PageOK(InitPage) /\ InitPage.next = 0 /\ Len(InitPage.slots) = 0
  /\ GetFreeSpaceRemaining(InitPage) = PAGE_SIZE - SIZE_TABLE_PAGE_HEADER
PROOF
<1>1. /\ InitPage.next = 0 /\ InitPage.free_space_pointer = PAGE_SIZE /\ InitPage.slots = <<>>
      /\ InitPage = [next |-> 0, free_space_pointer |-> PAGE_SIZE, slots |-> <<>>,
                     data |-> [o \in Offsets |-> 0]]
  BY DEF InitPage, INVALID_PAGE_ID
<1>2. Len(InitPage.slots) = 0 /\ InitPage.slots \in Seq(SlotType)
  BY <1>1, EmptySeq
<1>3. InitPage \in PageType
  BY <1>1, <1>2, HeapAssumption DEF PageType
<1>4. Used(InitPage) = {}
  BY <1>2 DEF Used
<1>5. Inside(InitPage) /\ Apart(InitPage) /\ Covered(InitPage)
  BY <1>1, <1>4, HeapAssumption DEF Inside, Apart, Covered
<1>6. GetFreeSpaceRemaining(InitPage) = PAGE_SIZE - SIZE_TABLE_PAGE_HEADER - SIZE_TUPLE * 0
  BY <1>1, <1>2 DEF GetFreeSpaceRemaining
<1>7. SIZE_TUPLE * 0 = 0
  BY HeapAssumption
<1>8. GetFreeSpaceRemaining(InitPage) = PAGE_SIZE - SIZE_TABLE_PAGE_HEADER
  BY <1>6, <1>7, HeapAssumption
<1>9. GetFreeSpaceRemaining(InitPage) >= 0
  BY <1>8, HeapAssumption
<1> QED BY <1>1, <1>2, <1>3, <1>5, <1>8, <1>9, HeapAssumption DEF PageOK

\* The table has grown by one page.
Grown(new) ==
  /\ new = Len(pages) + 1 /\ Len(pages') = new
  /\ \A q \in 1 .. Len(pages) : pages'[q].slots = pages[q].slots /\ pages'[q].data = pages[q].data

\* What InsertTuple does when it appends a page: the tuple is in its first slot.
LEMMA NewPageEffect ==
  ASSUME HeapInv, NEW t \in Txns, InsertNewPage(t), NEW new, new = Len(pages) + 1, ~ (new > MaxPages)
  PROVE  /\ PagesInv' /\ Grown(new) /\ Exists(<<new, 1>>)' /\ new \in Nat
         /\ Slot(<<new, 1>>)'.size > 0 /\ ~ Slot(<<new, 1>>)'.marked
         /\ Len(pages'[new].slots) = 1
PROOF
<1>1. PICK tuple : tuple = call[t].tuple
  OBVIOUS
<1>2. PICK p : p = call[t].page
  OBVIOUS
<1>3. /\ p \in 1 .. Len(pages) /\ tuple \in Seq(Nat) /\ tuple # <<>> /\ PagesInv
      /\ Len(tuple) + SIZE_TABLE_PAGE_HEADER + SIZE_TUPLE <= PAGE_SIZE
      /\ Len(pages) \in Nat /\ Len(pages) > 0
  BY <1>1, <1>2 DEF HeapInv, PagesInv, CallOK, InsertNewPage
<1>4. p = Len(pages)
  BY <1>2, <1>3 DEF PagesInv, Chained, InsertNewPage, INVALID_PAGE_ID
<1>5. PICK last : last = [pages[p] EXCEPT !.next = new]
  OBVIOUS
<1>6. PICK fresh : fresh = InsertInPage(InitPage, tuple)
  OBVIOUS
<1>7. pages' = Append([pages EXCEPT ![p] = last], fresh)
  BY <1>1, <1>2, <1>5, <1>6 DEF InsertNewPage
<1>8. new \in Nat /\ PageOK(pages[p])
  BY <1>3 DEF PagesInv
<1>9. /\ PageOK(last) /\ last.slots = pages[p].slots /\ last.data = pages[p].data
      /\ last.next = new
  <2>1. pages[p] \in PageType
    BY <1>8 DEF PageOK
  <2>2. /\ last \in PageType /\ last.slots = pages[p].slots /\ last.data = pages[p].data
        /\ last.next = new /\ last.free_space_pointer = pages[p].free_space_pointer
    BY <1>5, <1>8, <2>1 DEF PageType
  <2> QED BY <1>8, <2>2, SameLayoutOK
<1>10. PageOK(InitPage) /\ HasRoom(InitPage, tuple) /\ Len(InitPage.slots) = 0 /\ InitPage.next = 0
  BY <1>3, InitPageOK, HeapAssumption DEF HasRoom
<1>11. FreeSlot(InitPage) = 1
  BY <1>10, FreeSlotFacts DEF PageOK
<1>12. /\ PageOK(fresh) /\ fresh.slots[1].size > 0 /\ ~ fresh.slots[1].marked
       /\ SameButSlot(InitPage, fresh, 1) /\ fresh.next = 0
  BY <1>3, <1>6, <1>10, <1>11, InsertInPageOK DEF SameButSlot
<1>a. Len(fresh.slots) = 1 /\ 1 \in 1 .. Len(fresh.slots)
  <2>1. PICK n \in Nat : n = Len(fresh.slots)
    BY <1>12, PageFacts DEF PageOK
  <2>2. 1 \in 1 .. n /\ \A j \in 1 .. n : j # 1 => j <= 0
    BY <1>10, <1>12, <2>1 DEF SameButSlot
  <2>3. n = 1
    BY <2>2
  <2> QED BY <2>1, <2>3
<1>13. last \in PageType /\ fresh \in PageType /\ pages \in Seq(PageType)
  BY <1>3, <1>9, <1>12 DEF PageOK, PagesInv
<1>14. /\ pages' \in Seq(PageType) /\ Len(pages') = new /\ pages'[new] = fresh /\ pages'[p] = last
       /\ \A q \in 1 .. Len(pages) : q # p => pages'[q] = pages[q]
  <2>1. PICK m : m = [pages EXCEPT ![p] = last]
    OBVIOUS
  <2>2. /\ m \in Seq(PageType) /\ Len(m) = Len(pages) /\ m[p] = last
        /\ \A q \in 1 .. Len(pages) : q # p => m[q] = pages[q]
    BY <1>3, <1>13, <2>1
  <2>3. pages' = Append(m, fresh)
    BY <1>7, <2>1
  <2> QED BY <1>3, <1>13, <2>2, <2>3
<1>15. \A q \in 1 .. Len(pages') : PageOK(pages'[q])
  BY <1>3, <1>9, <1>12, <1>14 DEF PagesInv
<1>16. Chained'
  BY <1>3, <1>4, <1>9, <1>12, <1>14 DEF PagesInv, Chained, INVALID_PAGE_ID
<1>17. PagesInv' /\ Grown(new)
  BY <1>3, <1>9, <1>14, <1>15, <1>16 DEF PagesInv, Grown
<1>18. Exists(<<new, 1>>)' /\ Slot(<<new, 1>>)' = fresh.slots[1]
  BY <1>3, <1>8, <1>14, <1>a DEF Exists, Slot
<1> QED BY <1>8, <1>12, <1>14, <1>17, <1>18, <1>a

\* What MarkDelete does to its record.
LEMMA MarkDeleteEffect ==
  ASSUME HeapInv, NEW t \in Txns, NEW rid \in Rids, MarkDelete(t, rid)
  PROVE  /\ PagesInv' /\ OnlySlot(rid[1], rid[2])
         /\ Slot(rid)'.size = Slot(rid).size
         /\ Slot(rid).size > 0 => Slot(rid)'.marked
PROOF
<1>1. /\ PagesInv /\ rid[1] \in 1 .. Len(pages) /\ rid[2] \in 1 .. Len(pages[rid[1]].slots)
      /\ SetPage(rid[1], MarkInPage(pages[rid[1]], rid[2]))
  BY DEF HeapInv, MarkDelete, MayTouch, Exists
<1>2. PICK page : page = pages[rid[1]]
  OBVIOUS
<1>3. PageOK(page)
  BY <1>1, <1>2 DEF PagesInv
<1>4. PICK new : new = MarkInPage(page, rid[2])
  OBVIOUS
<1>5. /\ PageOK(new) /\ SameButSlot(page, new, rid[2])
      /\ new.slots[rid[2]].size = page.slots[rid[2]].size
      /\ page.slots[rid[2]].size > 0 => new.slots[rid[2]].marked
  BY <1>1, <1>2, <1>3, <1>4, MarkInPageOK
<1>6. PagesInv' /\ OnlySlot(rid[1], rid[2]) /\ pages'[rid[1]] = new
  BY <1>1, <1>2, <1>4, <1>5, TouchPage
<1> QED BY <1>2, <1>5, <1>6 DEF Slot

\* What UpdateTuple does to its record, and the old tuple it saves.
LEMMA UpdateTupleEffect ==
  ASSUME HeapInv, NEW t \in Txns, NEW rid \in Rids, NEW tuple \in Tuples, UpdateTuple(t, rid, tuple)
  PROVE  /\ PagesInv' /\ OnlySlot(rid[1], rid[2]) /\ Live(rid)
         /\ Slot(rid)'.size > 0 /\ ~ Slot(rid)'.marked
         /\ GetTuple(rid) \in Seq(Nat) /\ GetTuple(rid) # <<>>
PROOF
<1>1. /\ PagesInv /\ rid[1] \in 1 .. Len(pages) /\ rid[2] \in 1 .. Len(pages[rid[1]].slots)
      /\ CanUpdate(pages[rid[1]], rid[2], tuple)
      /\ SetPage(rid[1], UpdateInPage(pages[rid[1]], rid[2], tuple)) /\ Exists(rid)
  BY DEF HeapInv, UpdateTuple, MayTouch, Exists
<1>2. PICK page : page = pages[rid[1]]
  OBVIOUS
<1>3. PageOK(page)
  BY <1>1, <1>2 DEF PagesInv
<1>4. PICK new : new = UpdateInPage(page, rid[2], tuple)
  OBVIOUS
<1>5. tuple \in Seq(Nat) /\ tuple # <<>>
  BY HeapAssumption
<1>6. /\ PageOK(new) /\ SameButSlot(page, new, rid[2])
      /\ new.slots[rid[2]].size > 0 /\ ~ new.slots[rid[2]].marked
  BY <1>1, <1>2, <1>3, <1>4, <1>5, UpdateInPageOK
<1>7. PagesInv' /\ OnlySlot(rid[1], rid[2]) /\ pages'[rid[1]] = new
  <2>1. PagesInv /\ rid[1] \in 1 .. Len(pages) /\ SetPage(rid[1], new) /\ SameButSlot(pages[rid[1]], new, rid[2])
    BY <1>1, <1>2, <1>4, <1>6
  <2> QED BY <1>6, <2>1, TouchPage
<1>8. Live(rid) /\ page.slots[rid[2]].size > 0
  BY <1>1, <1>2, <1>3, PageFacts DEF Live, CanUpdate, Slot, IsDeleted, PageOK
<1>9. GetTuple(rid) = Bytes(page, rid[2])
  BY <1>2, <1>8 DEF GetTuple
<1>10. GetTuple(rid) \in Seq(Nat) /\ GetTuple(rid) # <<>>
  BY <1>1, <1>2, <1>3, <1>8, <1>9, BytesOK
<1> QED BY <1>6, <1>7, <1>8, <1>10 DEF Slot

\* The write record that Commit or Abort works off.
LEMMA LastFacts ==
  ASSUME HeapInv, NEW t \in Txns, write_set[t] # <<>>
  PROVE  /\ Len(write_set[t]) \in Nat /\ Len(write_set[t]) > 0
         /\ Last(t) \in Item /\ Last(t) = write_set[t][Len(write_set[t])]
         /\ Exists(Last(t).rid) /\ PageOK(pages[Last(t).rid[1]])
         /\ Last(t).rid[1] \in 1 .. Len(pages)
         /\ Last(t).rid[2] \in 1 .. Len(pages[Last(t).rid[1]].slots)
         /\ Last(t).wtype \in {"INSERT", "UPDATE", "DELETE"} /\ Last(t).tuple \in Seq(Nat)
         /\ Last(t).wtype = "UPDATE" => Last(t).tuple # <<>>
PROOF
<1>1. write_set[t] \in Seq(Item) /\ Len(write_set[t]) \in Nat /\ Len(write_set[t]) > 0
  BY EmptySeq DEF HeapInv
<1>2. Last(t) \in Item /\ Last(t) = write_set[t][Len(write_set[t])]
  BY <1>1 DEF Last
<1>3. Exists(Last(t).rid) /\ (Last(t).wtype = "UPDATE" => Last(t).tuple # <<>>)
  BY <1>1, <1>2 DEF HeapInv, ItemsOK
<1>4. Last(t).rid[1] \in 1 .. Len(pages) /\ Last(t).rid[2] \in 1 .. Len(pages[Last(t).rid[1]].slots)
  BY <1>3 DEF Exists
<1>5. PageOK(pages[Last(t).rid[1]])
  BY <1>4 DEF HeapInv, PagesInv
<1>6. Last(t).wtype \in {"INSERT", "UPDATE", "DELETE"} /\ Last(t).tuple \in Seq(Nat)
  BY <1>2 DEF Item
<1> QED BY <1>1, <1>2, <1>3, <1>4, <1>5, <1>6

\* Commit removes the tuple of a deletion and touches nothing for other writes.
LEMMA CommitStepEffect ==
  ASSUME HeapInv, NEW t \in Txns, CommitStep(t), NEW rid, rid = Last(t).rid
  PROVE  /\ PagesInv'
         /\ Last(t).wtype # "DELETE" => pages' = pages
         /\ Last(t).wtype = "DELETE" => OnlySlot(rid[1], rid[2]) /\ Slot(rid)'.size = 0
PROOF
<1>1. PagesInv /\ write_set[t] # <<>>
  BY DEF HeapInv, CommitStep
<1>2. CASE Last(t).wtype # "DELETE"
  <2>1. pages' = pages
    BY <1>2 DEF CommitStep
  <2> QED BY <1>1, <1>2, <2>1 DEF PagesInv, Chained
<1>3. CASE Last(t).wtype = "DELETE"
  <2>1. PICK page : page = pages[rid[1]]
    OBVIOUS
  <2>2. PICK new : new = ApplyInPage(page, rid[2])
    OBVIOUS
  <2>3. rid[1] \in 1 .. Len(pages) /\ rid[2] \in 1 .. Len(page.slots) /\ PageOK(page)
    BY <1>1, <2>1, LastFacts
  <2>4. SetPage(rid[1], new)
    BY <1>3, <2>1, <2>2 DEF CommitStep
  <2>5. PageOK(new) /\ SameButSlot(page, new, rid[2]) /\ new.slots[rid[2]].size = 0
    BY <2>2, <2>3, ApplyInPageOK
  <2>6. PagesInv' /\ OnlySlot(rid[1], rid[2]) /\ pages'[rid[1]] = new
    BY <1>1, <2>1, <2>3, <2>4, <2>5, TouchPage
  <2> QED BY <1>3, <2>5, <2>6 DEF Slot
<1> QED BY <1>2, <1>3

\* Abort touches the record of the last write only.
LEMMA AbortStepEffect ==
  ASSUME HeapInv, NEW t \in Txns, AbortStep(t), NEW rid, rid = Last(t).rid
  PROVE  /\ PagesInv' /\ OnlySlot(rid[1], rid[2])
         /\ Last(t).wtype = "DELETE" => Slot(rid)'.size = Slot(rid).size
         /\ Last(t).wtype = "UPDATE" =>
              \/ Slot(rid)'.size > 0 /\ ~ Slot(rid)'.marked
              \/ Slot(rid)'.size = Slot(rid).size /\ Slot(rid)'.marked = Slot(rid).marked
PROOF
<1>1. PagesInv /\ write_set[t] # <<>>
  BY DEF HeapInv, AbortStep
<1>2. PICK page : page = pages[rid[1]]
  OBVIOUS
<1>3. PICK item : item = Last(t)
  OBVIOUS
<1>4. PICK new : new = RolledBack(page, item)
  OBVIOUS
<1>5. PICK i : i = rid[2]
  OBVIOUS
<1>6. rid[1] \in 1 .. Len(pages) /\ i \in 1 .. Len(page.slots) /\ PageOK(page)
  BY <1>1, <1>2, <1>5, LastFacts
<1>7. /\ item.wtype \in {"INSERT", "UPDATE", "DELETE"} /\ item.tuple \in Seq(Nat)
      /\ item.wtype = "UPDATE" => item.tuple # <<>>
  BY <1>1, <1>3, LastFacts
<1>8. SetPage(rid[1], new)
  BY <1>2, <1>3, <1>4 DEF AbortStep
<1>9. /\ PageOK(new) /\ SameButSlot(page, new, i)
      /\ item.wtype = "DELETE" => new.slots[i].size = page.slots[i].size
      /\ item.wtype = "UPDATE" =>
           \/ new.slots[i].size > 0 /\ ~ new.slots[i].marked
           \/ new.slots[i].size = page.slots[i].size /\ new.slots[i].marked = page.slots[i].marked
  <2>1. CASE item.wtype = "DELETE"
    <3>1. new = RollbackInPage(page, i)
      BY <1>3, <1>4, <1>5, <2>1 DEF RolledBack
    <3> QED BY <1>6, <2>1, <3>1, RollbackInPageOK
  <2>2. CASE item.wtype = "INSERT"
    <3>1. new = ApplyInPage(page, i)
      BY <1>3, <1>4, <1>5, <2>2 DEF RolledBack
    <3> QED BY <1>6, <2>2, <3>1, ApplyInPageOK
  <2>3. CASE item.wtype = "UPDATE" /\ CanUpdate(page, i, item.tuple)
    <3>1. new = UpdateInPage(page, i, item.tuple)
      BY <1>3, <1>4, <1>5, <2>3 DEF RolledBack
    <3> QED BY <1>6, <1>7, <2>3, <3>1, UpdateInPageOK
  <2>4. CASE item.wtype = "UPDATE" /\ ~ CanUpdate(page, i, item.tuple)
    <3>1. new = page
      BY <1>3, <1>4, <1>5, <2>4 DEF RolledBack
    <3>2. SameButSlot(page, page, i)
      BY <1>6, PageFacts DEF SameButSlot, PageOK
    <3> QED BY <1>6, <2>4, <3>1, <3>2
  <2> QED BY <1>7, <2>1, <2>2, <2>3, <2>4
<1>10. PagesInv' /\ OnlySlot(rid[1], i) /\ pages'[rid[1]] = new
  BY <1>1, <1>2, <1>6, <1>8, <1>9, TouchPage
<1>11. Slot(rid) = page.slots[i] /\ Slot(rid)' = new.slots[i]
  BY <1>2, <1>5, <1>10 DEF Slot
<1> QED BY <1>3, <1>5, <1>9, <1>10, <1>11

-----------------------------------------------------------------------------
(* What every action does to the write sets.                               *)

\* No slot disappears.
SlotsStay == \A r : Exists(r) => Exists(r)'

\* A write record was added to the write set of t.
Recorded(t, item) ==
  /\ Len(write_set'[t]) = Len(write_set[t]) + 1
  /\ write_set'[t][Len(write_set[t]) + 1] = item
  /\ \A i \in 1 .. Len(write_set[t]) : write_set'[t][i] = write_set[t][i]
  /\ \A u \in Txns : u # t => write_set'[u] = write_set[u]

\* The last write record of t was taken away.
Popped(t) ==
  /\ Len(write_set'[t]) = Len(write_set[t]) - 1
  /\ \A i \in 1 .. (Len(write_set[t]) - 1) : write_set'[t][i] = write_set[t][i]
  /\ \A u \in Txns : u # t => write_set'[u] = write_set[u]

\* A write set and its length.
LEMMA LenOfWrites ==
  ASSUME HeapInv, NEW t \in Txns
  PROVE  write_set[t] \in Seq(Item) /\ Len(write_set[t]) \in Nat
BY DEF HeapInv

\* Appending a write record keeps the write sets well formed.
LEMMA RecordKeeps ==
  ASSUME HeapInv, NEW t \in Txns, NEW rid \in Nat \X Nat,
         NEW wtype \in {"INSERT", "UPDATE", "DELETE"}, NEW tuple \in Seq(Nat),
         Record(t, rid, wtype, tuple), SlotsStay, Exists(rid)',
         wtype = "UPDATE" => tuple # <<>>
  PROVE  /\ write_set' \in [Txns -> Seq(Item)] /\ \A u \in Txns : ItemsOK(u)'
         /\ Recorded(t, [rid |-> rid, wtype |-> wtype, tuple |-> tuple])
PROOF
<1>1. PICK item : item = [rid |-> rid, wtype |-> wtype, tuple |-> tuple]
  OBVIOUS
<1>2. item \in Item /\ item.rid = rid /\ item.wtype = wtype /\ item.tuple = tuple
  BY <1>1 DEF Item
<1>3. write_set \in [Txns -> Seq(Item)] /\ write_set[t] \in Seq(Item) /\ Len(write_set[t]) \in Nat
  BY DEF HeapInv
<1>4. PICK new : new = Append(write_set[t], item)
  OBVIOUS
<1>5. /\ new \in Seq(Item) /\ Len(new) = Len(write_set[t]) + 1 /\ new[Len(write_set[t]) + 1] = item
      /\ \A i \in 1 .. Len(write_set[t]) : new[i] = write_set[t][i]
  BY <1>2, <1>3, <1>4
<1>6. write_set' = [write_set EXCEPT ![t] = new]
  BY <1>1, <1>4 DEF Record
<1>7. /\ write_set' \in [Txns -> Seq(Item)] /\ write_set'[t] = new
      /\ \A u \in Txns : u # t => write_set'[u] = write_set[u]
  BY <1>3, <1>5, <1>6
<1>8. Recorded(t, item)
  BY <1>5, <1>7 DEF Recorded
<1>9. ASSUME NEW u \in Txns, NEW i \in 1 .. Len(write_set'[u])
      PROVE  /\ Exists(write_set[u][i].rid)'
             /\ write_set'[u][i].wtype = "UPDATE" => write_set'[u][i].tuple # <<>>
  <2> PICK r : r = write_set'[u][i].rid
    OBVIOUS
  <2> SUFFICES Exists(r)' /\ (write_set'[u][i].wtype = "UPDATE" => write_set'[u][i].tuple # <<>>)
    BY DEF Exists
  <2>1. CASE u = t /\ i = Len(write_set[t]) + 1
    BY <1>2, <1>5, <1>7, <2>1
  <2>2. CASE ~ (u = t /\ i = Len(write_set[t]) + 1)
    <3>1. i \in 1 .. Len(write_set[u]) /\ write_set'[u][i] = write_set[u][i]
      BY <1>3, <1>5, <1>7, <1>9, <2>2
    <3> QED BY <3>1 DEF HeapInv, ItemsOK, SlotsStay
  <2> QED BY <2>1, <2>2
<1>10. \A u \in Txns : ItemsOK(u)'
  BY <1>9 DEF ItemsOK
<1> QED BY <1>1, <1>7, <1>8, <1>10

\* Taking the last write record off keeps the write sets well formed.
LEMMA PopKeeps ==
  ASSUME HeapInv, NEW t \in Txns, write_set[t] # <<>>, PopBack(t), SlotsStay
  PROVE  /\ write_set' \in [Txns -> Seq(Item)] /\ \A u \in Txns : ItemsOK(u)'
         /\ Popped(t)
PROOF
<1>1. write_set \in [Txns -> Seq(Item)]
  BY DEF HeapInv
<1>2. write_set[t] \in Seq(Item) /\ Len(write_set[t]) \in Nat /\ Len(write_set[t]) > 0
  BY LastFacts, LenOfWrites
<1>3. PICK n \in Nat : n = Len(write_set[t]) - 1 /\ Len(write_set[t]) = n + 1
  BY <1>2, SMTT(60)
<1>4. PICK new : new = SubSeq(write_set[t], 1, n)
  OBVIOUS
<1>5. new \in Seq(Item) /\ Len(new) = n /\ \A i \in 1 .. n : new[i] = write_set[t][i]
  <2>1. \A i \in 1 .. n : write_set[t][i] \in Item
    BY <1>2, <1>3
  <2> QED BY <1>2, <1>3, <1>4, <2>1, SubSeqProperties
<1>6. write_set' = [write_set EXCEPT ![t] = new]
  BY <1>3, <1>4 DEF PopBack
<1>7. /\ write_set' \in [Txns -> Seq(Item)] /\ write_set'[t] = new
      /\ \A u \in Txns : u # t => write_set'[u] = write_set[u]
  BY <1>1, <1>5, <1>6
<1>8. Popped(t)
  BY <1>3, <1>5, <1>7 DEF Popped
<1>9. ASSUME NEW u \in Txns, NEW i \in 1 .. Len(write_set'[u])
      PROVE  /\ Exists(write_set[u][i].rid)'
             /\ write_set'[u][i].wtype = "UPDATE" => write_set'[u][i].tuple # <<>>
  <2> PICK r : r = write_set'[u][i].rid
    OBVIOUS
  <2> SUFFICES Exists(r)' /\ (write_set'[u][i].wtype = "UPDATE" => write_set'[u][i].tuple # <<>>)
    BY DEF Exists
  <2>1. i \in 1 .. Len(write_set[u]) /\ write_set'[u][i] = write_set[u][i]
    BY <1>3, <1>5, <1>7, <1>9
  <2> QED BY <2>1 DEF HeapInv, ItemsOK, SlotsStay
<1>10. \A u \in Txns : ItemsOK(u)'
  BY <1>9 DEF ItemsOK
<1> QED BY <1>7, <1>8, <1>10

\* When one slot changes, no slot disappears.
LEMMA OnlySlotStays ==
  ASSUME PagesInv, PagesInv', NEW p, NEW i, OnlySlot(p, i)
  PROVE  SlotsStay
BY OthersStay DEF SlotsStay

\* When a page is appended, the slots there were stay as they are.
LEMMA GrownStays ==
  ASSUME PagesInv, PagesInv', NEW new, Grown(new), NEW r, Exists(r)
  PROVE  Exists(r)' /\ Slot(r)' = Slot(r) /\ r[1] # new
PROOF
<1>1. Len(pages) \in Nat /\ r[1] \in 1 .. Len(pages) /\ r[2] \in 1 .. Len(pages[r[1]].slots)
  BY DEF Exists, PagesInv
<1>2. Len(pages') = Len(pages) + 1 /\ new = Len(pages) + 1 /\ pages'[r[1]].slots = pages[r[1]].slots
  BY <1>1 DEF Grown
<1>3. r[1] \in 1 .. Len(pages') /\ r[1] # new
  BY <1>1, <1>2
<1> QED BY <1>1, <1>2, <1>3 DEF Exists, Slot

\* The calls of InsertTuple under way stay on pages of the table.
LEMMA CallsStay ==
  ASSUME HeapInv, PagesInv', Len(pages') >= Len(pages), NEW u \in Txns,
         phase'[u] = "insert" => phase[u] = "insert" /\ call'[u] = call[u]
  PROVE  CallOK(u)'
PROOF
<1>1. Len(pages) \in Nat /\ Len(pages') \in Nat
  BY DEF HeapInv, PagesInv
<1> QED BY <1>1 DEF HeapInv, CallOK

-----------------------------------------------------------------------------
(* HeapInv is inductive.                                                   *)

\* One empty page, no writes.
LEMMA HeapInit == Init => HeapInv
PROOF
<1> SUFFICES ASSUME Init PROVE HeapInv
  OBVIOUS
<1>1. pages = <<InitPage>> /\ InitPage \in PageType
  BY InitPageOK DEF Init, PageOK
<1>2. pages \in Seq(PageType) /\ Len(pages) = 1 /\ pages[1] = InitPage
  BY <1>1
<1>3. PagesInv
  BY <1>2, InitPageOK DEF PagesInv, Chained, INVALID_PAGE_ID
<1>4. phase \in [Txns -> Phases] /\ \A t \in Txns : phase[t] = "run"
  BY DEF Init, Phases
<1>5. call \in [Txns -> [tuple : Seq(Nat), page : Nat]]
  BY EmptySeq DEF Init, NoCall, NoTuple, INVALID_PAGE_ID
<1>6. write_set \in [Txns -> Seq(Item)] /\ \A t \in Txns : Len(write_set[t]) = 0
  BY EmptySeq DEF Init
<1>7. \A t \in Txns : CallOK(t) /\ ItemsOK(t)
  BY <1>4, <1>6 DEF CallOK, ItemsOK
<1> QED BY <1>3, <1>4, <1>5, <1>6, <1>7 DEF HeapInv

\* Only the calls that change pages, write sets, phases or calls matter.
LEMMA HeapStutter ==
  ASSUME HeapInv, UNCHANGED <<pages, write_set, phase, call>>
  PROVE  HeapInv'
BY DEF HeapInv, PagesInv, Chained, CallOK, ItemsOK, Exists

\* InsertTuple into the page it is on.
LEMMA InsertHereKeeps ==
  ASSUME HeapInv, NEW t \in Txns, InsertHere(t)
  PROVE  HeapInv'
PROOF
<1>1. PICK p : p = call[t].page
  OBVIOUS
<1>2. PICK i : i = FreeSlot(pages[p])
  OBVIOUS
<1>3. /\ PagesInv' /\ OnlySlot(p, i) /\ Exists(<<p, i>>)' /\ p \in Nat /\ i \in Nat
  BY <1>1, <1>2, InsertHereEffect
<1>4. PagesInv /\ SlotsStay
  BY <1>3, OnlySlotStays DEF HeapInv
<1>5. Record(t, <<p, i>>, "INSERT", NoTuple)
  BY <1>1, <1>2 DEF InsertHere
<1>6. NoTuple \in Seq(Nat) /\ <<p, i>> \in Nat \X Nat
  BY <1>3, EmptySeq DEF NoTuple
<1>7. write_set' \in [Txns -> Seq(Item)] /\ \A u \in Txns : ItemsOK(u)'
  BY <1>3, <1>4, <1>5, <1>6, RecordKeeps
<1>8. /\ phase' = [phase EXCEPT ![t] = "run"] /\ call' = [call EXCEPT ![t] = NoCall]
  BY DEF InsertHere, InsertReturns
<1>9. phase' \in [Txns -> Phases] /\ call' \in [Txns -> [tuple : Seq(Nat), page : Nat]]
  BY <1>6, <1>8 DEF HeapInv, Phases, NoCall, INVALID_PAGE_ID
<1>10. \A u \in Txns : CallOK(u)'
  <2>1. Len(pages') >= Len(pages)
    BY <1>3, <1>4 DEF OnlySlot, PagesInv
  <2>2. \A u \in Txns : phase'[u] = "insert" => phase[u] = "insert" /\ call'[u] = call[u]
    BY <1>8 DEF HeapInv
  <2> QED BY <1>3, <2>1, <2>2, CallsStay
<1> QED BY <1>3, <1>7, <1>9, <1>10 DEF HeapInv

\* InsertTuple into a new page, or refused one.
LEMMA InsertNewPageKeeps ==
  ASSUME HeapInv, NEW t \in Txns, InsertNewPage(t)
  PROVE  HeapInv'
PROOF
<1>1. PICK new : new = Len(pages) + 1
  OBVIOUS
<1>2. PICK result \in {"run", "failed"} : InsertReturns(t, result)
  BY DEF InsertNewPage
<1>3. /\ phase' = [phase EXCEPT ![t] = result] /\ call' = [call EXCEPT ![t] = NoCall]
  BY <1>2 DEF InsertReturns
<1>4. NoTuple \in Seq(Nat)
  BY EmptySeq DEF NoTuple
<1>5. phase' \in [Txns -> Phases] /\ call' \in [Txns -> [tuple : Seq(Nat), page : Nat]]
  BY <1>3, <1>4 DEF HeapInv, Phases, NoCall, INVALID_PAGE_ID
<1>6. \A u \in Txns : phase'[u] = "insert" => phase[u] = "insert" /\ call'[u] = call[u]
  BY <1>3 DEF HeapInv
<1>7. CASE ~ (new > MaxPages)
  <2>1. PagesInv' /\ Grown(new) /\ Exists(<<new, 1>>)' /\ new \in Nat
    BY <1>1, <1>7, NewPageEffect
  <2>2. SlotsStay
    BY <2>1, GrownStays DEF SlotsStay, HeapInv
  <2>3. Record(t, <<new, 1>>, "INSERT", NoTuple) /\ <<new, 1>> \in Nat \X Nat
    BY <1>1, <1>7, <2>1 DEF InsertNewPage
  <2>4. write_set' \in [Txns -> Seq(Item)] /\ \A u \in Txns : ItemsOK(u)'
    BY <1>4, <2>1, <2>2, <2>3, RecordKeeps
  <2>5. Len(pages') >= Len(pages)
    BY <2>1 DEF Grown, HeapInv, PagesInv
  <2>6. \A u \in Txns : CallOK(u)'
    BY <1>6, <2>1, <2>5, CallsStay
  <2> QED BY <1>5, <2>1, <2>4, <2>6 DEF HeapInv
<1>8. CASE new > MaxPages
  <2>1. pages' = pages /\ write_set' = write_set
    BY <1>1, <1>8 DEF InsertNewPage
  <2>2. PagesInv' /\ \A u \in Txns : ItemsOK(u)'
    BY <2>1 DEF HeapInv, PagesInv, Chained, ItemsOK, Exists
  <2>3. \A u \in Txns : CallOK(u)'
    BY <1>6, <2>1, <2>2, CallsStay DEF HeapInv, PagesInv
  <2> QED BY <1>5, <2>1, <2>2, <2>3 DEF HeapInv
<1> QED BY <1>7, <1>8

\* A step that leaves phases and calls alone.
LEMMA SamePhases ==
  ASSUME HeapInv, PagesInv', Len(pages') >= Len(pages), phase' = phase, call' = call,
         write_set' \in [Txns -> Seq(Item)], \A u \in Txns : ItemsOK(u)'
  PROVE  HeapInv'
PROOF
<1>1. \A u \in Txns : CallOK(u)'
  BY CallsStay
<1> QED BY <1>1 DEF HeapInv

\* MarkDelete.
LEMMA MarkDeleteKeeps ==
  ASSUME HeapInv, NEW t \in Txns, NEW rid \in Rids, MarkDelete(t, rid)
  PROVE  HeapInv'
PROOF
<1>1. PagesInv' /\ OnlySlot(rid[1], rid[2])
  BY MarkDeleteEffect
<1>2. PagesInv /\ SlotsStay /\ Exists(rid)
  BY <1>1, OnlySlotStays DEF HeapInv, MarkDelete, MayTouch
<1>3. Record(t, rid, "DELETE", NoTuple) /\ phase' = phase /\ call' = call
  BY DEF MarkDelete
<1>4. NoTuple \in Seq(Nat) /\ rid \in Nat \X Nat
  BY EmptySeq DEF NoTuple, Rids
<1>5. Exists(rid)'
  BY <1>2 DEF SlotsStay
<1>6. write_set' \in [Txns -> Seq(Item)] /\ \A u \in Txns : ItemsOK(u)'
  BY <1>2, <1>3, <1>4, <1>5, RecordKeeps
<1>7. Len(pages') >= Len(pages)
  BY <1>1, <1>2 DEF OnlySlot, PagesInv
<1> QED BY <1>1, <1>3, <1>6, <1>7, SamePhases

\* UpdateTuple.
LEMMA UpdateTupleKeeps ==
  ASSUME HeapInv, NEW t \in Txns, NEW rid \in Rids, NEW tuple \in Tuples, UpdateTuple(t, rid, tuple)
  PROVE  HeapInv'
PROOF
<1>1. PagesInv' /\ OnlySlot(rid[1], rid[2]) /\ GetTuple(rid) \in Seq(Nat) /\ GetTuple(rid) # <<>>
  BY UpdateTupleEffect
<1>2. PagesInv /\ SlotsStay /\ Exists(rid)
  BY <1>1, OnlySlotStays DEF HeapInv, UpdateTuple, MayTouch
<1>3. PICK old : old = GetTuple(rid)
  OBVIOUS
<1>4. Record(t, rid, "UPDATE", old) /\ phase' = phase /\ call' = call
  BY <1>3 DEF UpdateTuple
<1>5. rid \in Nat \X Nat
  BY DEF Rids
<1>6. Exists(rid)'
  BY <1>2 DEF SlotsStay
<1>7. write_set' \in [Txns -> Seq(Item)] /\ \A u \in Txns : ItemsOK(u)'
  BY <1>1, <1>2, <1>3, <1>4, <1>5, <1>6, RecordKeeps
<1>8. Len(pages') >= Len(pages)
  BY <1>1, <1>2 DEF OnlySlot, PagesInv
<1> QED BY <1>1, <1>4, <1>7, <1>8, SamePhases

\* One record of Commit.
LEMMA CommitStepKeeps ==
  ASSUME HeapInv, NEW t \in Txns, CommitStep(t)
  PROVE  HeapInv'
PROOF
<1>1. PICK rid : rid = Last(t).rid
  OBVIOUS
<1>2. /\ PagesInv' /\ PagesInv
      /\ pages' = pages \/ OnlySlot(rid[1], rid[2])
  BY <1>1, CommitStepEffect DEF HeapInv
<1>3. SlotsStay /\ Len(pages') >= Len(pages)
  <2>1. CASE pages' = pages
    BY <1>2, <2>1 DEF SlotsStay, Exists, PagesInv
  <2>2. CASE OnlySlot(rid[1], rid[2])
    <3>1. SlotsStay
      BY <1>2, <2>2, OnlySlotStays
    <3>2. Len(pages') >= Len(pages)
      BY <1>2, <2>2 DEF OnlySlot, PagesInv
    <3> QED BY <3>1, <3>2
  <2> QED BY <1>2, <2>1, <2>2
<1>4. PopBack(t) /\ write_set[t] # <<>> /\ phase' = phase /\ call' = call
  BY DEF CommitStep
<1>5. write_set' \in [Txns -> Seq(Item)] /\ \A u \in Txns : ItemsOK(u)'
  BY <1>3, <1>4, PopKeeps
<1> QED BY <1>2, <1>3, <1>4, <1>5, SamePhases

\* One record of Abort.
LEMMA AbortStepKeeps ==
  ASSUME HeapInv, NEW t \in Txns, AbortStep(t)
  PROVE  HeapInv'
PROOF
<1>1. PICK rid : rid = Last(t).rid
  OBVIOUS
<1>2. PagesInv' /\ PagesInv /\ OnlySlot(rid[1], rid[2])
  BY <1>1, AbortStepEffect DEF HeapInv
<1>3. SlotsStay /\ Len(pages') >= Len(pages)
  <2>1. SlotsStay
    BY <1>2, OnlySlotStays
  <2>2. Len(pages') >= Len(pages)
    BY <1>2 DEF OnlySlot, PagesInv
  <2> QED BY <2>1, <2>2
<1>4. PopBack(t) /\ write_set[t] # <<>> /\ phase' = phase /\ call' = call
  BY DEF AbortStep
<1>5. write_set' \in [Txns -> Seq(Item)] /\ \A u \in Txns : ItemsOK(u)'
  BY <1>3, <1>4, PopKeeps
<1> QED BY <1>2, <1>3, <1>4, <1>5, SamePhases

\* The start of InsertTuple: a tuple that fits in no page is refused.
LEMMA InsertTupleKeeps ==
  ASSUME HeapInv, NEW t \in Txns, NEW tuple \in Tuples, InsertTuple(t, tuple)
  PROVE  HeapInv'
PROOF
<1>1. /\ pages' = pages /\ write_set' = write_set
      /\ phase \in [Txns -> Phases] /\ call \in [Txns -> [tuple : Seq(Nat), page : Nat]]
      /\ tuple \in Seq(Nat) /\ tuple # <<>> /\ Len(pages) \in Nat /\ Len(pages) > 0
  BY HeapAssumption DEF InsertTuple, HeapInv, PagesInv
<1>2. PagesInv' /\ write_set' \in [Txns -> Seq(Item)] /\ \A u \in Txns : ItemsOK(u)'
  BY <1>1 DEF HeapInv, PagesInv, Chained, ItemsOK, Exists
<1>3. CASE Len(tuple) + SIZE_TABLE_PAGE_HEADER + SIZE_TUPLE > PAGE_SIZE
  <2>1. phase' = [phase EXCEPT ![t] = "failed"] /\ call' = call
    BY <1>3 DEF InsertTuple
  <2>2. phase' \in [Txns -> Phases]
    BY <1>1, <2>1 DEF Phases
  <2>3. \A u \in Txns : phase'[u] = "insert" => phase[u] = "insert" /\ call'[u] = call[u]
    BY <1>1, <2>1
  <2>4. \A u \in Txns : CallOK(u)'
    BY <1>1, <1>2, <2>3, CallsStay
  <2> QED BY <1>1, <1>2, <2>1, <2>2, <2>4 DEF HeapInv
<1>4. CASE ~ (Len(tuple) + SIZE_TABLE_PAGE_HEADER + SIZE_TUPLE > PAGE_SIZE)
  <2>1. PICK c : c = [tuple |-> tuple, page |-> 1]
    OBVIOUS
  <2>2. c \in [tuple : Seq(Nat), page : Nat] /\ c.tuple = tuple /\ c.page = 1
    BY <1>1, <2>1
  <2>3. phase' = [phase EXCEPT ![t] = "insert"] /\ call' = [call EXCEPT ![t] = c]
    BY <1>4, <2>1 DEF InsertTuple
  <2>4. phase' \in [Txns -> Phases] /\ call' \in [Txns -> [tuple : Seq(Nat), page : Nat]]
    BY <1>1, <2>2, <2>3 DEF Phases
  <2>5. call'[t] = c /\ \A u \in Txns : u # t => phase'[u] = phase[u] /\ call'[u] = call[u]
    BY <1>1, <2>3
  <2>6. Len(tuple) + SIZE_TABLE_PAGE_HEADER + SIZE_TUPLE <= PAGE_SIZE
    BY <1>1, <1>4, HeapAssumption
  <2>7. CallOK(t)'
    BY <1>1, <2>2, <2>5, <2>6 DEF CallOK
  <2>8. ASSUME NEW u \in Txns, u # t PROVE CallOK(u)'
    <3>1. Len(pages') >= Len(pages)
      BY <1>1
    <3>2. phase'[u] = phase[u] /\ call'[u] = call[u]
      BY <2>5, <2>8
    <3> QED BY <1>2, <3>1, <3>2, CallsStay
  <2> QED BY <1>2, <2>4, <2>7, <2>8 DEF HeapInv
<1> QED BY <1>3, <1>4

\* InsertTuple goes on to the next page of the chain.
LEMMA InsertGoOnKeeps ==
  ASSUME HeapInv, NEW t \in Txns, InsertGoOn(t)
  PROVE  HeapInv'
PROOF
<1>1. /\ pages' = pages /\ write_set' = write_set /\ phase' = phase
      /\ phase \in [Txns -> Phases] /\ call \in [Txns -> [tuple : Seq(Nat), page : Nat]]
      /\ Len(pages) \in Nat /\ phase[t] = "insert"
  BY DEF InsertGoOn, HeapInv, PagesInv
<1>2. PagesInv' /\ write_set' \in [Txns -> Seq(Item)] /\ \A u \in Txns : ItemsOK(u)'
  BY <1>1 DEF HeapInv, PagesInv, Chained, ItemsOK, Exists
<1>3. PICK p : p = call[t].page
  OBVIOUS
<1>4. PICK next : next = pages[p].next
  OBVIOUS
<1>5. /\ p \in 1 .. Len(pages) /\ next # 0
      /\ call' = [call EXCEPT ![t].page = next]
  BY <1>1, <1>3, <1>4 DEF HeapInv, CallOK, InsertGoOn, INVALID_PAGE_ID
<1>6. next \in 1 .. Len(pages)
  BY <1>1, <1>4, <1>5 DEF HeapInv, PagesInv, Chained, INVALID_PAGE_ID
<1>7. PICK c : c = [call[t] EXCEPT !.page = next]
  OBVIOUS
<1>8. c \in [tuple : Seq(Nat), page : Nat] /\ c.tuple = call[t].tuple /\ c.page = next
  BY <1>1, <1>6, <1>7
<1>9. call' = [call EXCEPT ![t] = c]
  BY <1>5, <1>7
<1>10. /\ call' \in [Txns -> [tuple : Seq(Nat), page : Nat]] /\ call'[t] = c
       /\ \A u \in Txns : u # t => call'[u] = call[u]
  BY <1>1, <1>8, <1>9
<1>11. CallOK(t)'
  BY <1>1, <1>6, <1>8, <1>10 DEF HeapInv, CallOK
<1>12. ASSUME NEW u \in Txns, u # t PROVE CallOK(u)'
  BY <1>1, <1>2, <1>10, <1>12, CallsStay
<1> QED BY <1>1, <1>2, <1>10, <1>11, <1>12 DEF HeapInv

\* A step that only changes the phase of a transaction.
LEMMA PhaseKeeps ==
  ASSUME HeapInv, NEW t \in Txns, NEW ph \in Phases \ {"insert"},
         phase' = [phase EXCEPT ![t] = ph], UNCHANGED <<pages, write_set, call>>
  PROVE  HeapInv'
PROOF
<1>1. PagesInv' /\ write_set' \in [Txns -> Seq(Item)] /\ \A u \in Txns : ItemsOK(u)'
  BY DEF HeapInv, PagesInv, Chained, ItemsOK, Exists
<1>2. phase' \in [Txns -> Phases] /\ call' \in [Txns -> [tuple : Seq(Nat), page : Nat]]
  BY DEF HeapInv
<1>3. \A u \in Txns : phase'[u] = "insert" => phase[u] = "insert" /\ call'[u] = call[u]
  BY DEF HeapInv
<1>4. Len(pages') >= Len(pages)
  BY DEF HeapInv, PagesInv
<1>5. \A u \in Txns : CallOK(u)'
  BY <1>1, <1>3, <1>4, CallsStay
<1> QED BY <1>1, <1>2, <1>5 DEF HeapInv

\* Every step preserves the invariant.
LEMMA HeapStep == HeapInv /\ [Next]_vars => HeapInv'
PROOF
<1> SUFFICES ASSUME HeapInv, [Next]_vars PROVE HeapInv'
  OBVIOUS
<1>1. ASSUME NEW t \in Txns, NEW tuple \in Tuples, InsertTuple(t, tuple) PROVE HeapInv'
  BY <1>1, InsertTupleKeeps
<1>2. ASSUME NEW t \in Txns, InsertHere(t) PROVE HeapInv'
  BY <1>2, InsertHereKeeps
<1>3. ASSUME NEW t \in Txns, InsertGoOn(t) PROVE HeapInv'
  BY <1>3, InsertGoOnKeeps
<1>4. ASSUME NEW t \in Txns, InsertNewPage(t) PROVE HeapInv'
  BY <1>4, InsertNewPageKeeps
<1>5. ASSUME NEW t \in Txns, NEW rid \in Rids, MarkDelete(t, rid) PROVE HeapInv'
  BY <1>5, MarkDeleteKeeps
<1>6. ASSUME NEW t \in Txns, NEW rid \in Rids, NEW tuple \in Tuples, UpdateTuple(t, rid, tuple)
      PROVE  HeapInv'
  BY <1>6, UpdateTupleKeeps
<1>7. ASSUME NEW t \in Txns, Commit(t) PROVE HeapInv'
  BY <1>7, PhaseKeeps DEF Commit, Phases
<1>8. ASSUME NEW t \in Txns, Abort(t) PROVE HeapInv'
  BY <1>8, PhaseKeeps DEF Abort, Phases
<1>9. ASSUME NEW t \in Txns, CommitStep(t) PROVE HeapInv'
  BY <1>9, CommitStepKeeps
<1>10. ASSUME NEW t \in Txns, AbortStep(t) PROVE HeapInv'
  BY <1>10, AbortStepKeeps
<1>11. ASSUME NEW t \in Txns, Finish(t) PROVE HeapInv'
  BY <1>11, PhaseKeeps DEF Finish, Phases
<1>12. ASSUME NEW s, ScanStep(s) PROVE HeapInv'
  BY <1>12, HeapStutter DEF ScanStep
<1>13. CASE Begin \/ BeginPage \/ BeginNextPage \/ Construct \/ ScanNext \/ ScanPage \/ ScanEnd
  <2>1. UNCHANGED <<pages, write_set, phase, call>>
    BY <1>13 DEF Begin, BeginPage, BeginNextPage, Construct, ScanNext, ScanPage, ScanEnd, ScanStep
  <2> QED BY <2>1, HeapStutter
<1>14. CASE UNCHANGED vars
  BY <1>14, HeapStutter DEF vars
<1> QED BY <1>1, <1>2, <1>3, <1>4, <1>5, <1>6, <1>7, <1>8, <1>9, <1>10, <1>11, <1>13, <1>14 DEF Next

\* The cells of Layout, from the layout slot by slot.
LEMMA HeapImpliesLayout == HeapInv => Layout
PROOF
<1> SUFFICES ASSUME HeapInv, NEW p \in 1 .. Len(pages)
             PROVE  LET page == pages[p]
                        used == {i \in 1 .. Len(page.slots) : page.slots[i].size > 0}
                        Cells(i) == page.slots[i].offset .. (page.slots[i].offset + page.slots[i].size - 1)
                    IN /\ GetFreeSpaceRemaining(page) >= 0
                       /\ UNION {Cells(i) : i \in used} = page.free_space_pointer .. (PAGE_SIZE - 1)
                       /\ \A i, j \in used : i # j => Cells(i) \cap Cells(j) = {}
  BY DEF Layout
<1>1. PICK page : page = pages[p]
  OBVIOUS
<1> DEFINE Cells(i) == page.slots[i].offset .. (page.slots[i].offset + page.slots[i].size - 1)
           used == {i \in 1 .. Len(page.slots) : page.slots[i].size > 0}
<1>2. PageOK(page) /\ PAGE_SIZE \in Nat /\ page \in PageType
  BY <1>1, HeapAssumption DEF HeapInv, PagesInv, PageOK
<1>3. PICK f \in Nat : f = page.free_space_pointer
  BY <1>2, PageFacts
<1>4. used = Used(page)
  BY DEF Used
<1>5. \A i \in used : /\ Start(page, i) \in Nat /\ End(page, i) \in Nat
                      /\ f <= Start(page, i) /\ End(page, i) <= PAGE_SIZE
                      /\ Cells(i) = Start(page, i) .. (End(page, i) - 1)
  BY <1>2, <1>3, <1>4, PageFacts, SMTT(60) DEF Start, End, PageOK, Inside, Used
<1> HIDE DEF Cells, used
<1>6. \A i \in used : \A o : o \in Cells(i) <=> o \in Int /\ Start(page, i) <= o /\ o < End(page, i)
  BY <1>5
<1>7. \A i, j \in used : i # j => Cells(i) \cap Cells(j) = {}
  <2> SUFFICES ASSUME NEW i \in used, NEW j \in used, i # j, NEW o \in Cells(i), o \in Cells(j)
               PROVE  FALSE
    OBVIOUS
  <2>1. End(page, i) <= Start(page, j) \/ End(page, j) <= Start(page, i)
    BY <1>2, <1>4 DEF PageOK, Apart
  <2> QED BY <1>5, <1>6, <2>1
<1>8. \A o : (\E i \in used : o \in Cells(i)) <=> o \in f .. (PAGE_SIZE - 1)
  <2>1. ASSUME NEW i \in used, NEW o \in Cells(i) PROVE o \in f .. (PAGE_SIZE - 1)
    BY <1>2, <1>5, <1>6
  <2>2. ASSUME NEW o \in f .. (PAGE_SIZE - 1) PROVE \E i \in used : o \in Cells(i)
    <3>1. PICK i \in used : Start(page, i) <= o /\ o < End(page, i)
      BY <1>2, <1>3, <1>4 DEF PageOK, Covered
    <3> QED BY <1>6, <3>1
  <2> QED BY <2>1, <2>2
<1>9. UNION {Cells(i) : i \in used} = f .. (PAGE_SIZE - 1)
  BY <1>8, Zenon
<1>10. GetFreeSpaceRemaining(page) >= 0
  BY <1>2 DEF PageOK
<1> QED BY <1>1, <1>3, <1>7, <1>9, <1>10 DEF Cells, used

(***************************************************************************)
(* The tuples of a page fill it from the free space pointer to its end and   *)
(* none lies over another, whatever sequence of insertions, updates that     *)
(* grow or shrink a tuple, deletions and roll-backs of any transactions      *)
(* TablePage has performed.                                                 *)
(***************************************************************************)
THEOREM PagesStayLaidOut == Spec => []Layout
PROOF
<1>1. HeapInv => Layout
  BY HeapImpliesLayout
<1> QED BY HeapInit, HeapStep, <1>1, PTL DEF Spec

-----------------------------------------------------------------------------
(* ScanInv is inductive.                                                   *)

\* A record id is a page and a slot.
LEMMA RidFacts ==
  ASSUME NEW r \in Rids
  PROVE  r \in Nat \X Nat /\ r[1] \in Nat /\ r[2] \in Nat /\ r = <<r[1], r[2]>> /\ r[1] >= 1
BY HeapAssumption DEF Rids

\* What is Live has a slot that is found.
LEMMA LiveIsFound ==
  ASSUME PagesInv, NEW r, Live(r), NEW i \in Nat, r[2] >= i
  PROVE  r[2] \in TuplesFrom(r[1], i)
PROOF
<1>1. r[1] \in 1 .. Len(pages) /\ r[2] \in 1 .. Len(pages[r[1]].slots)
      /\ ~ IsDeleted(pages[r[1]].slots[r[2]])
  BY DEF Live, Exists, Slot
<1>2. Len(pages[r[1]].slots) \in Nat
  BY <1>1, PageFacts DEF PagesInv, PageOK
<1> QED BY <1>1, <1>2 DEF TuplesFrom

\* First is the least of them.
LEMMA FirstFacts ==
  ASSUME PagesInv, NEW p \in 1 .. Len(pages), NEW i \in Nat, TuplesFrom(p, i) # {}
  PROVE  LET f == First(TuplesFrom(p, i))
         IN  f \in Nat /\ f >= i /\ \A k \in TuplesFrom(p, i) : k \in Nat /\ f <= k
PROOF
<1>1. Len(pages[p].slots) \in Nat
  BY PageFacts DEF PagesInv, PageOK
<1>2. PICK S : S = TuplesFrom(p, i)
  OBVIOUS
<1>3. S \in SUBSET Nat /\ S # {} /\ \A k \in S : k >= i
  BY <1>1, <1>2 DEF TuplesFrom
<1>4. \E j \in S : \A k \in S : j <= k
  BY <1>3, LeastExists
<1>5. First(S) \in S /\ \A k \in S : First(S) <= k
  BY <1>4 DEF First
<1> QED BY <1>2, <1>3, <1>5

\* The scan after operator++ or Begin has searched page p.
LEMMA SearchedOK ==
  ASSUME HeapInv, scan \in ScanType, NEW p \in 1 .. Len(pages), NEW i \in Nat,
         \A r \in scan.must : Live(r) /\ (r[1] > p \/ (r[1] = p /\ r[2] >= i))
  PROVE  ScanOK(Searched(p, i))
PROOF
<1>1. PICK s : s = Searched(p, i)
  OBVIOUS
<1>2. PICK must : must = scan.must
  OBVIOUS
<1>3. /\ PagesInv /\ Len(pages) \in Nat /\ p \in Nat /\ must \in SUBSET Rids
      /\ pages[p].next = IF p = Len(pages) THEN 0 ELSE p + 1
  BY <1>2 DEF HeapInv, PagesInv, Chained, ScanType, INVALID_PAGE_ID
<1>4. \A r \in must : Live(r) /\ r \in Rids /\ (r[1] > p \/ (r[1] = p /\ r[2] >= i))
  BY <1>2, <1>3
<1>5. CASE TuplesFrom(p, i) # {}
  <2>1. PICK f : f = First(TuplesFrom(p, i))
    OBVIOUS
  <2>2. f \in Nat /\ \A k \in TuplesFrom(p, i) : k \in Nat /\ f <= k
    BY <1>3, <1>5, <2>1, FirstFacts
  <2>3. s = [scan EXCEPT !.at = "on", !.rid = <<p, f>>, !.must = must \ {<<p, f>>}]
    BY <1>1, <1>2, <1>5, <2>1 DEF Searched, On
  <2>4. s \in ScanType /\ s.at = "on" /\ s.rid = <<p, f>> /\ s.must = must \ {<<p, f>>}
    BY <1>3, <2>2, <2>3 DEF ScanType, Moving
  <2>5. ASSUME NEW r \in s.must PROVE Live(r) /\ Ahead(s, r)
    <3>1. Live(r) /\ r \in Rids /\ (r[1] > p \/ (r[1] = p /\ r[2] >= i)) /\ r # <<p, f>>
      BY <1>4, <2>4, <2>5
    <3>2. CASE r[1] > p
      BY <2>4, <3>1, <3>2 DEF Ahead
    <3>3. CASE r[1] = p /\ r[2] >= i
      <4>1. r[2] \in TuplesFrom(p, i)
        BY <1>3, <3>1, <3>3, LiveIsFound
      <4>2. r[2] \in Nat /\ f <= r[2] /\ r[2] # f
        BY <2>2, <3>1, <3>3, <4>1, RidFacts
      <4> QED BY <2>2, <2>4, <3>1, <3>3, <4>2 DEF Ahead
    <3> QED BY <3>1, <3>2, <3>3
  <2>6. s.rid[1] \in 1 .. Len(pages)
    BY <2>4
  <2> QED BY <1>1, <2>4, <2>5, <2>6 DEF ScanOK
<1>6. CASE TuplesFrom(p, i) = {}
  <2>1. \A r \in must : r[1] > p
    BY <1>3, <1>4, <1>6, LiveIsFound
  <2>2. CASE p # Len(pages)
    <3>0. PICK next \in Nat : next = p + 1 /\ next # 0 /\ pages[p].next = next
      BY <1>3, <2>2
    <3>1. s = [scan EXCEPT !.at = "page", !.rid = <<next, 0>>]
      BY <1>1, <1>6, <3>0 DEF Searched, INVALID_PAGE_ID
    <3>2. s \in ScanType /\ s.at = "page" /\ s.rid = <<p + 1, 0>> /\ s.must = must
      <4>1. s \in ScanType /\ s.at = "page" /\ s.rid = <<next, 0>> /\ s.must = must
        BY <1>2, <3>1 DEF ScanType, Moving
      <4> QED BY <3>0, <4>1
    <3>3. \A r \in must : r[1] >= p + 1
      BY <1>3, <1>4, <2>1, RidFacts
    <3>4. \A r \in must : Ahead(s, r)
      BY <3>2, <3>3 DEF Ahead
    <3>5. s.rid[1] \in 1 .. Len(pages)
      BY <1>3, <2>2, <3>2
    <3> QED BY <1>1, <1>4, <3>2, <3>4, <3>5 DEF ScanOK
  <2>3. CASE p = Len(pages)
    <3>1. s = [scan EXCEPT !.at = "end", !.rid = <<0, 0>>]
      BY <1>1, <1>3, <1>6, <2>3 DEF Searched, AtEnd, INVALID_PAGE_ID
    <3>2. s \in ScanType /\ s.at = "end" /\ s.must = must
      BY <1>2, <1>3, <3>1 DEF ScanType, Moving
    <3>3. must = {}
      <4>1. ASSUME NEW r \in must PROVE FALSE
        <5>1. r[1] > p /\ r[1] \in 1 .. Len(pages)
          BY <1>4, <2>1 DEF Live, Exists
        <5> QED BY <1>3, <2>3, <5>1
      <4> QED BY <4>1
    <3> QED BY <1>1, <3>2, <3>3 DEF ScanOK, Moving
  <2> QED BY <2>2, <2>3
<1> QED BY <1>5, <1>6

\* A step of the scan alone.
LEMMA ScanStepOK ==
  ASSUME HeapInv, NEW s, ScanOK(s), ScanStep(s)
  PROVE  ScanOK(scan)'
BY DEF ScanStep, ScanOK, Live, Exists, Slot, Ahead

\* What is ahead of a scan depends on its place only.
LEMMA AheadSame ==
  ASSUME NEW s, NEW z, NEW r, s.at = z.at, s.rid = z.rid
  PROVE  Ahead(s, r) => Ahead(z, r)
BY DEF Ahead

\* A step of a transaction, after which the scan has to return what is still there of
\* what it had to return before.
LEMMA ScanWaits ==
  ASSUME HeapInv, HeapInv', ScanOK(scan), Len(pages') >= Len(pages),
         \/ KeepMust
         \/ scan' = scan /\ \A r : Live(r) => Live(r)'
  PROVE  ScanOK(scan)'
PROOF
<1>1. /\ scan' \in ScanType /\ scan'.at = scan.at /\ scan'.rid = scan.rid
      /\ \A r \in scan'.must : r \in scan.must /\ Live(r)'
  <2>1. CASE KeepMust
    <3>1. PICK must : must = {r \in scan.must : Live(r)'}
      OBVIOUS
    <3>2. scan' = [scan EXCEPT !.must = must] /\ scan \in ScanType
      BY <2>1, <3>1 DEF KeepMust, ScanOK
    <3>3. must \subseteq scan.must /\ scan.must \subseteq Rids
      BY <3>1, <3>2 DEF ScanType
    <3>4. scan' \in ScanType /\ scan'.at = scan.at /\ scan'.rid = scan.rid /\ scan'.must = must
      BY <3>2, <3>3 DEF ScanType
    <3> QED BY <3>1, <3>4
  <2>2. CASE scan' = scan /\ \A r : Live(r) => Live(r)'
    BY <2>2 DEF ScanOK
  <2> QED BY <2>1, <2>2
<1>2. \A r \in scan'.must : Ahead(scan, r)'
  <2>1. \A r \in scan'.must : Ahead(scan, r)
    BY <1>1 DEF ScanOK
  <2>2. PICK s : s = scan
    OBVIOUS
  <2>3. PICK z : z = scan'
    OBVIOUS
  <2>4. \A r \in z.must : Ahead(z, r)
    BY <1>1, <2>1, <2>2, <2>3, AheadSame
  <2>5. \A r \in z.must : Ahead(scan, r)'
    BY <2>3, <2>4, Zenon DEF Ahead
  <2> QED BY <2>3, <2>5
<1>3. Len(pages) \in Nat /\ Len(pages') \in Nat
  BY DEF HeapInv, PagesInv
<1>4. scan'.at \in Moving => scan'.rid[1] \in 1 .. Len(pages')
  BY <1>1, <1>3 DEF ScanOK
<1> QED BY <1>1, <1>2, <1>4 DEF ScanOK

\* No scan yet.
LEMMA ScanInit == Init => ScanInv
PROOF
<1> SUFFICES ASSUME Init PROVE ScanInv
  OBVIOUS
<1>1. scan = [at |-> "none", rid |-> <<0, 0>>, must |-> {}]
  BY DEF Init, NoScan
<1>2. scan \in ScanType /\ scan.at = "none" /\ scan.must = {}
  BY <1>1 DEF ScanType
<1> QED BY <1>2, HeapInit DEF ScanInv, ScanOK, Moving

\* TableHeap::Begin starts at the first page.
LEMMA BeginKeeps ==
  ASSUME ScanInv, Begin PROVE ScanOK(scan)'
PROOF
<1>1. PICK s : s = [at |-> "first", rid |-> <<1, 0>>, must |-> {r \in Rids : Live(r)}]
  OBVIOUS
<1>2. s \in ScanType /\ s.at = "first" /\ s.rid = <<1, 0>> /\ s.must = {r \in Rids : Live(r)}
  BY <1>1 DEF ScanType, Moving
<1>3. \A r \in s.must : Live(r) /\ Ahead(s, r)
  BY <1>2, RidFacts DEF Ahead
<1>4. s.rid[1] \in 1 .. Len(pages)
  BY <1>2 DEF ScanInv, HeapInv, PagesInv
<1>5. ScanOK(s)
  BY <1>2, <1>3, <1>4 DEF ScanOK
<1> QED BY <1>1, <1>5, ScanStepOK DEF Begin, ScanInv

\* Where the scan is and what it has to return yet.
LEMMA ScanFacts ==
  ASSUME ScanInv, scan.at \in Moving
  PROVE  /\ PagesInv /\ scan \in ScanType /\ scan.rid \in Nat \X Nat
         /\ Len(pages) \in Nat /\ scan.rid[1] \in 1 .. Len(pages) /\ scan.rid[2] \in Nat
         /\ scan.must \in SUBSET Rids
         /\ \A r \in scan.must : Live(r) /\ Ahead(scan, r) /\ r \in Rids
                                 /\ r[1] \in 1 .. Len(pages) /\ r[2] \in Nat /\ r[2] >= 1
PROOF
<1>1. /\ PagesInv /\ scan \in ScanType /\ Len(pages) \in Nat /\ scan.rid[1] \in 1 .. Len(pages)
      /\ \A r \in scan.must : Live(r) /\ Ahead(scan, r)
  BY DEF ScanInv, ScanOK, HeapInv, PagesInv
<1>2. scan.rid \in Nat \X Nat /\ scan.must \in SUBSET Rids /\ scan.rid[2] \in Nat
  BY <1>1 DEF ScanType
<1>3. ASSUME NEW r \in scan.must PROVE r[1] \in 1 .. Len(pages) /\ r[2] \in Nat /\ r[2] >= 1
  <2>1. r[1] \in 1 .. Len(pages) /\ r[2] \in 1 .. Len(pages[r[1]].slots)
    BY <1>1 DEF Live, Exists
  <2>2. Len(pages[r[1]].slots) \in Nat
    BY <1>1, <2>1, PageFacts DEF PagesInv, PageOK
  <2> QED BY <2>1, <2>2
<1> QED BY <1>1, <1>2, <1>3

\* Begin looks for the first tuple of a page.
LEMMA BeginPageKeeps ==
  ASSUME ScanInv, BeginPage PROVE ScanOK(scan)'
PROOF
<1>0. scan.at = "first" /\ HeapInv
  BY DEF BeginPage, ScanInv
<1>1. scan.at \in Moving
  BY <1>0 DEF Moving
<1>2. PICK p : p = scan.rid[1]
  OBVIOUS
<1>3. PICK must : must = scan.must
  OBVIOUS
<1>4. /\ PagesInv /\ scan \in ScanType /\ p \in 1 .. Len(pages) /\ p \in Nat /\ must \in SUBSET Rids
      /\ \A r \in must : Live(r) /\ r[1] >= p /\ r[1] \in Nat /\ r[2] \in Nat /\ r[2] >= 1
  BY <1>0, <1>1, <1>2, <1>3, ScanFacts DEF Ahead
<1>5. CASE TuplesFrom(p, 1) # {}
  <2>1. PICK f : f = First(TuplesFrom(p, 1))
    OBVIOUS
  <2>2. f \in Nat /\ \A k \in TuplesFrom(p, 1) : k \in Nat /\ f <= k
    BY <1>4, <1>5, <2>1, FirstFacts
  <2>3. PICK s : s = [scan EXCEPT !.at = "construct", !.rid = <<p, f>>]
    OBVIOUS
  <2>4. ScanStep(s)
    BY <1>2, <1>5, <2>1, <2>3 DEF BeginPage
  <2>5. s \in ScanType /\ s.at = "construct" /\ s.rid = <<p, f>> /\ s.must = must
    BY <1>3, <1>4, <2>2, <2>3 DEF ScanType, Moving
  <2>6. ASSUME NEW r \in must PROVE Ahead(s, r)
    <3>1. CASE r[1] = p
      <4>1. r[2] \in TuplesFrom(p, 1)
        BY <1>4, <2>6, <3>1, LiveIsFound
      <4> QED BY <2>2, <2>5, <3>1, <4>1 DEF Ahead
    <3>2. CASE r[1] # p
      BY <1>4, <2>5, <3>2 DEF Ahead
    <3> QED BY <3>1, <3>2
  <2>7. ScanOK(s)
    BY <1>4, <2>5, <2>6 DEF ScanOK
  <2> QED BY <1>0, <2>4, <2>7, ScanStepOK
<1>6. CASE TuplesFrom(p, 1) = {}
  <2>1. PICK s : s = [scan EXCEPT !.at = "none first"]
    OBVIOUS
  <2>2. ScanStep(s)
    BY <1>2, <1>6, <2>1 DEF BeginPage
  <2>3. s \in ScanType /\ s.at = "none first" /\ s.rid = scan.rid /\ s.must = must
    BY <1>3, <1>4, <2>1 DEF ScanType, Moving
  <2>4. ASSUME NEW r \in must PROVE Ahead(s, r)
    <3>1. r[1] # p
      BY <1>4, <1>6, <2>4, LiveIsFound
    <3>2. r[1] > p
      BY <1>4, <2>4, <3>1
    <3> QED BY <1>2, <2>3, <3>2 DEF Ahead
  <2>5. ScanOK(s)
    BY <1>2, <1>4, <2>3, <2>4 DEF ScanOK
  <2> QED BY <1>0, <2>2, <2>5, ScanStepOK
<1> QED BY <1>5, <1>6

\* The three ways Begin goes on: to the next page, or to End; where a frame that was
\* reused leads it; out of the table.
OwnFrame == scan.at = "none first" /\ ScanStep(FirstOn(pages[scan.rid[1]].next))
ReusedFrame(next) == scan.at = "none first" /\ ScanStep([FirstOn(next) EXCEPT !.must = {}])
LeftTable == scan.at = "none first" /\ ScanStep([scan EXCEPT !.at = "astray", !.must = {}])

\* Begin goes on to the next page, or returns End.
LEMMA NextPageKeeps ==
  ASSUME ScanInv, OwnFrame PROVE ScanOK(scan)'
PROOF
<1>0. scan.at = "none first" /\ HeapInv
  BY DEF ScanInv, OwnFrame
<1>1. scan.at \in Moving
  BY <1>0 DEF Moving
<1>2. PICK p : p = scan.rid[1]
  OBVIOUS
<1>3. PICK must : must = scan.must
  OBVIOUS
<1>4. /\ PagesInv /\ scan \in ScanType /\ p \in 1 .. Len(pages) /\ p \in Nat /\ must \in SUBSET Rids
      /\ \A r \in must : Live(r) /\ r[1] > p /\ r[1] \in 1 .. Len(pages)
      /\ Len(pages) \in Nat
  BY <1>0, <1>1, <1>2, <1>3, ScanFacts DEF Ahead
<1>5. PICK next : next = pages[p].next
  OBVIOUS
<1>6. next = IF p = Len(pages) THEN 0 ELSE p + 1
  BY <1>4, <1>5 DEF PagesInv, Chained, INVALID_PAGE_ID
<1>7. CASE p = Len(pages)
  <2>1. PICK s : s = [scan EXCEPT !.at = "end", !.rid = <<0, 0>>]
    OBVIOUS
  <2>2. ScanStep(s)
    BY <1>2, <1>5, <1>6, <1>7, <2>1 DEF OwnFrame, FirstOn, AtEnd, INVALID_PAGE_ID
  <2>3. s \in ScanType /\ s.at = "end" /\ s.must = must
    BY <1>3, <1>4, <2>1 DEF ScanType, Moving
  <2>4. must = {}
    BY <1>4, <1>7
  <2>5. ScanOK(s)
    BY <2>3, <2>4 DEF ScanOK, Moving
  <2> QED BY <1>0, <2>2, <2>5, ScanStepOK
<1>8. CASE p # Len(pages)
  <2>0. next \in Nat /\ next # 0 /\ next = p + 1 /\ next \in 1 .. Len(pages)
    BY <1>4, <1>6, <1>8
  <2>1. PICK s : s = [scan EXCEPT !.at = "first", !.rid = <<next, 0>>]
    OBVIOUS
  <2>2. ScanStep(s)
    BY <1>2, <1>5, <2>0, <2>1 DEF OwnFrame, FirstOn, INVALID_PAGE_ID
  <2>3. s \in ScanType /\ s.at = "first" /\ s.rid = <<next, 0>> /\ s.must = must
    BY <1>3, <1>4, <2>0, <2>1 DEF ScanType, Moving
  <2>4. \A r \in must : r[1] >= next
    BY <1>4, <2>0
  <2>5. ScanOK(s)
    BY <1>4, <2>0, <2>3, <2>4 DEF ScanOK, Ahead
  <2> QED BY <1>0, <2>2, <2>5, ScanStepOK
<1> QED BY <1>7, <1>8

\* The next page id was read from a frame that holds another page.
LEMMA ReusedFrameKeeps ==
  ASSUME ScanInv, NEW next \in 0 .. Len(pages), ReusedFrame(next) PROVE ScanOK(scan)'
PROOF
<1>0. scan.at = "none first" /\ scan.at \in Moving
  BY DEF ReusedFrame, Moving
<1>1. scan \in ScanType /\ HeapInv /\ Len(pages) \in Nat /\ next \in Nat
  <2>1. scan \in ScanType /\ Len(pages) \in Nat
    BY <1>0, ScanFacts
  <2> QED BY <2>1 DEF ScanInv
<1>2. CASE next = 0
  <2>1. PICK s : s = [[scan EXCEPT !.at = "end", !.rid = <<0, 0>>] EXCEPT !.must = {}]
    OBVIOUS
  <2>2. ScanStep(s)
    BY <1>2, <2>1 DEF ReusedFrame, FirstOn, AtEnd, INVALID_PAGE_ID
  <2>3. s = [at |-> "end", rid |-> <<0, 0>>, must |-> {}]
    BY <1>1, <2>1 DEF ScanType
  <2>4. s \in ScanType /\ s.at = "end" /\ s.must = {}
    BY <2>3 DEF ScanType
  <2>5. ScanOK(s)
    BY <2>4 DEF ScanOK, Moving
  <2> QED BY <1>1, <2>2, <2>5, ScanStepOK
<1>3. CASE next # 0
  <2>1. PICK s : s = [[scan EXCEPT !.at = "first", !.rid = <<next, 0>>] EXCEPT !.must = {}]
    OBVIOUS
  <2>2. ScanStep(s)
    BY <1>3, <2>1 DEF ReusedFrame, FirstOn, INVALID_PAGE_ID
  <2>3. s = [at |-> "first", rid |-> <<next, 0>>, must |-> {}]
    BY <1>1, <2>1 DEF ScanType
  <2>4. s \in ScanType /\ s.rid[1] = next /\ s.must = {}
    BY <1>1, <2>3 DEF ScanType, Moving
  <2>5. ScanOK(s)
    BY <1>1, <1>3, <2>4 DEF ScanOK
  <2> QED BY <1>1, <2>2, <2>5, ScanStepOK
<1> QED BY <1>2, <1>3

\* It led out of the table.
LEMMA LeftTableKeeps ==
  ASSUME ScanInv, LeftTable PROVE ScanOK(scan)'
PROOF
<1>1. HeapInv /\ scan \in ScanType
  BY DEF ScanInv, ScanOK
<1>2. PICK s : s = [scan EXCEPT !.at = "astray", !.must = {}]
  OBVIOUS
<1>3. ScanStep(s)
  BY <1>2 DEF LeftTable
<1>4. s \in ScanType /\ s.at = "astray" /\ s.must = {}
  BY <1>1, <1>2 DEF ScanType
<1>5. ScanOK(s)
  BY <1>4 DEF ScanOK, Moving
<1> QED BY <1>1, <1>3, <1>5, ScanStepOK

LEMMA BeginNextPageKeeps ==
  ASSUME ScanInv, BeginNextPage PROVE ScanOK(scan)'
PROOF
<1>1. OwnFrame \/ (\E next \in 0 .. Len(pages) : ReusedFrame(next)) \/ LeftTable
  BY DEF BeginNextPage, OwnFrame, ReusedFrame, LeftTable
<1> QED BY <1>1, NextPageKeeps, ReusedFrameKeeps, LeftTableKeeps

\* The constructor of the iterator reads the tuple Begin found.
LEMMA ConstructKeeps ==
  ASSUME ScanInv, Construct PROVE ScanOK(scan)'
PROOF
<1>0. scan.at = "construct" /\ HeapInv
  BY DEF Construct, ScanInv
<1>1. scan.at \in Moving
  BY <1>0 DEF Moving
<1>2. PICK rid : rid = scan.rid
  OBVIOUS
<1>3. PICK must : must = scan.must
  OBVIOUS
<1>4. /\ PagesInv /\ scan \in ScanType /\ rid \in Nat \X Nat /\ rid[1] \in 1 .. Len(pages)
      /\ must \in SUBSET Rids
      /\ \A r \in must : /\ Live(r) /\ r[2] \in Nat
                         /\ r[1] > rid[1] \/ (r[1] = rid[1] /\ r[2] >= rid[2])
  BY <1>0, <1>1, <1>2, <1>3, ScanFacts DEF Ahead
<1>5. PICK s : s = [scan EXCEPT !.at = "on", !.must = must \ {rid}]
  OBVIOUS
<1>6. ScanStep(s)
  BY <1>2, <1>3, <1>5 DEF Construct
<1>7. s \in ScanType /\ s.at = "on" /\ s.rid = rid /\ s.must = must \ {rid}
  BY <1>2, <1>4, <1>5 DEF ScanType, Moving
<1>8. ASSUME NEW r \in s.must PROVE Live(r) /\ Ahead(s, r)
  <2>1. /\ Live(r) /\ r[2] \in Nat /\ r # rid /\ r \in Rids
        /\ r[1] > rid[1] \/ (r[1] = rid[1] /\ r[2] >= rid[2])
    <3>1. r \in must /\ r # rid
      BY <1>7, <1>8
    <3> QED BY <1>4, <3>1
  <2>2. r = <<r[1], r[2]>> /\ rid = <<rid[1], rid[2]>> /\ rid[2] \in Nat
    BY <1>4, <2>1, RidFacts
  <2>3. CASE r[1] > rid[1]
    BY <1>7, <2>1, <2>3 DEF Ahead
  <2>4. CASE r[1] = rid[1] /\ r[2] >= rid[2]
    <3>1. r[2] # rid[2]
      BY <2>1, <2>2, <2>4
    <3> QED BY <1>7, <2>1, <2>2, <2>4, <3>1 DEF Ahead
  <2> QED BY <2>1, <2>3, <2>4
<1>9. ScanOK(s)
  BY <1>4, <1>7, <1>8 DEF ScanOK
<1> QED BY <1>0, <1>6, <1>9, ScanStepOK

\* operator++: the next tuple of the page, or of a later one.
LEMMA SearchKeeps ==
  ASSUME ScanInv, ScanNext \/ ScanPage PROVE ScanOK(scan)'
PROOF
<1>0. scan.at \in {"on", "page"} /\ scan.at \in Moving /\ HeapInv
  BY DEF ScanNext, ScanPage, Moving, ScanInv
<1>1. PICK p : p = scan.rid[1]
  OBVIOUS
<1>2. PICK i : i = IF scan.at = "on" THEN scan.rid[2] + 1 ELSE 1
  OBVIOUS
<1>3. ScanStep(Searched(p, i))
  BY <1>1, <1>2 DEF ScanNext, ScanPage
<1>4. /\ scan \in ScanType /\ p \in 1 .. Len(pages) /\ i \in Nat
      /\ \A r \in scan.must : Live(r) /\ (r[1] > p \/ (r[1] = p /\ r[2] >= i))
  <2>1. /\ scan \in ScanType /\ p \in 1 .. Len(pages) /\ p \in Nat /\ scan.rid[2] \in Nat
        /\ \A r \in scan.must : Live(r) /\ r[1] \in Nat /\ r[2] \in Nat /\ r[2] >= 1
    BY <1>0, <1>1, ScanFacts
  <2>2. \A r \in scan.must : Ahead(scan, r)
    BY <1>0, ScanFacts
  <2>3. CASE scan.at = "on"
    BY <1>1, <1>2, <2>1, <2>2, <2>3 DEF Ahead
  <2>4. CASE scan.at = "page"
    BY <1>1, <1>2, <2>1, <2>2, <2>4 DEF Ahead
  <2> QED BY <1>0, <2>3, <2>4
<1>5. ScanOK(Searched(p, i))
  BY <1>0, <1>4, SearchedOK
<1>6. PICK s : s = Searched(p, i)
  OBVIOUS
<1> QED BY <1>0, <1>3, <1>5, <1>6, ScanStepOK

\* The scan is over and may start again.
LEMMA ScanEndKeeps ==
  ASSUME ScanInv, ScanEnd PROVE ScanOK(scan)'
PROOF
<1>1. PICK s : s = NoScan
  OBVIOUS
<1>2. s \in ScanType /\ s.at = "none" /\ s.must = {}
  BY <1>1 DEF NoScan, ScanType
<1>3. ScanOK(s) /\ ScanStep(s)
  BY <1>1, <1>2 DEF ScanOK, Moving, ScanEnd
<1> QED BY <1>3, ScanStepOK DEF ScanInv

\* Every step preserves the invariant.
LEMMA ScanInvStep == ScanInv /\ [Next]_vars => ScanInv'
PROOF
<1> SUFFICES ASSUME ScanInv, [Next]_vars PROVE ScanOK(scan)'
  BY HeapStep DEF ScanInv
<1>0. HeapInv /\ HeapInv' /\ ScanOK(scan) /\ PagesInv /\ PagesInv'
  BY HeapStep DEF ScanInv, HeapInv
<1>a. ASSUME UNCHANGED <<pages, scan>> PROVE ScanOK(scan)'
  BY <1>0, <1>a DEF ScanOK, Live, Exists, Slot, Ahead
<1>b. ASSUME NEW p, NEW i, OnlySlot(p, i) PROVE Len(pages') >= Len(pages)
  BY <1>0, <1>b DEF OnlySlot, PagesInv
<1>1. ASSUME NEW t \in Txns, NEW tuple \in Tuples, InsertTuple(t, tuple) PROVE ScanOK(scan)'
  BY <1>1, <1>a DEF InsertTuple
<1>2. ASSUME NEW t \in Txns, InsertHere(t) PROVE ScanOK(scan)'
  <2>1. PICK p, i : OnlySlot(p, i)
    BY <1>0, <1>2, InsertHereEffect
  <2>2. KeepMust
    BY <1>2 DEF InsertHere
  <2> QED BY <1>0, <1>b, <2>1, <2>2, ScanWaits
<1>3. ASSUME NEW t \in Txns, InsertGoOn(t) PROVE ScanOK(scan)'
  BY <1>3, <1>a DEF InsertGoOn
<1>4. ASSUME NEW t \in Txns, InsertNewPage(t) PROVE ScanOK(scan)'
  <2>1. PICK new : new = Len(pages) + 1
    OBVIOUS
  <2>2. scan' = scan
    BY <1>4 DEF InsertNewPage
  <2>3. CASE new > MaxPages
    BY <1>4, <1>a, <2>1, <2>2, <2>3 DEF InsertNewPage
  <2>4. CASE ~ (new > MaxPages)
    <3>1. Grown(new)
      BY <1>0, <1>4, <2>1, <2>4, NewPageEffect
    <3>2. \A r : Live(r) => Live(r)'
      BY <1>0, <3>1, GrownStays DEF Live, IsDeleted
    <3>3. Len(pages') >= Len(pages)
      BY <1>0, <3>1 DEF Grown, PagesInv
    <3> QED BY <1>0, <2>2, <3>2, <3>3, ScanWaits
  <2> QED BY <2>3, <2>4
<1>5. ASSUME NEW t \in Txns, NEW rid \in Rids, MarkDelete(t, rid) PROVE ScanOK(scan)'
  <2>1. OnlySlot(rid[1], rid[2])
    BY <1>0, <1>5, MarkDeleteEffect
  <2>2. KeepMust
    BY <1>5 DEF MarkDelete
  <2> QED BY <1>0, <1>b, <2>1, <2>2, ScanWaits
<1>6. ASSUME NEW t \in Txns, NEW rid \in Rids, NEW tuple \in Tuples, UpdateTuple(t, rid, tuple)
      PROVE  ScanOK(scan)'
  <2>1. /\ OnlySlot(rid[1], rid[2]) /\ Live(rid)
        /\ Slot(rid)'.size > 0 /\ ~ Slot(rid)'.marked
    BY <1>0, <1>6, UpdateTupleEffect
  <2>2. scan' = scan
    BY <1>6 DEF UpdateTuple
  <2>3. ASSUME NEW r, Live(r) PROVE Live(r)'
    <3>1. /\ Exists(r)' /\ Exists(r)
          /\ r[1] # rid[1] \/ r[2] # rid[2] =>
               Slot(r)'.size = Slot(r).size /\ Slot(r)'.marked = Slot(r).marked
      BY <1>0, <2>1, <2>3, OthersStay DEF Live
    <3>2. CASE r[1] # rid[1] \/ r[2] # rid[2]
      BY <2>3, <3>1, <3>2 DEF Live, IsDeleted
    <3>3. CASE r[1] = rid[1] /\ r[2] = rid[2]
      <4>1. Slot(r)'.size > 0 /\ ~ Slot(r)'.marked
        BY <2>1, <3>3 DEF Slot
      <4> QED BY <3>1, <4>1 DEF Live, IsDeleted
    <3> QED BY <3>2, <3>3
  <2> QED BY <1>0, <1>b, <2>1, <2>2, <2>3, ScanWaits
<1>7. ASSUME NEW t \in Txns, Commit(t) \/ Abort(t) \/ Finish(t) PROVE ScanOK(scan)'
  BY <1>7, <1>a DEF Commit, Abort, Finish
<1>8. ASSUME NEW t \in Txns, CommitStep(t) PROVE ScanOK(scan)'
  <2>1. KeepMust
    BY <1>8 DEF CommitStep
  <2>2. Len(pages') >= Len(pages)
    <3>1. PICK rid : rid = Last(t).rid
      OBVIOUS
    <3>2. pages' = pages \/ OnlySlot(rid[1], rid[2])
      BY <1>0, <1>8, <3>1, CommitStepEffect
    <3> QED BY <1>0, <1>b, <3>2 DEF PagesInv
  <2> QED BY <1>0, <2>1, <2>2, ScanWaits
<1>9. ASSUME NEW t \in Txns, AbortStep(t) PROVE ScanOK(scan)'
  <2>1. KeepMust
    BY <1>9 DEF AbortStep
  <2>2. PICK rid : rid = Last(t).rid
    OBVIOUS
  <2>3. OnlySlot(rid[1], rid[2])
    BY <1>0, <1>9, <2>2, AbortStepEffect
  <2> QED BY <1>0, <1>b, <2>1, <2>3, ScanWaits
<1>10. CASE Begin \/ BeginPage \/ BeginNextPage \/ Construct \/ ScanNext \/ ScanPage \/ ScanEnd
  BY <1>10, BeginKeeps, BeginPageKeeps, BeginNextPageKeeps, ConstructKeeps, SearchKeeps, ScanEndKeeps
<1>11. CASE UNCHANGED vars
  BY <1>11, <1>a DEF vars
<1> QED BY <1>1, <1>2, <1>3, <1>4, <1>5, <1>6, <1>7, <1>8, <1>9, <1>10, <1>11 DEF Next

(***************************************************************************)
(* A scan with Begin, operator++ and End returns every record that was there *)
(* when it began and stayed until it ended, although transactions insert,    *)
(* move, mark and delete tuples, and add pages, between any two of its       *)
(* latched steps, unless Begin read a next page id from a frame that the     *)
(* pool had given to another page, which BeginNextPage may do.               *)
(***************************************************************************)
THEOREM ScansSeeAll == Spec => []ScanSeesAll
PROOF
<1>1. ScanInv => ScanSeesAll
  BY DEF ScanInv, ScanOK, Ahead, ScanSeesAll
<1> QED BY ScanInit, ScanInvStep, <1>1, PTL DEF Spec

-----------------------------------------------------------------------------
(* ClaimInv is inductive, if clients look before they change.              *)

\* No write record is added and no claim is made.
Shrunk ==
  \A u \in Txns : \A k \in 1 .. Len(write_set'[u]) :
    /\ k \in 1 .. Len(write_set[u]) /\ write_set'[u][k] = write_set[u][k]
    /\ Claimed(u, k)' => Claimed(u, k)

\* What a write record needs of its slot after the step.
SlotServes(u, k) ==
  \A r : r = write_set[u][k].rid =>
    /\ Claimed(u, k) => HasTuple(r)'
    /\ write_set[u][k].wtype = "DELETE" => IsMarked(r)'

\* A step that takes on no new record, and leaves the slots of the old ones fit for
\* them, keeps the claims.
LEMMA FewerClaims ==
  ASSUME ClaimParts, HeapInv, HeapInv', Shrunk,
         \A u \in Txns : \A k \in 1 .. Len(write_set'[u]) : SlotServes(u, k)
  PROVE  ClaimParts'
PROOF
<1>1. ASSUME NEW u \in Txns, NEW k \in 1 .. Len(write_set'[u])
      PROVE  /\ k \in 1 .. Len(write_set[u]) /\ write_set'[u][k] = write_set[u][k]
             /\ Claimed(u, k)' => Claimed(u, k)
  BY <1>1 DEF Shrunk
<1>2. ClaimsHaveTuples'
  <2> SUFFICES ASSUME NEW u \in Txns, NEW k \in 1 .. Len(write_set'[u]), Claimed(u, k)'
               PROVE  HasTuple(write_set[u][k].rid)'
    BY DEF ClaimsHaveTuples
  <2>1. PICK r : r = write_set[u][k].rid /\ r = write_set'[u][k].rid
    BY <1>1
  <2>2. HasTuple(r)'
    BY <1>1, <2>1 DEF SlotServes
  <2> QED BY <2>1, <2>2 DEF HasTuple, Slot
<1>3. DeletedAreMarked'
  <2> SUFFICES ASSUME NEW u \in Txns, NEW k \in 1 .. Len(write_set'[u]), write_set'[u][k].wtype = "DELETE"
               PROVE  IsMarked(write_set[u][k].rid)'
    BY DEF DeletedAreMarked
  <2>1. PICK r : r = write_set[u][k].rid /\ r = write_set'[u][k].rid
    BY <1>1
  <2>2. IsMarked(r)'
    BY <1>1, <2>1 DEF SlotServes
  <2> QED BY <2>1, <2>2 DEF IsMarked, Slot
<1>4. ClaimsDisjoint'
  <2> SUFFICES ASSUME NEW t \in Txns, NEW u \in Txns, t # u, NEW i \in 1 .. Len(write_set'[t]),
                      NEW j \in 1 .. Len(write_set'[u]), Claimed(t, i)', Claimed(u, j)'
               PROVE  write_set'[t][i].rid # write_set'[u][j].rid
    BY DEF ClaimsDisjoint
  <2> QED BY <1>1, SMTT(60) DEF ClaimParts, ClaimsDisjoint
<1>5. DeleteIsLast'
  BY <1>1 DEF ClaimParts, DeleteIsLast
<1>6. InsertIsFirst'
  BY <1>1 DEF ClaimParts, InsertIsFirst
<1> QED BY <1>2, <1>3, <1>4, <1>5, <1>6 DEF ClaimParts

\* A write record is added by a transaction that is not committing: its record is
\* nobody else's, and goes well with what the transaction did to it before.
LEMMA OneMoreClaim ==
  ASSUME ClaimParts, HeapInv, HeapInv', NEW t \in Txns, NEW item, Recorded(t, item),
         phase[t] # "commit", phase'[t] # "commit",
         \A u \in Txns : u # t => phase'[u] = phase[u],
         \A u \in Txns : \A k \in 1 .. Len(write_set[u]) : SlotServes(u, k),
         \A u \in Txns : u # t => \A k \in 1 .. Len(write_set[u]) :
           Claimed(u, k) => write_set[u][k].rid # item.rid,
         \A k \in 1 .. Len(write_set[t]) :
           write_set[t][k].wtype = "DELETE" \/ item.wtype = "INSERT" => write_set[t][k].rid # item.rid,
         HasTuple(item.rid)', item.wtype = "DELETE" => IsMarked(item.rid)'
  PROVE  ClaimParts'
PROOF
<1>1. PICK n \in Nat : n = Len(write_set[t])
  BY LenOfWrites
<1>2. /\ Len(write_set'[t]) = n + 1 /\ write_set'[t][n + 1] = item
      /\ \A i \in 1 .. n : write_set'[t][i] = write_set[t][i]
      /\ \A u \in Txns : u # t => write_set'[u] = write_set[u]
  BY <1>1 DEF Recorded
<1>3. ASSUME NEW u \in Txns, NEW k \in 1 .. Len(write_set'[u]), ~ (u = t /\ k = n + 1)
      PROVE  /\ k \in 1 .. Len(write_set[u]) /\ write_set'[u][k] = write_set[u][k]
             /\ Claimed(u, k)' => Claimed(u, k)
  <2>1. CASE u = t
    BY <1>1, <1>2, <1>3, <2>1 DEF Claimed
  <2>2. CASE u # t
    BY <1>2, <1>3, <2>2 DEF Claimed
  <2> QED BY <2>1, <2>2
<1>4. ClaimsHaveTuples'
  <2> SUFFICES ASSUME NEW u \in Txns, NEW k \in 1 .. Len(write_set'[u]), Claimed(u, k)'
               PROVE  HasTuple(write_set[u][k].rid)'
    BY DEF ClaimsHaveTuples
  <2>1. PICK r : r = write_set'[u][k].rid
    OBVIOUS
  <2>2. HasTuple(r)'
    <3>1. CASE u = t /\ k = n + 1
      BY <1>2, <2>1, <3>1
    <3>2. CASE ~ (u = t /\ k = n + 1)
      BY <1>3, <2>1, <3>2 DEF SlotServes
    <3> QED BY <3>1, <3>2
  <2> QED BY <2>1, <2>2 DEF HasTuple, Slot
<1>5. DeletedAreMarked'
  <2> SUFFICES ASSUME NEW u \in Txns, NEW k \in 1 .. Len(write_set'[u]), write_set'[u][k].wtype = "DELETE"
               PROVE  IsMarked(write_set[u][k].rid)'
    BY DEF DeletedAreMarked
  <2>1. PICK r : r = write_set'[u][k].rid
    OBVIOUS
  <2>2. IsMarked(r)'
    <3>1. CASE u = t /\ k = n + 1
      BY <1>2, <2>1, <3>1
    <3>2. CASE ~ (u = t /\ k = n + 1)
      BY <1>3, <2>1, <3>2 DEF SlotServes
    <3> QED BY <3>1, <3>2
  <2> QED BY <2>1, <2>2 DEF IsMarked, Slot
<1>6. ClaimsDisjoint'
  <2> SUFFICES ASSUME NEW v \in Txns, NEW u \in Txns, v # u, NEW i \in 1 .. Len(write_set'[v]),
                      NEW j \in 1 .. Len(write_set'[u]), Claimed(v, i)', Claimed(u, j)'
               PROVE  write_set'[v][i].rid # write_set'[u][j].rid
    BY DEF ClaimsDisjoint
  <2>1. CASE v = t /\ i = n + 1
    BY <1>2, <1>3, <2>1
  <2>2. CASE u = t /\ j = n + 1
    BY <1>2, <1>3, <2>2
  <2>3. CASE ~ (v = t /\ i = n + 1) /\ ~ (u = t /\ j = n + 1)
    <3>1. i \in 1 .. Len(write_set[v]) /\ write_set'[v][i] = write_set[v][i] /\ Claimed(v, i)
      BY <1>3, <2>3
    <3>2. j \in 1 .. Len(write_set[u]) /\ write_set'[u][j] = write_set[u][j] /\ Claimed(u, j)
      BY <1>3, <2>3
    <3>3. write_set[v][i].rid # write_set[u][j].rid
      BY <3>1, <3>2 DEF ClaimParts, ClaimsDisjoint
    <3> QED BY <3>1, <3>2, <3>3
  <2> QED BY <2>1, <2>2, <2>3
<1>7. DeleteIsLast'
  <2> SUFFICES ASSUME NEW u \in Txns, NEW i \in 1 .. Len(write_set'[u]), NEW j \in 1 .. Len(write_set'[u]),
                      i < j, write_set'[u][i].wtype = "DELETE"
               PROVE  write_set'[u][i].rid # write_set'[u][j].rid
    BY DEF DeleteIsLast
  <2>1. CASE u = t /\ j = n + 1
    BY <1>1, <1>2, <2>1
  <2>2. CASE ~ (u = t /\ j = n + 1)
    <3>1. ~ (u = t /\ i = n + 1)
      BY <1>2, <2>2
    <3> QED BY <1>3, <2>2, <3>1, SMTT(60) DEF ClaimParts, DeleteIsLast
  <2> QED BY <2>1, <2>2
<1>8. InsertIsFirst'
  <2> SUFFICES ASSUME NEW u \in Txns, NEW i \in 1 .. Len(write_set'[u]), NEW j \in 1 .. Len(write_set'[u]),
                      i < j, write_set'[u][j].wtype = "INSERT"
               PROVE  write_set'[u][i].rid # write_set'[u][j].rid
    BY DEF InsertIsFirst
  <2>1. CASE u = t /\ j = n + 1
    BY <1>1, <1>2, <2>1
  <2>2. CASE ~ (u = t /\ j = n + 1)
    <3>1. ~ (u = t /\ i = n + 1)
      BY <1>2, <2>2
    <3> QED BY <1>3, <2>2, <3>1 DEF ClaimParts, InsertIsFirst
  <2> QED BY <2>1, <2>2
<1> QED BY <1>4, <1>5, <1>6, <1>7, <1>8 DEF ClaimParts

\* A record whose slot the step leaves alone serves as before.
LEMMA OthersServe ==
  ASSUME ClaimParts, HeapInv, PagesInv', NEW p, NEW i, OnlySlot(p, i),
         NEW u \in Txns, NEW k \in 1 .. Len(write_set[u]),
         write_set[u][k].rid[1] # p \/ write_set[u][k].rid[2] # i
  PROVE  SlotServes(u, k)
PROOF
<1>1. PICK r : r = write_set[u][k].rid
  OBVIOUS
<1>2. Exists(r) /\ PagesInv
  BY <1>1 DEF HeapInv, ItemsOK
<1>3. Slot(r)'.size = Slot(r).size /\ Slot(r)'.marked = Slot(r).marked
  BY <1>1, <1>2, OthersStay
<1>4. Claimed(u, k) => HasTuple(r)
  BY <1>1 DEF ClaimParts, ClaimsHaveTuples
<1>5. write_set[u][k].wtype = "DELETE" => IsMarked(r)
  BY <1>1 DEF ClaimParts, DeletedAreMarked
<1> QED BY <1>1, <1>3, <1>4, <1>5 DEF SlotServes, HasTuple, IsMarked

\* A write record that is not claimed asks for nothing.
LEMMA UnclaimedServe ==
  ASSUME NEW u, NEW k, ~ Claimed(u, k)
  PROVE  SlotServes(u, k)
BY DEF Claimed, SlotServes

\* Slots that stay as they are stay fit.
LEMMA SamePagesServe ==
  ASSUME ClaimParts, pages' = pages, NEW u \in Txns, NEW k \in 1 .. Len(write_set[u])
  PROVE  SlotServes(u, k)
BY DEF ClaimParts, ClaimsHaveTuples, DeletedAreMarked, SlotServes, HasTuple, IsMarked, Slot

\* Two records differ in page or slot.
LEMMA RidsDiffer ==
  ASSUME HeapInv, NEW u \in Txns, NEW k \in 1 .. Len(write_set[u]), NEW r \in Nat \X Nat,
         write_set[u][k].rid # r
  PROVE  write_set[u][k].rid[1] # r[1] \/ write_set[u][k].rid[2] # r[2]
PROOF
<1>1. write_set[u][k] \in Item
  BY LenOfWrites
<1>2. write_set[u][k].rid \in Nat \X Nat
  BY <1>1 DEF Item
<1> QED BY <1>2

\* A step that leaves the pages alone and takes on no record keeps the claims.
LEMMA SamePagesClaims ==
  ASSUME ClaimInv, HeapInv', pages' = pages, Shrunk
  PROVE  ClaimParts'
PROOF
<1>1. HeapInv /\ ClaimParts
  BY DEF ClaimInv
<1>2. \A u \in Txns : \A k \in 1 .. Len(write_set'[u]) : SlotServes(u, k)
  BY <1>1, SamePagesServe DEF Shrunk
<1> QED BY <1>1, <1>2, FewerClaims

\* A transaction that starts to commit or abort answers for no more than before.
LEMMA PhaseClaims ==
  ASSUME ClaimInv, HeapInv', NEW t \in Txns, NEW ph, phase' = [phase EXCEPT ![t] = ph],
         pages' = pages, write_set' = write_set,
         phase[t] # "commit" \/ write_set[t] = <<>>
  PROVE  ClaimParts'
PROOF
<1>1. \A u \in Txns : u # t => phase'[u] = phase[u]
  BY DEF ClaimInv, HeapInv
<1>2. write_set[t] = <<>> => Len(write_set[t]) = 0
  BY EmptySeq
<1>3. Shrunk
  <2> SUFFICES ASSUME NEW u \in Txns, NEW k \in 1 .. Len(write_set[u]), Claimed(u, k)'
               PROVE  Claimed(u, k)
    BY DEF Shrunk
  <2>1. CASE u = t
    BY <1>2, <2>1 DEF Claimed
  <2>2. CASE u # t
    BY <1>1, <2>2 DEF Claimed
  <2> QED BY <2>1, <2>2
<1> QED BY <1>3, SamePagesClaims

\* Commit and Abort work the write set of t off.
LEMMA PoppedShrinks ==
  ASSUME HeapInv, NEW t \in Txns, write_set[t] # <<>>, Popped(t), phase' = phase
  PROVE  Shrunk /\ \A k \in 1 .. Len(write_set'[t]) : k < Len(write_set[t])
PROOF
<1>1. PICK n \in Nat : n = Len(write_set[t]) /\ n > 0
  BY LastFacts
<1>2. /\ Len(write_set'[t]) = n - 1
      /\ \A i \in 1 .. (n - 1) : write_set'[t][i] = write_set[t][i]
      /\ \A u \in Txns : u # t => write_set'[u] = write_set[u]
  BY <1>1 DEF Popped
<1>3. ASSUME NEW u \in Txns, NEW k \in 1 .. Len(write_set'[u])
      PROVE  /\ k \in 1 .. Len(write_set[u]) /\ write_set'[u][k] = write_set[u][k]
             /\ Claimed(u, k)' => Claimed(u, k)
  <2>1. CASE u = t
    BY <1>1, <1>2, <1>3, <2>1 DEF Claimed
  <2>2. CASE u # t
    BY <1>2, <1>3, <2>2 DEF Claimed
  <2> QED BY <2>1, <2>2
<1>4. Shrunk
  BY <1>3 DEF Shrunk
<1>5. \A k \in 1 .. Len(write_set'[t]) : k < Len(write_set[t])
  BY <1>1, <1>2
<1> QED BY <1>4, <1>5

\* A record of the write set of t is nobody else's.
LEMMA OthersKeepAway ==
  ASSUME ClaimInv, NEW t \in Txns, write_set[t] # <<>>, Claimed(t, Len(write_set[t])),
         NEW u \in Txns, u # t, NEW k \in 1 .. Len(write_set[u]), Claimed(u, k)
  PROVE  write_set[u][k].rid # Last(t).rid
PROOF
<1>1. PICK n : n = Len(write_set[t])
  OBVIOUS
<1>2. n \in 1 .. Len(write_set[t]) /\ Last(t) = write_set[t][n] /\ Claimed(t, n)
  BY <1>1, LastFacts DEF ClaimInv
<1> QED BY <1>2 DEF ClaimInv, ClaimParts, ClaimsDisjoint

\* Commit empties the slot of a deletion, for which nobody else answers.
LEMMA CommitStepClaims ==
  ASSUME ClaimInv, HeapInv', NEW t \in Txns, CommitStep(t)
  PROVE  ClaimParts'
PROOF
<1>1. /\ HeapInv /\ ClaimParts /\ PagesInv' /\ phase[t] = "commit" /\ write_set[t] # <<>>
      /\ PopBack(t) /\ phase' = phase
  BY DEF ClaimInv, HeapInv, CommitStep
<1>2. PICK rid : rid = Last(t).rid
  OBVIOUS
<1>3. PICK n : n = Len(write_set[t])
  OBVIOUS
<1>4. /\ n \in 1 .. Len(write_set[t]) /\ Last(t) = write_set[t][n] /\ rid \in Nat \X Nat
  BY <1>1, <1>2, <1>3, LastFacts DEF Item
<1>5. /\ Last(t).wtype # "DELETE" => pages' = pages
      /\ Last(t).wtype = "DELETE" => OnlySlot(rid[1], rid[2])
  BY <1>1, <1>2, CommitStepEffect
<1>6. Popped(t)
  <2>1. SlotsStay
    <3>1. CASE Last(t).wtype = "DELETE"
      BY <1>1, <1>5, <3>1, OnlySlotStays DEF HeapInv
    <3>2. CASE Last(t).wtype # "DELETE"
      BY <1>5, <3>2 DEF SlotsStay, Exists
    <3> QED BY <3>1, <3>2
  <2> QED BY <1>1, <2>1, PopKeeps
<1>7. Shrunk /\ \A k \in 1 .. Len(write_set'[t]) : k < n
  BY <1>1, <1>3, <1>6, PoppedShrinks
<1>8. CASE Last(t).wtype # "DELETE"
  BY <1>5, <1>7, <1>8, SamePagesClaims
<1>9. CASE Last(t).wtype = "DELETE"
  <2>1. ASSUME NEW u \in Txns, NEW k \in 1 .. Len(write_set'[u]) PROVE SlotServes(u, k)
    <3>1. k \in 1 .. Len(write_set[u])
      BY <1>7, <2>1 DEF Shrunk
    <3>2. CASE ~ Claimed(u, k)
      BY <3>2, UnclaimedServe
    <3>3. CASE Claimed(u, k)
      <4>1. write_set[u][k].rid # rid
        <5>1. CASE u = t
          <6>1. write_set[t][k].wtype = "DELETE" /\ k < n
            BY <1>1, <1>7, <2>1, <3>3, <5>1 DEF Claimed
          <6> QED BY <1>2, <1>4, <1>1, <3>1, <5>1, <6>1 DEF ClaimParts, DeleteIsLast
        <5>2. CASE u # t
          <6>1. Claimed(t, Len(write_set[t]))
            BY <1>3, <1>4, <1>9 DEF Claimed
          <6> QED BY <1>1, <1>2, <3>1, <3>3, <5>2, <6>1, OthersKeepAway
        <5> QED BY <5>1, <5>2
      <4>2. write_set[u][k].rid[1] # rid[1] \/ write_set[u][k].rid[2] # rid[2]
        BY <1>1, <1>4, <3>1, <4>1, RidsDiffer
      <4>3. OnlySlot(rid[1], rid[2])
        BY <1>5, <1>9
      <4> QED BY <1>1, <3>1, <4>2, <4>3, OthersServe
    <3> QED BY <3>2, <3>3
  <2> QED BY <1>1, <1>7, <2>1, FewerClaims
<1> QED BY <1>8, <1>9

\* Abort undoes the last write to a record, and the earlier ones still find their
\* tuple.
LEMMA AbortStepClaims ==
  ASSUME ClaimInv, HeapInv', NEW t \in Txns, AbortStep(t)
  PROVE  ClaimParts'
PROOF
<1>1. /\ HeapInv /\ ClaimParts /\ PagesInv' /\ phase[t] = "abort" /\ write_set[t] # <<>>
      /\ PopBack(t) /\ phase' = phase
  BY DEF ClaimInv, HeapInv, AbortStep
<1>2. PICK rid : rid = Last(t).rid
  OBVIOUS
<1>3. PICK n : n = Len(write_set[t])
  OBVIOUS
<1>4. /\ n \in 1 .. Len(write_set[t]) /\ Last(t) = write_set[t][n] /\ rid \in Nat \X Nat
      /\ Last(t).wtype \in {"INSERT", "UPDATE", "DELETE"}
  BY <1>1, <1>2, <1>3, LastFacts DEF Item
<1>5. /\ OnlySlot(rid[1], rid[2])
      /\ Last(t).wtype \in {"DELETE", "UPDATE"} => Slot(rid)'.size > 0 \/ Slot(rid)'.size = Slot(rid).size
  BY <1>1, <1>2, AbortStepEffect
<1>6. Popped(t)
  BY <1>1, <1>5, OnlySlotStays, PopKeeps DEF HeapInv
<1>7. Shrunk /\ \A k \in 1 .. Len(write_set'[t]) : k < n
  BY <1>1, <1>3, <1>6, PoppedShrinks
<1>8. \A k : Claimed(t, k)
  BY <1>1 DEF Claimed
<1>9. ASSUME NEW u \in Txns, NEW k \in 1 .. Len(write_set'[u]) PROVE SlotServes(u, k)
  <2>1. k \in 1 .. Len(write_set[u])
    BY <1>7, <1>9 DEF Shrunk
  <2>2. CASE ~ Claimed(u, k)
    BY <2>2, UnclaimedServe
  <2>3. CASE Claimed(u, k) /\ write_set[u][k].rid # rid
    <3>1. write_set[u][k].rid[1] # rid[1] \/ write_set[u][k].rid[2] # rid[2]
      BY <1>1, <1>4, <2>1, <2>3, RidsDiffer
    <3> QED BY <1>1, <1>5, <2>1, <3>1, OthersServe
  <2>4. CASE Claimed(u, k) /\ write_set[u][k].rid = rid
    <3>1. u = t
      BY <1>1, <1>2, <1>3, <1>8, <2>1, <2>4, OthersKeepAway
    <3>2. k < n
      BY <1>7, <1>9, <3>1
    <3>3. Last(t).wtype # "INSERT"
      BY <1>1, <1>2, <1>4, <2>1, <2>4, <3>1, <3>2 DEF ClaimParts, InsertIsFirst
    <3>4. write_set[u][k].wtype # "DELETE"
      BY <1>1, <1>2, <1>4, <2>1, <2>4, <3>1, <3>2 DEF ClaimParts, DeleteIsLast
    <3>5. HasTuple(rid)
      BY <1>1, <2>1, <2>4 DEF ClaimParts, ClaimsHaveTuples
    <3>6. HasTuple(rid)'
      BY <1>4, <1>5, <3>3, <3>5 DEF HasTuple
    <3> QED BY <2>4, <3>4, <3>6 DEF SlotServes
  <2> QED BY <2>2, <2>3, <2>4
<1> QED BY <1>1, <1>7, <1>9, FewerClaims

\* An insertion takes a slot without a tuple, for which nobody answers.
LEMMA InsertHereClaims ==
  ASSUME ClaimInv, HeapInv', NEW t \in Txns, InsertHere(t)
  PROVE  ClaimParts'
PROOF
<1>1. HeapInv /\ ClaimParts /\ phase[t] = "insert" /\ phase \in [Txns -> Phases]
  BY DEF ClaimInv, HeapInv, InsertHere
<1>2. PICK p : p = call[t].page
  OBVIOUS
<1>3. PICK i : i = FreeSlot(pages[p])
  OBVIOUS
<1>4. PICK rid : rid = <<p, i>>
  OBVIOUS
<1>5. /\ PagesInv' /\ OnlySlot(p, i) /\ Exists(rid)' /\ p \in Nat /\ i \in Nat
      /\ HasTuple(rid)'
      /\ Exists(rid) => ~ HasTuple(rid)
  BY <1>1, <1>2, <1>3, <1>4, InsertHereEffect DEF HasTuple
<1>6. rid \in Nat \X Nat /\ rid[1] = p /\ rid[2] = i /\ NoTuple \in Seq(Nat)
  BY <1>4, <1>5, EmptySeq DEF NoTuple
<1>7. Record(t, rid, "INSERT", NoTuple) /\ phase' = [phase EXCEPT ![t] = "run"]
  BY <1>2, <1>3, <1>4 DEF InsertHere, InsertReturns
<1>8. PICK item : item = [rid |-> rid, wtype |-> "INSERT", tuple |-> NoTuple]
  OBVIOUS
<1>9. item.rid = rid /\ item.wtype = "INSERT"
  BY <1>8
<1>10. Recorded(t, item)
  <2>1. SlotsStay
    BY <1>1, <1>5, OnlySlotStays DEF HeapInv
  <2> QED BY <1>1, <1>5, <1>6, <1>7, <1>8, <2>1, RecordKeeps
<1>11. ASSUME NEW u \in Txns, NEW k \in 1 .. Len(write_set[u]), Claimed(u, k)
       PROVE  write_set[u][k].rid # rid
  BY <1>1, <1>5, <1>11 DEF HeapInv, ItemsOK, ClaimParts, ClaimsHaveTuples
<1>12. ASSUME NEW u \in Txns, NEW k \in 1 .. Len(write_set[u]) PROVE SlotServes(u, k)
  <2>1. CASE ~ Claimed(u, k)
    BY <2>1, UnclaimedServe
  <2>2. CASE Claimed(u, k)
    <3>1. write_set[u][k].rid[1] # p \/ write_set[u][k].rid[2] # i
      BY <1>1, <1>6, <1>11, <2>2, RidsDiffer
    <3> QED BY <1>1, <1>5, <3>1, OthersServe
  <2> QED BY <2>1, <2>2
<1>13. phase'[t] # "commit" /\ \A u \in Txns : u # t => phase'[u] = phase[u]
  BY <1>1, <1>7
<1>14. \A k : Claimed(t, k)
  BY <1>1 DEF Claimed
<1> QED BY <1>1, <1>5, <1>9, <1>10, <1>11, <1>12, <1>13, <1>14, OneMoreClaim, SMTT(60)

\* A new page has slots for which nobody answers.
LEMMA NewPageClaims ==
  ASSUME ClaimInv, HeapInv', NEW t \in Txns, InsertNewPage(t)
  PROVE  ClaimParts'
PROOF
<1>1. HeapInv /\ ClaimParts /\ phase[t] = "insert" /\ phase \in [Txns -> Phases]
  BY DEF ClaimInv, HeapInv, InsertNewPage
<1>2. PICK new : new = Len(pages) + 1
  OBVIOUS
<1>3. CASE new > MaxPages
  <2>1. pages' = pages /\ write_set' = write_set /\ phase' = [phase EXCEPT ![t] = "failed"]
    BY <1>2, <1>3 DEF InsertNewPage, InsertReturns
  <2> QED BY <1>1, <2>1, PhaseClaims
<1>4. CASE ~ (new > MaxPages)
  <2>1. PICK rid : rid = <<new, 1>>
    OBVIOUS
  <2>2. PagesInv' /\ Grown(new) /\ Exists(rid)' /\ HasTuple(rid)' /\ new \in Nat
    BY <1>1, <1>2, <1>4, <2>1, NewPageEffect DEF HasTuple
  <2>3. rid \in Nat \X Nat /\ rid[1] = new /\ NoTuple \in Seq(Nat)
    BY <2>1, <2>2, EmptySeq DEF NoTuple
  <2>4. Record(t, rid, "INSERT", NoTuple) /\ phase' = [phase EXCEPT ![t] = "run"]
    BY <1>2, <1>4, <2>1 DEF InsertNewPage, InsertReturns
  <2>5. PICK item : item = [rid |-> rid, wtype |-> "INSERT", tuple |-> NoTuple]
    OBVIOUS
  <2>6. item.rid = rid /\ item.wtype = "INSERT"
    BY <2>5
  <2>7. ASSUME NEW r, Exists(r) PROVE Exists(r)' /\ Slot(r)' = Slot(r) /\ r[1] # new
    BY <1>1, <2>2, <2>7, GrownStays DEF HeapInv
  <2>8. Recorded(t, item)
    BY <1>1, <2>2, <2>3, <2>4, <2>5, <2>7, RecordKeeps DEF SlotsStay
  <2>9. ASSUME NEW u \in Txns, NEW k \in 1 .. Len(write_set[u])
        PROVE  write_set[u][k].rid # rid /\ SlotServes(u, k)
    <3>1. PICK r : r = write_set[u][k].rid
      OBVIOUS
    <3>2. Exists(r)
      BY <1>1, <3>1 DEF HeapInv, ItemsOK
    <3>3. Slot(r)' = Slot(r) /\ r # rid
      BY <2>3, <2>7, <3>2
    <3>4. /\ Claimed(u, k) => HasTuple(r)
          /\ write_set[u][k].wtype = "DELETE" => IsMarked(r)
      BY <1>1, <3>1 DEF ClaimParts, ClaimsHaveTuples, DeletedAreMarked
    <3> QED BY <3>1, <3>3, <3>4 DEF SlotServes, HasTuple, IsMarked
  <2>10. phase'[t] # "commit" /\ \A u \in Txns : u # t => phase'[u] = phase[u]
    BY <1>1, <2>4
  <2> QED BY <1>1, <2>2, <2>6, <2>8, <2>9, <2>10, OneMoreClaim
<1> QED BY <1>3, <1>4

\* MarkDelete and UpdateTuple of a record that the client found there.
LEMMA TouchClaims ==
  ASSUME ClaimInv, HeapInv', NEW t \in Txns, NEW rid \in Rids, MayTouch(t, rid), Live(rid),
         NEW wtype \in {"DELETE", "UPDATE"}, NEW tuple \in Seq(Nat),
         wtype = "UPDATE" => tuple # <<>>,
         Record(t, rid, wtype, tuple), phase' = phase,
         OnlySlot(rid[1], rid[2]), HasTuple(rid)', wtype = "DELETE" => IsMarked(rid)'
  PROVE  ClaimParts'
PROOF
<1>1. /\ HeapInv /\ ClaimParts /\ PagesInv /\ PagesInv' /\ phase[t] = "run"
      /\ Exists(rid) /\ \A u \in Txns \ {t} : rid \notin Written(u)
  BY DEF ClaimInv, HeapInv, MayTouch, Running
<1>2. rid \in Nat \X Nat
  BY RidFacts
<1>3. SlotsStay /\ Exists(rid)'
  BY <1>1, OnlySlotStays DEF SlotsStay
<1>4. PICK item : item = [rid |-> rid, wtype |-> wtype, tuple |-> tuple]
  OBVIOUS
<1>5. item.rid = rid /\ item.wtype = wtype
  BY <1>4
<1>6. Recorded(t, item)
  BY <1>1, <1>2, <1>3, <1>4, RecordKeeps
<1>7. ASSUME NEW u \in Txns, u # t, NEW k \in 1 .. Len(write_set[u])
      PROVE  write_set[u][k].rid # rid
  BY <1>1, <1>7 DEF Written
<1>8. ASSUME NEW u \in Txns, NEW k \in 1 .. Len(write_set[u]), write_set[u][k].wtype = "DELETE"
      PROVE  write_set[u][k].rid # rid
  BY <1>1, <1>8 DEF ClaimParts, DeletedAreMarked, IsMarked, Live, IsDeleted
<1>9. ASSUME NEW u \in Txns, NEW k \in 1 .. Len(write_set[u]) PROVE SlotServes(u, k)
  <2>1. CASE write_set[u][k].rid = rid
    BY <1>8, <2>1 DEF SlotServes
  <2>2. CASE write_set[u][k].rid # rid
    <3>1. write_set[u][k].rid[1] # rid[1] \/ write_set[u][k].rid[2] # rid[2]
      BY <1>1, <1>2, <2>2, RidsDiffer
    <3> QED BY <1>1, <3>1, OthersServe
  <2> QED BY <2>1, <2>2
<1> QED BY <1>1, <1>5, <1>6, <1>7, <1>8, <1>9, OneMoreClaim, SMTT(60)

\* A client that looked first deletes a tuple that is there and unmarked.
LEMMA MarkDeleteClaims ==
  ASSUME Checked, ClaimInv, HeapInv', NEW t \in Txns, NEW rid \in Rids, MarkDelete(t, rid)
  PROVE  ClaimParts'
PROOF
<1>1. /\ HeapInv /\ MayTouch(t, rid) /\ Live(rid) /\ phase' = phase
      /\ Record(t, rid, "DELETE", NoTuple) /\ NoTuple \in Seq(Nat)
  BY EmptySeq DEF ClaimInv, MarkDelete, MayTouch, NoTuple
<1>2. HasTuple(rid)
  <2>1. rid[1] \in 1 .. Len(pages) /\ rid[2] \in 1 .. Len(pages[rid[1]].slots) /\ Slot(rid).size # 0
    BY <1>1 DEF Live, Exists, IsDeleted
  <2>2. Slot(rid).size \in Nat
    BY <1>1, <2>1, PageFacts DEF HeapInv, PagesInv, PageOK, Slot
  <2> QED BY <2>1, <2>2 DEF HasTuple
<1>3. OnlySlot(rid[1], rid[2]) /\ HasTuple(rid)' /\ IsMarked(rid)'
  BY <1>1, <1>2, MarkDeleteEffect DEF HasTuple, IsMarked
<1> QED BY <1>1, <1>3, TouchClaims

\* UpdateTuple itself refuses a record without a tuple or with a mark.
LEMMA UpdateTupleClaims ==
  ASSUME ClaimInv, HeapInv', NEW t \in Txns, NEW rid \in Rids, NEW tuple \in Tuples,
         UpdateTuple(t, rid, tuple)
  PROVE  ClaimParts'
PROOF
<1>1. PICK old : old = GetTuple(rid)
  OBVIOUS
<1>2. HeapInv /\ MayTouch(t, rid) /\ phase' = phase /\ Record(t, rid, "UPDATE", old)
  BY <1>1 DEF ClaimInv, UpdateTuple
<1>3. /\ OnlySlot(rid[1], rid[2]) /\ HasTuple(rid)' /\ Live(rid)
      /\ old \in Seq(Nat) /\ old # <<>>
  BY <1>1, <1>2, UpdateTupleEffect DEF HasTuple
<1> QED BY <1>2, <1>3, TouchClaims

\* No writes, no claims.
LEMMA ClaimInit == Init => ClaimInv
PROOF
<1> SUFFICES ASSUME Init PROVE ClaimInv
  OBVIOUS
<1>1. \A t \in Txns : Len(write_set[t]) = 0
  BY EmptySeq DEF Init
<1>2. ClaimParts
  BY <1>1 DEF ClaimParts, ClaimsHaveTuples, ClaimsDisjoint, DeletedAreMarked, DeleteIsLast, InsertIsFirst
<1> QED BY <1>2, HeapInit DEF ClaimInv

\* Every step preserves the invariant.
LEMMA ClaimStep ==
  ASSUME Checked PROVE ClaimInv /\ [Next]_vars => ClaimInv'
PROOF
<1> SUFFICES ASSUME ClaimInv, [Next]_vars PROVE ClaimParts'
  BY HeapStep DEF ClaimInv
<1>0. HeapInv /\ HeapInv'
  BY HeapStep DEF ClaimInv
<1>a. ASSUME UNCHANGED <<pages, write_set, phase>> PROVE ClaimParts'
  <2>1. Shrunk
    BY <1>a DEF Shrunk, Claimed
  <2> QED BY <1>0, <1>a, <2>1, SamePagesClaims
<1>1. ASSUME NEW t \in Txns, NEW tuple \in Tuples, InsertTuple(t, tuple) PROVE ClaimParts'
  <2>1. PICK ph : phase' = [phase EXCEPT ![t] = ph]
    BY <1>1 DEF InsertTuple
  <2>2. pages' = pages /\ write_set' = write_set /\ phase[t] # "commit"
    BY <1>1 DEF InsertTuple, Running
  <2> QED BY <1>0, <2>1, <2>2, PhaseClaims
<1>2. ASSUME NEW t \in Txns, InsertHere(t) PROVE ClaimParts'
  BY <1>0, <1>2, InsertHereClaims
<1>3. ASSUME NEW t \in Txns, InsertGoOn(t) PROVE ClaimParts'
  BY <1>3, <1>a DEF InsertGoOn
<1>4. ASSUME NEW t \in Txns, InsertNewPage(t) PROVE ClaimParts'
  BY <1>0, <1>4, NewPageClaims
<1>5. ASSUME NEW t \in Txns, NEW rid \in Rids, MarkDelete(t, rid) PROVE ClaimParts'
  BY <1>0, <1>5, MarkDeleteClaims
<1>6. ASSUME NEW t \in Txns, NEW rid \in Rids, NEW tuple \in Tuples, UpdateTuple(t, rid, tuple)
      PROVE  ClaimParts'
  BY <1>0, <1>6, UpdateTupleClaims
<1>7. ASSUME NEW t \in Txns, Commit(t) \/ Abort(t) \/ Finish(t) PROVE ClaimParts'
  <2>1. PICK ph : phase' = [phase EXCEPT ![t] = ph]
    BY <1>7 DEF Commit, Abort, Finish
  <2>2. pages' = pages /\ write_set' = write_set /\ (phase[t] # "commit" \/ write_set[t] = <<>>)
    BY <1>7 DEF Commit, Abort, Finish
  <2> QED BY <1>0, <2>1, <2>2, PhaseClaims
<1>8. ASSUME NEW t \in Txns, CommitStep(t) PROVE ClaimParts'
  BY <1>0, <1>8, CommitStepClaims
<1>9. ASSUME NEW t \in Txns, AbortStep(t) PROVE ClaimParts'
  BY <1>0, <1>9, AbortStepClaims
<1>10. CASE Begin \/ BeginPage \/ BeginNextPage \/ Construct \/ ScanNext \/ ScanPage \/ ScanEnd
  BY <1>10, <1>a DEF Begin, BeginPage, BeginNextPage, Construct, ScanNext, ScanPage, ScanEnd, ScanStep
<1>11. CASE UNCHANGED vars
  BY <1>11, <1>a DEF vars
<1> QED BY <1>1, <1>2, <1>3, <1>4, <1>5, <1>6, <1>7, <1>8, <1>9, <1>10, <1>11 DEF Next

(***************************************************************************)
(* If clients look whether a record is there before they delete or update it *)
(* then TablePage::ApplyDelete never meets an empty slot: neither when        *)
(* Commit performs a deletion nor when Abort takes an insertion back.        *)
(***************************************************************************)
THEOREM DeletedTuplesAreThere ==
  ASSUME Checked PROVE Spec => []ApplyFindsTuple
PROOF
<1>1. ClaimInv => ApplyFindsTuple
  <2> SUFFICES ASSUME ClaimInv, NEW t \in Txns, write_set[t] # <<>>,
                      \/ phase[t] = "commit" /\ Last(t).wtype = "DELETE"
                      \/ phase[t] = "abort" /\ Last(t).wtype = "INSERT"
               PROVE  Slot(Last(t).rid).size > 0
    BY DEF ApplyFindsTuple
  <2>1. PICK n : n = Len(write_set[t])
    OBVIOUS
  <2>2. n \in 1 .. Len(write_set[t]) /\ Last(t) = write_set[t][n]
    BY <2>1, LastFacts DEF ClaimInv
  <2>3. Claimed(t, n)
    BY <2>2 DEF Claimed
  <2> QED BY <2>2, <2>3 DEF ClaimInv, ClaimParts, ClaimsHaveTuples, HasTuple
<1>2. Init => ClaimInv
  BY ClaimInit
<1>3. ClaimInv /\ [Next]_vars => ClaimInv'
  BY ClaimStep
<1> QED BY <1>1, <1>2, <1>3, PTL DEF Spec

-----------------------------------------------------------------------------
(* The bytes of the tuples of a page.                                      *)

\* Two slots of one length with the same bytes hold the same tuple.
LEMMA SameBytes ==
  ASSUME NEW page, NEW new, NEW j, new.slots[j].size = page.slots[j].size,
         \A k \in 1 .. page.slots[j].size :
           new.data[new.slots[j].offset + k - 1] = page.data[page.slots[j].offset + k - 1]
  PROVE  Bytes(new, j) = Bytes(page, j)
BY Zenon DEF Bytes

\* The bytes from the free space pointer up to the tuple of slot i move by the
\* difference of the lengths, and the bytes above that tuple stay.
Moved(page, new, i, n) ==
  LET shift == page.slots[i].size - n
      a == page.slots[i].offset
      f == page.free_space_pointer
  IN /\ f + shift >= 0
     /\ \A o \in Offsets : f + shift <= o /\ o < a + shift => new.data[o] = page.data[o - shift]
     /\ \A o \in Offsets : a + page.slots[i].size <= o => new.data[o] = page.data[o]

\* When one tuple gets another length, the tuples below it are moved with their
\* bytes, and the ones above it stay: all but that one keep their bytes.
LEMMA ShiftedBytes ==
  ASSUME NEW page, PageOK(page), NEW i \in Used(page), NEW n \in Nat, NEW new,
         Shifted(page, new, i, n), Moved(page, new, i, n),
         NEW j \in 1 .. Len(page.slots), j # i
  PROVE  Bytes(new, j) = Bytes(page, j)
PROOF
<1>1. page \in PageType /\ i \in 1 .. Len(page.slots) /\ PAGE_SIZE \in Nat
  BY HeapAssumption DEF PageOK, Used
<1>2. PICK s \in Nat, f \in Nat, a \in Nat :
        s = page.slots[i].size /\ f = page.free_space_pointer /\ a = page.slots[i].offset
  BY <1>1, PageFacts
<1>0. PICK shift \in Int : shift = s - n
  OBVIOUS
<1>m. /\ f + shift >= 0
      /\ \A o \in Offsets : f + shift <= o /\ o < a + shift => new.data[o] = page.data[o - shift]
      /\ \A o \in Offsets : a + s <= o => new.data[o] = page.data[o]
  BY <1>0, <1>2 DEF Moved
<1>3. PICK b \in Nat, c \in Nat : b = page.slots[j].offset /\ c = page.slots[j].size
  BY <1>1, PageFacts
<1>5. new.slots[j].size = c /\ (c > 0 => new.slots[j].offset = IF b < a THEN b + shift ELSE b)
  BY <1>0, <1>2, <1>3 DEF Shifted
<1>6. c > 0 => f <= b /\ b + c <= PAGE_SIZE /\ (a + s <= b \/ b + c <= a)
  BY <1>2, <1>3 DEF PageOK, Inside, Apart, Start, End, Used
<1>7. s > 0 /\ a + s <= PAGE_SIZE
  BY <1>2 DEF PageOK, Inside, End, Used
<1>8. ASSUME NEW k \in 1 .. c
      PROVE  new.data[new.slots[j].offset + k - 1] = page.data[page.slots[j].offset + k - 1]
  <2>1. k \in Int /\ k >= 1 /\ k <= c /\ c > 0
    BY <1>8
  <2>2. CASE b < a
    <3>1. PICK d \in Int : d = b + shift /\ new.slots[j].offset = d
      BY <1>5, <2>1, <2>2
    <3>2. PICK o \in Int : o = d + k - 1
      BY <2>1
    <3>3. b + c <= a /\ f <= b
      BY <1>6, <1>7, <2>1, <2>2
    <3>4. f + shift <= o /\ o < a + shift /\ o - shift = b + k - 1
      BY <2>1, <3>1, <3>2, <3>3
    <3>5. a + shift <= PAGE_SIZE
      BY <1>0, <1>1, <1>7
    <3>6. f + shift >= 0
      BY <1>m, Zenon
    <3>7. o \in Offsets
      BY <1>1, <3>4, <3>5, <3>6 DEF Offsets
    <3>8. new.data[o] = page.data[o - shift]
      BY <1>m, <3>4, <3>7, Zenon
    <3> QED BY <1>3, <3>1, <3>2, <3>4, <3>8, Zenon
  <2>3. CASE ~ (b < a)
    <3>1. new.slots[j].offset = b
      BY <1>5, <2>1, <2>3, Zenon
    <3>2. PICK o \in Int : o = b + k - 1
      BY <2>1
    <3>3. a + s <= b /\ b + c <= PAGE_SIZE
      BY <1>6, <2>1, <2>3
    <3>4. a + s <= o /\ o < PAGE_SIZE /\ 0 <= o
      BY <1>1, <2>1, <3>2, <3>3
    <3>5. o \in Offsets
      BY <1>1, <3>4 DEF Offsets
    <3>6. new.data[o] = page.data[o]
      BY <1>m, <3>4, <3>5, Zenon
    <3> QED BY <1>3, <3>1, <3>2, <3>6, Zenon
  <2> QED BY <2>2, <2>3
<1>9. new.slots[j].size = page.slots[j].size
  BY <1>3, <1>5, Zenon
<1>10. \A k \in 1 .. page.slots[j].size :
         new.data[new.slots[j].offset + k - 1] = page.data[page.slots[j].offset + k - 1]
  BY <1>3, <1>8, Zenon
<1> QED BY <1>9, <1>10, SameBytes, Zenon

\* What memmove leaves at an offset.
MovedAt(d, data, dst, src, n, o) ==
  /\ dst <= o /\ o < dst + n => d[o] = data[o - dst + src]
  /\ dst + n <= o => d[o] = data[o]

LEMMA MemmoveAt ==
  ASSUME NEW data, NEW dst \in Int, NEW src \in Int, NEW n \in Int, NEW o \in Offsets
  PROVE  MovedAt(memmove(data, dst, src, n), data, dst, src, n, o)
PROOF
<1>1. o \in Int
  BY HeapAssumption DEF Offsets
<1>2. memmove(data, dst, src, n)[o] =
        IF o \in dst .. (dst + n - 1) THEN data[o - dst + src] ELSE data[o]
  BY DEF memmove
<1>3. o \in dst .. (dst + n - 1) <=> dst <= o /\ o < dst + n
  BY <1>1
<1>4. dst + n <= o => ~ (o < dst + n)
  BY <1>1
<1> QED BY <1>2, <1>3, <1>4, Zenon DEF MovedAt

\* What memcpy leaves at an offset.
CopiedAt(d, data, dst, bytes, o) ==
  /\ o < dst \/ dst + Len(bytes) <= o => d[o] = data[o]
  /\ dst <= o /\ o < dst + Len(bytes) => d[o] = bytes[o - dst + 1]

LEMMA MemcpyAt ==
  ASSUME NEW data, NEW dst \in Int, NEW bytes, Len(bytes) \in Nat, NEW o \in Offsets
  PROVE  CopiedAt(memcpy(data, dst, bytes), data, dst, bytes, o)
PROOF
<1>1. o \in Int
  BY HeapAssumption DEF Offsets
<1>2. memcpy(data, dst, bytes)[o] =
        IF o \in dst .. (dst + Len(bytes) - 1) THEN bytes[o - dst + 1] ELSE data[o]
  BY DEF memcpy
<1>3. o \in dst .. (dst + Len(bytes) - 1) <=> dst <= o /\ o < dst + Len(bytes)
  BY <1>1
<1>4. o < dst \/ dst + Len(bytes) <= o => ~ (dst <= o /\ o < dst + Len(bytes))
  BY <1>1
<1> QED BY <1>2, <1>3, <1>4, Zenon DEF CopiedAt

\* Blanking changes nothing from the free space pointer on.
LEMMA BlankedAt ==
  ASSUME NEW data, NEW free \in Int, NEW o \in Offsets, free <= o
  PROVE  Blanked(data, free)[o] = data[o]
PROOF
<1>1. o \in Int /\ ~ (o < free)
  BY HeapAssumption DEF Offsets
<1> QED BY <1>1, Zenon DEF Blanked

\* TablePage::UpdateTuple stores the new tuple and disturbs no other.
LEMMA UpdateBytes ==
  ASSUME NEW page, PageOK(page), NEW i \in 1 .. Len(page.slots),
         NEW tuple \in Seq(Nat), tuple # <<>>, CanUpdate(page, i, tuple),
         NEW new, new = UpdateInPage(page, i, tuple)
  PROVE  /\ Bytes(new, i) = tuple /\ new.slots[i].size = Len(tuple)
         /\ \A j \in 1 .. Len(page.slots) : j # i => Bytes(new, j) = Bytes(page, j)
PROOF
<1>1. PICK n \in Nat : n = Len(tuple)
  OBVIOUS
<1>2. page \in PageType /\ PAGE_SIZE \in Nat
  BY HeapAssumption DEF PageOK
<1>3. PICK s \in Nat, f \in Nat, a \in Nat :
        s = page.slots[i].size /\ f = page.free_space_pointer /\ a = page.slots[i].offset
  BY <1>2, PageFacts
<1>4. PICK shift \in Int : shift = s - n
  OBVIOUS
<1>5. /\ Shifted(page, new, i, n) /\ i \in Used(page) /\ n > 0
      /\ f + shift \in Nat
      /\ new.data = Blanked(memcpy(memmove(page.data, f + shift, f, a - f), a + shift, tuple), f + shift)
  BY <1>1, <1>3, <1>4, UpdateInPageShifts
<1>6. f <= a /\ a + s <= PAGE_SIZE /\ s > 0
  BY <1>3, <1>5 DEF PageOK, Inside, Start, End, Used
<1>7. PICK m : m = memmove(page.data, f + shift, f, a - f)
  OBVIOUS
<1>8. PICK d : d = memcpy(m, a + shift, tuple)
  OBVIOUS
<1>9. new.data = Blanked(d, f + shift)
  BY <1>5, <1>7, <1>8, Zenon
<1>10. a + shift \in Int /\ f + shift \in Int /\ a + shift + n = a + s /\ f + shift <= a + shift
  BY <1>4, <1>6
<1>11. ASSUME NEW o \in Offsets, f + shift <= o
       PROVE  /\ o < a + shift => new.data[o] = page.data[o - shift]
              /\ a + shift <= o /\ o < a + s => new.data[o] = tuple[o - (a + shift) + 1]
              /\ a + s <= o => new.data[o] = page.data[o]
  <2>1. o \in Int
    BY <1>2 DEF Offsets
  <2>2. new.data[o] = d[o]
    <3>1. Blanked(d, f + shift)[o] = d[o]
      BY <1>10, <1>11, BlankedAt, ZenonT(60)
    <3> QED BY <1>9, <3>1, Zenon
  <2>3. /\ o < a + shift \/ a + shift + n <= o => d[o] = m[o]
        /\ a + shift <= o /\ o < a + shift + n => d[o] = tuple[o - (a + shift) + 1]
    <3>1. PICK dst \in Int : dst = a + shift
      BY <1>10
    <3>2. d = memcpy(m, dst, tuple)
      BY <1>8, <3>1
    <3>3. /\ o < dst \/ dst + n <= o => d[o] = m[o]
          /\ dst <= o /\ o < dst + n => d[o] = tuple[o - dst + 1]
      <4>1. Len(tuple) \in Nat
        BY <1>1
      <4>2. CopiedAt(memcpy(m, dst, tuple), m, dst, tuple, o)
        BY <4>1, MemcpyAt, Zenon
      <4> QED BY <1>1, <3>2, <4>2, Zenon DEF CopiedAt
    <3> QED BY <3>1, <3>3, Zenon
  <2>4. /\ f + shift <= o /\ o < a + shift => m[o] = page.data[o - shift]
        /\ a + shift <= o => m[o] = page.data[o]
    <3>1. PICK dst \in Int, src \in Int, len \in Int : dst = f + shift /\ src = f /\ len = a - f
      OBVIOUS
    <3>2. m = memmove(page.data, dst, src, len)
      BY <1>7, <3>1
    <3>3. /\ dst <= o /\ o < dst + len => m[o] = page.data[o - dst + src]
          /\ dst + len <= o => m[o] = page.data[o]
      <4>1. MovedAt(memmove(page.data, dst, src, len), page.data, dst, src, len, o)
        BY MemmoveAt, Zenon
      <4> QED BY <3>2, <4>1, Zenon DEF MovedAt
    <3>4. o \in Int
      BY <1>2 DEF Offsets
    <3>5. dst + len = a + shift /\ o - dst + src = o - shift
      BY <3>1, <3>4
    <3> QED BY <3>1, <3>3, <3>5, Zenon
  <2>5. a + s <= o => a + shift <= o
    BY <1>5, <1>10, <2>1
  <2> QED BY <1>10, <1>11, <2>2, <2>3, <2>4, <2>5, Zenon
<1>12. Moved(page, new, i, n)
  <2>1. f + shift >= 0
    BY <1>5
  <2>2. \A o \in Offsets : a + s <= o => f + shift <= o
    BY <1>2, <1>5, <1>10 DEF Offsets
  <2> QED BY <1>3, <1>4, <1>11, <2>1, <2>2, Zenon DEF Moved
<1>13. \A j \in 1 .. Len(page.slots) : j # i => Bytes(new, j) = Bytes(page, j)
  BY <1>5, <1>12, ShiftedBytes
<1>14. new.slots[i].size = n /\ new.slots[i].offset = a + shift
  BY <1>3, <1>4, <1>5 DEF Shifted
<1>15. ASSUME NEW k \in 1 .. n PROVE new.data[new.slots[i].offset + k - 1] = tuple[k]
  <2>1. PICK o \in Int : o = a + shift + k - 1
    BY <1>10
  <2>2. a + shift <= o /\ o < a + s /\ f + shift <= o /\ o - (a + shift) + 1 = k
    BY <1>4, <1>6, <1>15, <2>1
  <2>3. o \in Offsets
    BY <1>2, <1>5, <1>6, <2>2 DEF Offsets
  <2> QED BY <1>11, <1>14, <2>1, <2>2, <2>3, Zenon
<1>16. Bytes(new, i) = [k \in 1 .. n |-> tuple[k]]
  BY <1>14, <1>15, Zenon DEF Bytes
<1>17. tuple = [k \in 1 .. n |-> tuple[k]]
  BY <1>1, LenProperties
<1> QED BY <1>1, <1>13, <1>14, <1>16, <1>17

\* TablePage::ApplyDelete disturbs no other tuple.
LEMMA ApplyBytes ==
  ASSUME NEW page, PageOK(page), NEW i \in 1 .. Len(page.slots), page.slots[i].size > 0,
         NEW new, new = ApplyInPage(page, i)
  PROVE  \A j \in 1 .. Len(page.slots) : j # i => Bytes(new, j) = Bytes(page, j)
PROOF
<1>2. page \in PageType /\ PAGE_SIZE \in Nat
  BY HeapAssumption DEF PageOK
<1>3. PICK s \in Nat, f \in Nat, a \in Nat :
        s = page.slots[i].size /\ f = page.free_space_pointer /\ a = page.slots[i].offset
  BY <1>2, PageFacts
<1>4. /\ Shifted(page, new, i, 0) /\ i \in Used(page)
      /\ new.data = Blanked(memmove(page.data, f + s, f, a - f), f + s)
  BY <1>3, ApplyInPageShifts DEF Used
<1>5. f <= a /\ a + s <= PAGE_SIZE /\ s > 0
  BY <1>3, <1>4 DEF PageOK, Inside, Start, End, Used
<1>6. PICK m : m = memmove(page.data, f + s, f, a - f)
  OBVIOUS
<1>7. new.data = Blanked(m, f + s)
  BY <1>4, <1>6, Zenon
<1>8. ASSUME NEW o \in Offsets, f + s <= o
      PROVE  /\ o < a + s => new.data[o] = page.data[o - s]
             /\ a + s <= o => new.data[o] = page.data[o]
  <2>1. new.data[o] = m[o]
    <3>1. f + s \in Int
      OBVIOUS
    <3> QED BY <1>7, <1>8, <3>1, BlankedAt, Zenon
  <2>2. /\ f + s <= o /\ o < a + s => m[o] = page.data[o - s]
        /\ a + s <= o => m[o] = page.data[o]
    <3>1. PICK dst \in Int, src \in Int, len \in Int : dst = f + s /\ src = f /\ len = a - f
      OBVIOUS
    <3>2. m = memmove(page.data, dst, src, len)
      BY <1>6, <3>1
    <3>3. /\ dst <= o /\ o < dst + len => m[o] = page.data[o - dst + src]
          /\ dst + len <= o => m[o] = page.data[o]
      <4>1. MovedAt(memmove(page.data, dst, src, len), page.data, dst, src, len, o)
        BY MemmoveAt, Zenon
      <4> QED BY <3>2, <4>1, Zenon DEF MovedAt
    <3>4. o \in Int
      BY <1>2 DEF Offsets
    <3>5. dst + len = a + s /\ o - dst + src = o - s
      BY <3>1, <3>4
    <3> QED BY <3>1, <3>3, <3>5, Zenon
  <2> QED BY <1>8, <2>1, <2>2, Zenon
<1>9. Moved(page, new, i, 0)
  <2>1. s - 0 = s /\ f + s >= 0
    OBVIOUS
  <2>2. \A o \in Offsets : a + s <= o => f + s <= o
    BY <1>2, <1>5 DEF Offsets
  <2> QED BY <1>3, <1>8, <2>1, <2>2, Zenon DEF Moved
<1>10. 0 \in Nat
  OBVIOUS
<1>11. ASSUME NEW j \in 1 .. Len(page.slots), j # i PROVE Bytes(new, j) = Bytes(page, j)
  BY <1>4, <1>9, <1>10, <1>11, ShiftedBytes, ZenonT(60)
<1> QED BY <1>11, Zenon

\* All tuples of a page but the one of slot i keep their bytes.
KeepsBytes(page, new, i) ==
  \A j \in 1 .. Len(page.slots) : j # i => Bytes(new, j) = Bytes(page, j)

\* TablePage::InsertTuple stores the tuple and disturbs no other.
LEMMA InsertBytes ==
  ASSUME NEW page, PageOK(page), NEW tuple \in Seq(Nat), tuple # <<>>, HasRoom(page, tuple),
         NEW new, new = InsertInPage(page, tuple), NEW i, i = FreeSlot(page)
  PROVE  Bytes(new, i) = tuple /\ KeepsBytes(page, new, i)
PROOF
<1>1. PICK n \in Nat : n = Len(tuple)
  OBVIOUS
<1>2. page \in PageType /\ PAGE_SIZE \in Nat
  BY HeapAssumption DEF PageOK
<1>3. PICK f \in Nat : f = page.free_space_pointer
  BY <1>2, PageFacts
<1>4. PICK g : g = f - n
  OBVIOUS
<1>5. /\ g \in Nat /\ g + n <= PAGE_SIZE /\ SameButSlot(page, new, i)
      /\ new.data = memcpy(page.data, g, tuple)
      /\ new.slots[i].offset = g /\ new.slots[i].size = n
      /\ \A j \in 1 .. Len(new.slots) : j # i => new.slots[j] = page.slots[j]
      /\ i <= Len(page.slots) => page.slots[i].size = 0
  BY <1>1, <1>3, <1>4, InsertInPageOK
<1>6. g + n = f
  BY <1>4
<1>7. ASSUME NEW o \in Offsets
      PROVE  /\ f <= o => new.data[o] = page.data[o]
             /\ g <= o /\ o < f => new.data[o] = tuple[o - g + 1]
  <2>1. g \in Int
    BY <1>5
  <2>2. Len(tuple) \in Nat
    BY <1>1
  <2>3. CopiedAt(memcpy(page.data, g, tuple), page.data, g, tuple, o)
    BY <2>1, <2>2, MemcpyAt, Zenon
  <2> QED BY <1>1, <1>5, <1>6, <2>3, Zenon DEF CopiedAt
<1>8. ASSUME NEW k \in 1 .. n PROVE new.data[new.slots[i].offset + k - 1] = tuple[k]
  <2>1. PICK o \in Int : o = g + k - 1
    BY <1>5
  <2>2. g <= o /\ o < f /\ o - g + 1 = k
    BY <1>5, <1>6, <1>8, <2>1
  <2>3. o \in Offsets
    BY <1>2, <1>5, <1>6, <2>2 DEF Offsets
  <2> QED BY <1>5, <1>7, <2>1, <2>2, <2>3, Zenon
<1>9. Bytes(new, i) = [k \in 1 .. n |-> tuple[k]]
  BY <1>5, <1>8, Zenon DEF Bytes
<1>10. tuple = [k \in 1 .. n |-> tuple[k]]
  BY <1>1, LenProperties
<1>11. ASSUME NEW j \in 1 .. Len(page.slots), j # i PROVE Bytes(new, j) = Bytes(page, j)
  <2>1. Len(page.slots) \in Nat /\ Len(new.slots) \in Nat
    BY <1>2, <1>5, InsertInPageOK, PageFacts DEF PageOK
  <2>2. new.slots[j] = page.slots[j]
    BY <1>5, <1>11, <2>1 DEF SameButSlot
  <2>3. PICK b \in Nat, c \in Nat : b = page.slots[j].offset /\ c = page.slots[j].size
    BY <1>2, PageFacts
  <2>4. c > 0 => f <= b /\ b + c <= PAGE_SIZE
    BY <1>3, <2>3 DEF PageOK, Inside, Start, End, Used
  <2>5. ASSUME NEW k \in 1 .. c
        PROVE  new.data[new.slots[j].offset + k - 1] = page.data[page.slots[j].offset + k - 1]
    <3>1. PICK o \in Int : o = b + k - 1
      OBVIOUS
    <3>2. k >= 1 /\ k <= c /\ c > 0
      BY <2>5
    <3>3. f <= o /\ o < PAGE_SIZE
      BY <1>2, <2>4, <3>1, <3>2
    <3>4. o \in Offsets
      BY <1>2, <3>3 DEF Offsets
    <3> QED BY <1>7, <2>2, <2>3, <3>1, <3>3, <3>4, Zenon
  <2> QED BY <2>2, <2>3, <2>5, SameBytes, Zenon
<1> QED BY <1>9, <1>10, <1>11, Zenon DEF KeepsBytes

\* Marks do not touch the tuples.
LEMMA SetMarkBytes ==
  ASSUME NEW page, PageOK(page), NEW i \in 1 .. Len(page.slots), NEW b \in BOOLEAN,
         NEW new, new = [page EXCEPT !.slots[i].marked = b]
  PROVE  Bytes(new, i) = Bytes(page, i) /\ KeepsBytes(page, new, i)
PROOF
<1>1. page \in PageType /\ page.slots \in Seq(SlotType) /\ page.slots[i] \in SlotType
  BY PageFacts DEF PageOK
<1>2. PICK slots : slots = [page.slots EXCEPT ![i].marked = b]
  OBVIOUS
<1>3. new.data = page.data /\ new.slots = slots
  BY <1>1, <1>2 DEF PageType
<1>4. ASSUME NEW j \in 1 .. Len(page.slots)
      PROVE  slots[j].size = page.slots[j].size /\ slots[j].offset = page.slots[j].offset
  <2>1. PICK s : s = [page.slots[i] EXCEPT !.marked = b]
    OBVIOUS
  <2>2. s.size = page.slots[i].size /\ s.offset = page.slots[i].offset
    BY <1>1, <2>1 DEF SlotType
  <2>3. slots = [page.slots EXCEPT ![i] = s]
    BY <1>2, <2>1
  <2>4. CASE j = i
    BY <1>1, <2>2, <2>3, <2>4
  <2>5. CASE j # i
    BY <1>1, <2>3, <2>5
  <2> QED BY <2>4, <2>5
<1>5. PICK m : m = new
  OBVIOUS
<1>6. m.data = page.data /\ m.slots = slots
  BY <1>3, <1>5, Zenon
<1>7. ASSUME NEW j \in 1 .. Len(page.slots) PROVE Bytes(m, j) = Bytes(page, j)
  <2>1. m.slots[j].size = page.slots[j].size /\ m.slots[j].offset = page.slots[j].offset
    BY <1>4, <1>6, Zenon
  <2> QED BY <1>6, <2>1, SameBytes, Zenon
<1> QED BY <1>5, <1>7, Zenon DEF KeepsBytes

\* TablePage::MarkDelete and RollbackDelete touch no tuple.
LEMMA MarkBytes ==
  ASSUME NEW page, PageOK(page), NEW i \in 1 .. Len(page.slots), NEW new,
         new = MarkInPage(page, i) \/ new = RollbackInPage(page, i)
  PROVE  Bytes(new, i) = Bytes(page, i) /\ KeepsBytes(page, new, i)
PROOF
<1>1. CASE new = page
  BY <1>1 DEF KeepsBytes
<1>2. CASE new = [page EXCEPT !.slots[i].marked = TRUE]
  <2>1. PICK b \in BOOLEAN : b = TRUE
    OBVIOUS
  <2> QED BY <1>2, <2>1, SetMarkBytes
<1>3. CASE new = [page EXCEPT !.slots[i].marked = FALSE]
  <2>1. PICK b \in BOOLEAN : b = FALSE
    OBVIOUS
  <2> QED BY <1>3, <2>1, SetMarkBytes
<1> QED BY <1>1, <1>2, <1>3 DEF MarkInPage, RollbackInPage

-----------------------------------------------------------------------------
(* What every action does to the records of the table.                     *)

\* The bytes at a record id, whether they are marked as deleted or not.
Stored(r) == Bytes(pages[r[1]], r[2])

\* The step leaves the record as it is.
Same(r) ==
  /\ Exists(r)' <=> Exists(r)
  /\ Exists(r) => /\ Slot(r)'.size = Slot(r).size
                  /\ Slot(r)'.marked = Slot(r).marked
                  /\ Stored(r)' = Stored(r)

\* The step leaves every other record as it is.
OnlyTuple(rid) == \A r \in Nat \X Nat : r # rid => Same(r)

\* What reads a record reads the same.
LEMMA SameTuple ==
  ASSUME NEW r, Same(r)
  PROVE  GetTuple(r)' = GetTuple(r) /\ (Live(r)' <=> Live(r))
BY DEF Same, GetTuple, Live, IsDeleted, Stored

\* What a step may not touch of the records of a page.
LEMMA TouchTuple ==
  ASSUME PagesInv, PagesInv', NEW p \in Nat, NEW i \in Nat, OnlySlot(p, i),
         KeepsBytes(pages[p], pages'[p], i), NEW rid, rid = <<p, i>>
  PROVE  OnlyTuple(rid)
PROOF
<1> SUFFICES ASSUME NEW r \in Nat \X Nat, r # rid PROVE Same(r)
  BY DEF OnlyTuple
<1>1. PICK q \in Nat, j \in Nat : q = r[1] /\ j = r[2] /\ r = <<q, j>>
  OBVIOUS
<1>2. Len(pages') = Len(pages) /\ SameButSlot(pages[p], pages'[p], i)
      /\ p \in 1 .. Len(pages) /\ \A k \in 1 .. Len(pages) : k # p => pages'[k] = pages[k]
  BY DEF OnlySlot
<1>3. CASE q # p
  <2>1. Exists(r)' <=> Exists(r)
    BY <1>1, <1>2, <1>3 DEF Exists
  <2>2. Exists(r) => pages'[q] = pages[q]
    BY <1>1, <1>2, <1>3 DEF Exists
  <2>3. Exists(r) => Slot(r)' = Slot(r) /\ Stored(r)' = Stored(r)
    BY <1>1, <2>2 DEF Slot, Stored
  <2> QED BY <2>1, <2>3 DEF Same
<1>4. CASE q = p
  <2>1. j # i
    BY <1>1, <1>4
  <2>2. Len(pages[p].slots) \in Nat /\ Len(pages'[p].slots) \in Nat
    <3>1. PageOK(pages[p]) /\ PageOK(pages'[p])
      BY <1>2 DEF PagesInv
    <3>2. pages[p] \in PageType /\ pages'[p] \in PageType
      BY <3>1 DEF PageOK
    <3> QED BY <3>2, PageFacts
  <2>3. j \in 1 .. Len(pages'[p].slots) <=> j \in 1 .. Len(pages[p].slots)
    <3>1. PICK m \in Nat, n \in Nat : m = Len(pages'[p].slots) /\ n = Len(pages[p].slots)
      BY <2>2
    <3>2. m >= n /\ \A k \in 1 .. m : k # i => k <= n
      BY <1>2, <3>1 DEF SameButSlot
    <3>3. j \in 1 .. m <=> j \in 1 .. n
      BY <2>1, <3>2
    <3> QED BY <3>1, <3>3
  <2>4. Exists(r)' <=> Exists(r)
    BY <1>1, <1>2, <1>4, <2>3 DEF Exists
  <2>5. ASSUME Exists(r)
        PROVE  /\ Slot(r)'.size = Slot(r).size /\ Slot(r)'.marked = Slot(r).marked
               /\ Stored(r)' = Stored(r)
    <3>1. j \in 1 .. Len(pages[p].slots)
      BY <1>1, <1>4, <2>5 DEF Exists
    <3>2. /\ pages'[p].slots[j].size = pages[p].slots[j].size
          /\ pages'[p].slots[j].marked = pages[p].slots[j].marked
      BY <1>2, <2>1, <2>3, <3>1 DEF SameButSlot
    <3>3. Bytes(pages'[p], j) = Bytes(pages[p], j)
      BY <2>1, <3>1 DEF KeepsBytes
    <3>4. Bytes(pages[p], j)' = Bytes(pages'[p], j)
      BY DEF Bytes
    <3> QED BY <1>1, <1>4, <3>2, <3>3, <3>4 DEF Slot, Stored
  <2> QED BY <2>4, <2>5 DEF Same
<1> QED BY <1>3, <1>4

\* InsertTuple in a page that has room adds one record.
LEMMA InsertHereTuple ==
  ASSUME HeapInv, NEW t \in Txns, InsertHere(t),
         NEW p, p = call[t].page, NEW i, i = FreeSlot(pages[p])
  PROVE  OnlyTuple(<<p, i>>)
PROOF
<1>1. /\ PagesInv /\ PagesInv' /\ OnlySlot(p, i) /\ p \in Nat /\ i \in Nat
  BY InsertHereEffect DEF HeapInv
<1>2. PICK tuple : tuple = call[t].tuple
  OBVIOUS
<1>3. p \in 1 .. Len(pages) /\ tuple \in Seq(Nat) /\ tuple # <<>>
  BY <1>2 DEF HeapInv, CallOK, InsertHere
<1>4. /\ PageOK(pages[p]) /\ HasRoom(pages[p], tuple)
      /\ SetPage(p, InsertInPage(pages[p], tuple)) /\ pages \in Seq(PageType)
  BY <1>1, <1>2, <1>3 DEF PagesInv, InsertHere
<1>5. pages'[p] = InsertInPage(pages[p], tuple)
  BY <1>3, <1>4 DEF SetPage
<1>6. KeepsBytes(pages[p], pages'[p], i)
  BY <1>3, <1>4, <1>5, InsertBytes
<1> QED BY <1>1, <1>6, TouchTuple

\* InsertTuple in a new page adds one record.
LEMMA NewPageTuple ==
  ASSUME HeapInv, NEW t \in Txns, InsertNewPage(t), NEW new, new = Len(pages) + 1, ~ (new > MaxPages)
  PROVE  OnlyTuple(<<new, 1>>) /\ ~ Exists(<<new, 1>>)
PROOF
<1>1. PagesInv' /\ Grown(new) /\ Exists(<<new, 1>>)' /\ new \in Nat /\ Len(pages'[new].slots) = 1
  BY NewPageEffect
<1>2. PagesInv /\ Len(pages) \in Nat
  BY DEF HeapInv, PagesInv
<1>3. /\ Len(pages') = Len(pages) + 1
      /\ \A q \in 1 .. Len(pages) : pages'[q].slots = pages[q].slots /\ pages'[q].data = pages[q].data
  BY <1>1 DEF Grown
<1>4. ~ (new \in 1 .. Len(pages)) /\ ~ Exists(<<new, 1>>)
  BY <1>2 DEF Exists
<1>5. ASSUME NEW r \in Nat \X Nat, r # <<new, 1>> PROVE Same(r)
  <2>1. PICK q \in Nat, j \in Nat : q = r[1] /\ j = r[2] /\ r = <<q, j>>
    OBVIOUS
  <2>2. CASE q = new
    <3>1. j # 1
      BY <1>5, <2>1, <2>2
    <3>2. ~ Exists(r)
      BY <1>4, <2>1, <2>2 DEF Exists
    <3>3. ~ (j \in 1 .. Len(pages'[new].slots))
      BY <1>1, <3>1
    <3>4. ~ Exists(r)'
      BY <2>1, <2>2, <3>3 DEF Exists
    <3> QED BY <3>2, <3>4 DEF Same
  <2>3. CASE q # new
    <3>1. q \in 1 .. Len(pages') <=> q \in 1 .. Len(pages)
      BY <1>2, <1>3, <2>3
    <3>2. Exists(r)' <=> Exists(r)
      BY <1>3, <2>1, <3>1 DEF Exists
    <3>3. ASSUME Exists(r) PROVE Slot(r)' = Slot(r) /\ Stored(r)' = Stored(r)
      <4>1. q \in 1 .. Len(pages)
        BY <2>1, <3>3 DEF Exists
      <4>2. pages'[q].slots = pages[q].slots /\ pages'[q].data = pages[q].data
        BY <1>3, <4>1
      <4> QED BY <2>1, <4>2 DEF Slot, Stored, Bytes
    <3> QED BY <3>2, <3>3 DEF Same
  <2> QED BY <2>2, <2>3
<1> QED BY <1>4, <1>5 DEF OnlyTuple

\* MarkDelete changes the mark and nothing else.
LEMMA MarkDeleteTuple ==
  ASSUME HeapInv, NEW t \in Txns, NEW rid \in Rids, MarkDelete(t, rid)
  PROVE  OnlyTuple(rid) /\ Stored(rid)' = Stored(rid)
PROOF
<1>1. /\ PagesInv /\ PagesInv' /\ OnlySlot(rid[1], rid[2])
  BY MarkDeleteEffect DEF HeapInv
<1>2. PICK p \in Nat, i \in Nat : p = rid[1] /\ i = rid[2] /\ rid = <<p, i>>
  BY RidFacts
<1>3. /\ p \in 1 .. Len(pages) /\ i \in 1 .. Len(pages[p].slots)
      /\ SetPage(p, MarkInPage(pages[p], i)) /\ pages \in Seq(PageType)
  BY <1>1, <1>2 DEF PagesInv, MarkDelete, MayTouch, Exists
<1>4. PICK page, new : page = pages[p] /\ new = pages'[p]
  OBVIOUS
<1>5. PageOK(page) /\ new = MarkInPage(page, i)
  BY <1>1, <1>3, <1>4 DEF SetPage, PagesInv
<1>6. Bytes(new, i) = Bytes(page, i) /\ KeepsBytes(page, new, i)
  BY <1>3, <1>4, <1>5, MarkBytes
<1>7. OnlyTuple(rid)
  BY <1>1, <1>2, <1>4, <1>6, TouchTuple
<1>8. Stored(rid)' = Bytes(new, i) /\ Stored(rid) = Bytes(page, i)
  BY <1>2, <1>4 DEF Stored, Bytes
<1> QED BY <1>6, <1>7, <1>8

\* UpdateTuple stores the new tuple in its record.
LEMMA UpdateTupleTuple ==
  ASSUME HeapInv, NEW t \in Txns, NEW rid \in Rids, NEW tuple \in Tuples, UpdateTuple(t, rid, tuple)
  PROVE  OnlyTuple(rid) /\ Stored(rid)' = tuple /\ Slot(rid)'.size = Len(tuple)
PROOF
<1>1. /\ PagesInv /\ PagesInv' /\ OnlySlot(rid[1], rid[2])
  BY UpdateTupleEffect DEF HeapInv
<1>2. PICK p \in Nat, i \in Nat : p = rid[1] /\ i = rid[2] /\ rid = <<p, i>>
  BY RidFacts
<1>3. /\ p \in 1 .. Len(pages) /\ i \in 1 .. Len(pages[p].slots) /\ CanUpdate(pages[p], i, tuple)
      /\ SetPage(p, UpdateInPage(pages[p], i, tuple)) /\ pages \in Seq(PageType)
  BY <1>1, <1>2 DEF PagesInv, UpdateTuple, MayTouch, Exists
<1>4. PICK page, new : page = pages[p] /\ new = pages'[p]
  OBVIOUS
<1>5. PageOK(page) /\ new = UpdateInPage(page, i, tuple) /\ tuple \in Seq(Nat) /\ tuple # <<>>
  BY <1>1, <1>3, <1>4, HeapAssumption DEF SetPage, PagesInv
<1>6. Bytes(new, i) = tuple /\ new.slots[i].size = Len(tuple) /\ KeepsBytes(page, new, i)
  BY <1>3, <1>4, <1>5, UpdateBytes DEF KeepsBytes
<1>7. OnlyTuple(rid)
  BY <1>1, <1>2, <1>4, <1>6, TouchTuple
<1>8. Stored(rid)' = Bytes(new, i) /\ Slot(rid)' = new.slots[i]
  BY <1>2, <1>4 DEF Stored, Bytes, Slot
<1> QED BY <1>6, <1>7, <1>8

\* Commit removes the tuple of a deletion and no other.
LEMMA CommitStepTuple ==
  ASSUME HeapInv, NEW t \in Txns, CommitStep(t), NEW rid, rid = Last(t).rid,
         Last(t).wtype = "DELETE", HasTuple(rid)
  PROVE  OnlyTuple(rid)
PROOF
<1>1. PagesInv /\ PagesInv' /\ OnlySlot(rid[1], rid[2]) /\ write_set[t] # <<>>
  BY CommitStepEffect DEF HeapInv, CommitStep
<1>2. PICK p \in Nat, i \in Nat : p = rid[1] /\ i = rid[2] /\ rid = <<p, i>>
  BY <1>1, LastFacts DEF Item
<1>3. /\ p \in 1 .. Len(pages) /\ i \in 1 .. Len(pages[p].slots) /\ PageOK(pages[p])
  BY <1>1, <1>2, LastFacts
<1>4. PICK page, new : page = pages[p] /\ new = pages'[p]
  OBVIOUS
<1>5. new = ApplyInPage(page, i) /\ page.slots[i].size > 0
  BY <1>1, <1>2, <1>3, <1>4 DEF CommitStep, SetPage, HasTuple, Slot, PagesInv
<1>6. KeepsBytes(page, new, i)
  BY <1>3, <1>4, <1>5, ApplyBytes DEF KeepsBytes
<1> QED BY <1>1, <1>2, <1>4, <1>6, TouchTuple

\* Abort undoes one write: a deletion is unmarked, an insertion removed, and an
\* update that fits replaced by the old tuple.
LEMMA AbortStepTuple ==
  ASSUME HeapInv, NEW t \in Txns, AbortStep(t), NEW item, item = Last(t), NEW rid, rid = item.rid,
         HasTuple(rid),
         item.wtype = "UPDATE" => CanUpdate(pages[rid[1]], rid[2], item.tuple)
  PROVE  /\ OnlyTuple(rid)
         /\ item.wtype = "INSERT" => Slot(rid)'.size = 0
         /\ item.wtype = "DELETE" => Stored(rid)' = Stored(rid) /\ ~ Slot(rid)'.marked
                                     /\ Slot(rid)'.size = Slot(rid).size
         /\ item.wtype = "UPDATE" => Stored(rid)' = item.tuple /\ ~ Slot(rid)'.marked
                                     /\ Slot(rid)'.size = Len(item.tuple)
PROOF
<1>1. PagesInv /\ PagesInv' /\ OnlySlot(rid[1], rid[2]) /\ write_set[t] # <<>>
  BY AbortStepEffect DEF HeapInv, AbortStep
<1>2. PICK p \in Nat, i \in Nat : p = rid[1] /\ i = rid[2] /\ rid = <<p, i>>
  BY <1>1, LastFacts DEF Item
<1>3. /\ p \in 1 .. Len(pages) /\ i \in 1 .. Len(pages[p].slots) /\ PageOK(pages[p])
      /\ item.wtype \in {"INSERT", "UPDATE", "DELETE"} /\ item.tuple \in Seq(Nat)
      /\ item.wtype = "UPDATE" => item.tuple # <<>>
  BY <1>1, <1>2, LastFacts
<1>4. PICK page, new : page = pages[p] /\ new = pages'[p]
  OBVIOUS
<1>5. new = RolledBack(page, item) /\ page.slots[i].size > 0
  BY <1>1, <1>2, <1>3, <1>4 DEF AbortStep, SetPage, HasTuple, Slot, PagesInv
<1>6. /\ KeepsBytes(page, new, i)
      /\ item.wtype = "INSERT" => new.slots[i].size = 0
      /\ item.wtype = "DELETE" => /\ Bytes(new, i) = Bytes(page, i) /\ ~ new.slots[i].marked
                                  /\ new.slots[i].size = page.slots[i].size
      /\ item.wtype = "UPDATE" => /\ Bytes(new, i) = item.tuple /\ ~ new.slots[i].marked
                                  /\ new.slots[i].size = Len(item.tuple)
  <2>1. CASE item.wtype = "DELETE"
    <3>1. new = RollbackInPage(page, i)
      BY <1>2, <1>5, <2>1 DEF RolledBack
    <3> QED BY <1>3, <1>4, <2>1, <3>1, MarkBytes, RollbackInPageOK
  <2>2. CASE item.wtype = "INSERT"
    <3>1. new = ApplyInPage(page, i)
      BY <1>2, <1>5, <2>2 DEF RolledBack
    <3>2. KeepsBytes(page, new, i)
      BY <1>3, <1>4, <1>5, <3>1, ApplyBytes DEF KeepsBytes
    <3> QED BY <1>3, <1>4, <2>2, <3>1, <3>2, ApplyInPageOK
  <2>3. CASE item.wtype = "UPDATE"
    <3>1. CanUpdate(page, i, item.tuple)
      BY <1>2, <1>4, <2>3
    <3>2. new = UpdateInPage(page, i, item.tuple)
      BY <1>2, <1>5, <2>3, <3>1 DEF RolledBack
    <3>3. /\ Bytes(new, i) = item.tuple /\ new.slots[i].size = Len(item.tuple)
          /\ KeepsBytes(page, new, i)
      BY <1>3, <1>4, <2>3, <3>1, <3>2, UpdateBytes DEF KeepsBytes
    <3>4. ~ new.slots[i].marked
      BY <1>3, <1>4, <2>3, <3>1, <3>2, UpdateInPageOK
    <3> QED BY <2>3, <3>3, <3>4
  <2> QED BY <1>3, <2>1, <2>2, <2>3
<1>7. OnlyTuple(rid)
  BY <1>1, <1>2, <1>4, <1>6, TouchTuple
<1>8. Stored(rid)' = Bytes(new, i) /\ Stored(rid) = Bytes(page, i)
  BY <1>2, <1>4 DEF Stored, Bytes
<1>9. Slot(rid)' = new.slots[i] /\ Slot(rid) = page.slots[i]
  BY <1>2, <1>4 DEF Slot
<1> QED BY <1>6, <1>7, <1>8, <1>9

-----------------------------------------------------------------------------
(***************************************************************************)
(* What is committed.  A record for which no transaction answers is what was *)
(* committed.  For the others, the first write record of a transaction to it *)
(* remembers what was committed: nothing before an insertion, the saved      *)
(* tuple of an update, and the bytes below the mark of a deletion.  An       *)
(* update can be taken back, because no later one made the tuple shorter.    *)
(***************************************************************************)
Owned(r) ==
  \E t \in Txns : \E k \in 1 .. Len(write_set[t]) : Claimed(t, k) /\ write_set[t][k].rid = r
IsFirst(t, k) == \A j \in 1 .. Len(write_set[t]) : j < k => write_set[t][j].rid # write_set[t][k].rid

\* What was there before a write.
Precedes(tuple, item, r) ==
  /\ item.wtype = "INSERT" => tuple = NoTuple
  /\ item.wtype = "UPDATE" => tuple = item.tuple
  /\ item.wtype = "DELETE" => tuple = Stored(r)

Unowned == \A r \in Rids : ~ Owned(r) => GetTuple(r) = committed[r]
Remembered ==
  \A t \in Txns : \A k \in 1 .. Len(write_set[t]) : \A r \in Rids :
    phase[t] # "commit" /\ write_set[t][k].rid = r /\ IsFirst(t, k) =>
      Precedes(committed[r], write_set[t][k], r)
Restorable ==
  \A t \in Txns : \A k \in 1 .. Len(write_set[t]) : \A r \in Nat \X Nat :
    phase[t] # "commit" /\ write_set[t][k].wtype = "UPDATE" /\ write_set[t][k].rid = r =>
      Len(write_set[t][k].tuple) <= Slot(r).size
Growing ==
  \A t \in Txns : \A j, k \in 1 .. Len(write_set[t]) :
    (/\ phase[t] # "commit" /\ j < k /\ write_set[t][j].rid = write_set[t][k].rid
     /\ write_set[t][j].wtype = "UPDATE" /\ write_set[t][k].wtype = "UPDATE")
    => Len(write_set[t][j].tuple) <= Len(write_set[t][k].tuple)
Deletes(r) ==
  \E t \in Txns : \E k \in 1 .. Len(write_set[t]) :
    write_set[t][k].wtype = "DELETE" /\ write_set[t][k].rid = r
MarkedAreDeleted ==
  \A r \in Nat \X Nat : Exists(r) /\ HasTuple(r) /\ IsMarked(r) => Deletes(r)
Doomed ==
  \A t \in Txns : \A k \in 1 .. Len(write_set[t]) : \A r \in Rids :
    phase[t] = "commit" /\ write_set[t][k].wtype = "DELETE" /\ write_set[t][k].rid = r =>
      committed[r] = NoTuple

ViewParts == Unowned /\ Remembered /\ Restorable /\ Growing /\ MarkedAreDeleted /\ Doomed
ViewInv == ClaimInv /\ ViewParts

\* Nothing that the invariant speaks about changes, but whether a transaction
\* without writes commits.
LEMMA SameView ==
  ASSUME ViewInv, pages' = pages, write_set' = write_set, committed' = committed,
         \A u \in Txns : Len(write_set[u]) = 0 \/ (phase'[u] = "commit" <=> phase[u] = "commit")
  PROVE  ViewParts'
PROOF
<1>1. ViewParts
  BY DEF ViewInv
<1>2. ASSUME NEW u \in Txns, NEW k \in 1 .. Len(write_set[u])
      PROVE  /\ phase'[u] = "commit" <=> phase[u] = "commit"
             /\ Claimed(u, k)' <=> Claimed(u, k)
  <2>1. phase'[u] = "commit" <=> phase[u] = "commit"
    BY <1>2
  <2> QED BY <2>1 DEF Claimed
<1>3. \A r : /\ Exists(r)' <=> Exists(r)
             /\ Slot(r)' = Slot(r) /\ Stored(r)' = Stored(r) /\ GetTuple(r)' = GetTuple(r)
  BY DEF Exists, Slot, Stored, Bytes, GetTuple, Live, IsDeleted
<1>4. \A r : Owned(r)' <=> Owned(r)
  BY <1>2 DEF Owned
<1>5. Unowned'
  BY <1>1, <1>3, <1>4 DEF ViewParts, Unowned
<1>6. Remembered'
  BY <1>1, <1>2, <1>3 DEF ViewParts, Remembered, IsFirst, Precedes
<1>7. Restorable'
  BY <1>1, <1>2, <1>3 DEF ViewParts, Restorable
<1>8. Growing'
  BY <1>1, <1>2 DEF ViewParts, Growing
<1>9. MarkedAreDeleted'
  BY <1>1, <1>3 DEF ViewParts, MarkedAreDeleted, Deletes, HasTuple, IsMarked
<1>10. Doomed'
  BY <1>1, <1>2 DEF ViewParts, Doomed
<1> QED BY <1>5, <1>6, <1>7, <1>8, <1>9, <1>10 DEF ViewParts

\* A write record is added by a transaction that is not committing, and its record
\* is nobody else's.
LEMMA OneMoreView ==
  ASSUME ViewInv, NEW t \in Txns, NEW item, Recorded(t, item), committed' = committed,
         phase[t] # "commit", phase'[t] # "commit",
         \A u \in Txns : u # t => phase'[u] = phase[u],
         NEW rid \in Nat \X Nat, rid = item.rid, OnlyTuple(rid),
         \A u \in Txns : u # t => \A k \in 1 .. Len(write_set[u]) :
           Claimed(u, k) => write_set[u][k].rid # rid,
         \A k \in 1 .. Len(write_set[t]) :
           write_set[t][k].wtype = "DELETE" => write_set[t][k].rid # rid,
         rid \in Rids /\ (\A k \in 1 .. Len(write_set[t]) : write_set[t][k].rid # rid) =>
           /\ item.wtype = "INSERT" => committed[rid] = NoTuple
           /\ item.wtype = "UPDATE" => committed[rid] = item.tuple
           /\ item.wtype = "DELETE" => committed[rid] = Stored(rid)',
         \A k \in 1 .. Len(write_set[t]) :
           write_set[t][k].wtype = "UPDATE" /\ write_set[t][k].rid = rid =>
             /\ Len(write_set[t][k].tuple) <= Slot(rid)'.size
             /\ item.wtype = "UPDATE" => Len(write_set[t][k].tuple) <= Len(item.tuple),
         item.wtype = "UPDATE" => Len(item.tuple) <= Slot(rid)'.size,
         IsMarked(rid)' => item.wtype = "DELETE"
  PROVE  ViewParts'
PROOF
<1>1. ViewParts /\ ClaimParts /\ HeapInv
  BY DEF ViewInv, ClaimInv
<1>2. PICK n \in Nat : n = Len(write_set[t])
  BY <1>1, LenOfWrites
<1>3. /\ Len(write_set'[t]) = n + 1 /\ write_set'[t][n + 1] = item
      /\ \A i \in 1 .. n : write_set'[t][i] = write_set[t][i]
      /\ \A u \in Txns : u # t => write_set'[u] = write_set[u]
  BY <1>2 DEF Recorded
<1>4. ASSUME NEW u \in Txns, NEW k \in 1 .. Len(write_set'[u]), ~ (u = t /\ k = n + 1)
      PROVE  /\ k \in 1 .. Len(write_set[u]) /\ write_set'[u][k] = write_set[u][k]
  <2>1. CASE u = t
    BY <1>2, <1>3, <1>4, <2>1
  <2>2. CASE u # t
    BY <1>3, <1>4, <2>2
  <2> QED BY <2>1, <2>2
<1>5. ASSUME NEW u \in Txns, NEW k \in 1 .. Len(write_set[u])
      PROVE  /\ k \in 1 .. Len(write_set'[u]) /\ write_set'[u][k] = write_set[u][k]
             /\ ~ (u = t /\ k = n + 1)
  <2>1. CASE u = t
    BY <1>2, <1>3, <1>5, <2>1
  <2>2. CASE u # t
    BY <1>3, <1>5, <2>2
  <2> QED BY <2>1, <2>2
<1>6. \A u \in Txns : phase'[u] = "commit" <=> phase[u] = "commit"
  OBVIOUS
<1>7. ASSUME NEW u \in Txns, NEW k \in 1 .. Len(write_set[u])
      PROVE  Exists(write_set[u][k].rid) /\ write_set[u][k].rid \in Nat \X Nat
  <2>1. write_set[u][k] \in Item
    BY <1>1, <1>7, LenOfWrites
  <2> QED BY <1>1, <1>7, <2>1 DEF HeapInv, ItemsOK, Item
<1>8. ASSUME NEW u \in Txns, NEW k \in 1 .. Len(write_set[u]), phase[u] # "commit",
             write_set[u][k].rid = rid
      PROVE  u = t /\ write_set[t][k].wtype # "DELETE"
  BY <1>8 DEF Claimed
<1>9. Unowned'
  <2> SUFFICES ASSUME NEW r \in Rids, ~ Owned(r)' PROVE GetTuple(r)' = committed[r]
    BY DEF Unowned
  <2>1. r # rid
    <3>1. Claimed(t, n + 1)' /\ n + 1 \in 1 .. Len(write_set'[t]) /\ write_set'[t][n + 1].rid = rid
      BY <1>3 DEF Claimed
    <3> QED BY <3>1 DEF Owned
  <2>2. ~ Owned(r)
    <3> SUFFICES ASSUME NEW u \in Txns, NEW k \in 1 .. Len(write_set[u]), Claimed(u, k),
                        write_set[u][k].rid = r
                 PROVE  FALSE
      BY DEF Owned
    <3>1. k \in 1 .. Len(write_set'[u]) /\ write_set'[u][k] = write_set[u][k]
      BY <1>5
    <3>2. Claimed(u, k)'
      BY <1>6, <3>1 DEF Claimed
    <3> QED BY <3>1, <3>2 DEF Owned
  <2>3. Same(r)
    BY <2>1, RidFacts DEF OnlyTuple
  <2> QED BY <1>1, <2>2, <2>3, SameTuple DEF ViewParts, Unowned
<1>10. Remembered'
  <2> SUFFICES ASSUME NEW u \in Txns, NEW k \in 1 .. Len(write_set'[u]), NEW r \in Rids,
                      phase'[u] # "commit", write_set'[u][k].rid = r, IsFirst(u, k)'
               PROVE  Precedes(committed[r], write_set[u][k], r)'
    BY Zenon DEF Remembered
  <2>0. PICK it : it = write_set'[u][k]
    OBVIOUS
  <2> SUFFICES /\ it.wtype = "INSERT" => committed[r] = NoTuple
               /\ it.wtype = "UPDATE" => committed[r] = it.tuple
               /\ it.wtype = "DELETE" => committed[r] = Stored(r)'
    BY <2>0 DEF Precedes
  <2>1. CASE u = t /\ k = n + 1
    <3>1. it = item /\ r = rid
      BY <1>3, <2>0, <2>1
    <3>2. \A j \in 1 .. n : write_set[t][j].rid # rid
      <4> SUFFICES ASSUME NEW j \in 1 .. n PROVE write_set[t][j].rid # rid
        OBVIOUS
      <4>1. j \in 1 .. Len(write_set'[t]) /\ j < n + 1
        BY <1>3
      <4>2. write_set'[t][j].rid # write_set'[t][n + 1].rid
        BY <2>1, <4>1 DEF IsFirst
      <4> QED BY <1>3, <4>2
    <3> QED BY <1>2, <3>1, <3>2
  <2>2. CASE ~ (u = t /\ k = n + 1)
    <3>1. k \in 1 .. Len(write_set[u]) /\ it = write_set[u][k] /\ phase[u] # "commit" /\ it.rid = r
      BY <1>4, <1>6, <2>0, <2>2
    <3>2. IsFirst(u, k)
      BY <1>5, <2>0, <3>1 DEF IsFirst
    <3>3. Precedes(committed[r], it, r)
      BY <1>1, <3>1, <3>2 DEF ViewParts, Remembered
    <3>4. CASE r = rid
      <4>1. it.wtype # "DELETE"
        BY <1>8, <3>1, <3>4
      <4> QED BY <3>3, <4>1 DEF Precedes
    <3>5. CASE r # rid
      <4>1. Stored(r)' = Stored(r)
        BY <1>7, <3>1, <3>5 DEF OnlyTuple, Same
      <4> QED BY <3>3, <4>1 DEF Precedes
    <3> QED BY <3>4, <3>5
  <2> QED BY <2>1, <2>2
<1>11. Restorable'
  <2> SUFFICES ASSUME NEW u \in Txns, NEW k \in 1 .. Len(write_set'[u]), NEW r \in Nat \X Nat,
                      phase'[u] # "commit", write_set'[u][k].wtype = "UPDATE", write_set'[u][k].rid = r
               PROVE  Len(write_set'[u][k].tuple) <= Slot(r)'.size
    BY Zenon DEF Restorable
  <2>1. CASE u = t /\ k = n + 1
    BY <1>3, <2>1
  <2>2. CASE ~ (u = t /\ k = n + 1)
    <3>1. k \in 1 .. Len(write_set[u]) /\ write_set'[u][k] = write_set[u][k] /\ phase[u] # "commit"
      BY <1>4, <1>6, <2>2
    <3>2. Len(write_set[u][k].tuple) <= Slot(r).size
      BY <1>1, <3>1 DEF ViewParts, Restorable
    <3>3. CASE r = rid
      BY <1>8, <3>1, <3>3
    <3>4. CASE r # rid
      <4>1. Slot(r)'.size = Slot(r).size
        BY <1>7, <3>1, <3>4 DEF OnlyTuple, Same
      <4> QED BY <3>1, <3>2, <4>1
    <3> QED BY <3>3, <3>4
  <2> QED BY <2>1, <2>2
<1>12. Growing'
  <2> SUFFICES ASSUME NEW u \in Txns, NEW j \in 1 .. Len(write_set'[u]), NEW k \in 1 .. Len(write_set'[u]),
                      phase'[u] # "commit", j < k, write_set'[u][j].rid = write_set'[u][k].rid,
                      write_set'[u][j].wtype = "UPDATE", write_set'[u][k].wtype = "UPDATE"
               PROVE  Len(write_set'[u][j].tuple) <= Len(write_set'[u][k].tuple)
    BY Zenon DEF Growing
  <2>1. ~ (u = t /\ j = n + 1)
    BY <1>2, <1>3
  <2>2. j \in 1 .. Len(write_set[u]) /\ write_set'[u][j] = write_set[u][j] /\ phase[u] # "commit"
    BY <1>4, <1>6, <2>1
  <2>3. CASE u = t /\ k = n + 1
    BY <1>3, <2>2, <2>3
  <2>4. CASE ~ (u = t /\ k = n + 1)
    <3>1. k \in 1 .. Len(write_set[u]) /\ write_set'[u][k] = write_set[u][k]
      BY <1>4, <2>4
    <3> QED BY <1>1, <2>2, <3>1 DEF ViewParts, Growing
  <2> QED BY <2>3, <2>4
<1>13. MarkedAreDeleted'
  <2> SUFFICES ASSUME NEW r \in Nat \X Nat, Exists(r)', HasTuple(r)', IsMarked(r)' PROVE Deletes(r)'
    BY DEF MarkedAreDeleted
  <2>1. CASE r = rid
    <3>1. item.wtype = "DELETE"
      BY <2>1
    <3>2. n + 1 \in 1 .. Len(write_set'[t])
      BY <1>3
    <3> QED BY <1>3, <2>1, <3>1, <3>2, Zenon DEF Deletes
  <2>2. CASE r # rid
    <3>1. Same(r)
      BY <2>2 DEF OnlyTuple
    <3>2. Exists(r) /\ HasTuple(r) /\ IsMarked(r)
      BY <3>1 DEF Same, HasTuple, IsMarked
    <3>3. PICK u \in Txns : \E k \in 1 .. Len(write_set[u]) :
            write_set[u][k].wtype = "DELETE" /\ write_set[u][k].rid = r
      BY <1>1, <3>2 DEF ViewParts, MarkedAreDeleted, Deletes
    <3>5. PICK k \in 1 .. Len(write_set[u]) :
            write_set[u][k].wtype = "DELETE" /\ write_set[u][k].rid = r
      BY <3>3
    <3>4. k \in 1 .. Len(write_set'[u]) /\ write_set'[u][k] = write_set[u][k]
      BY <1>5
    <3> QED BY <3>4, <3>5, Zenon DEF Deletes
  <2> QED BY <2>1, <2>2
<1>14. Doomed'
  <2> SUFFICES ASSUME NEW u \in Txns, NEW k \in 1 .. Len(write_set'[u]), NEW r \in Rids,
                      phase'[u] = "commit", write_set'[u][k].wtype = "DELETE", write_set'[u][k].rid = r
               PROVE  committed[r] = NoTuple
    BY Zenon DEF Doomed
  <2>1. u # t
    OBVIOUS
  <2>2. k \in 1 .. Len(write_set[u]) /\ write_set'[u][k] = write_set[u][k] /\ phase[u] = "commit"
    BY <1>4, <1>6, <2>1
  <2> QED BY <1>1, <2>2 DEF ViewParts, Doomed
<1> QED BY <1>9, <1>10, <1>11, <1>12, <1>13, <1>14 DEF ViewParts

\* The last write record of t is taken off.
LEMMA OneFewerView ==
  ASSUME ViewInv, NEW t \in Txns, write_set[t] # <<>>, Popped(t),
         committed' = committed, phase' = phase,
         NEW rid \in Nat \X Nat, rid = Last(t).rid, OnlyTuple(rid),
         Same(rid) \/ Claimed(t, Len(write_set[t])),
         rid \in Rids /\ ~ Owned(rid)' => GetTuple(rid)' = committed[rid],
         \A k \in 1 .. Len(write_set'[t]) :
           phase[t] # "commit" /\ write_set[t][k].wtype = "UPDATE" /\ write_set[t][k].rid = rid =>
             Len(write_set[t][k].tuple) <= Slot(rid)'.size,
         Exists(rid)' /\ HasTuple(rid)' /\ IsMarked(rid)' => Deletes(rid)'
  PROVE  ViewParts'
PROOF
<1>1. ViewParts /\ ClaimParts /\ HeapInv /\ ClaimInv
  BY DEF ViewInv, ClaimInv
<1>2. PICK n \in Nat : n = Len(write_set[t]) /\ n > 0 /\ Last(t) = write_set[t][n]
  BY <1>1, LastFacts
<1>3. /\ Len(write_set'[t]) = n - 1
      /\ \A i \in 1 .. (n - 1) : write_set'[t][i] = write_set[t][i]
      /\ \A u \in Txns : u # t => write_set'[u] = write_set[u]
  BY <1>2 DEF Popped
<1>4. ASSUME NEW u \in Txns, NEW k \in 1 .. Len(write_set'[u])
      PROVE  /\ k \in 1 .. Len(write_set[u]) /\ write_set'[u][k] = write_set[u][k]
             /\ u = t => k < n
  <2>1. CASE u = t
    BY <1>2, <1>3, <1>4, <2>1
  <2>2. CASE u # t
    BY <1>3, <1>4, <2>2
  <2> QED BY <2>1, <2>2
<1>5. ASSUME NEW u \in Txns, NEW k \in 1 .. Len(write_set[u]), write_set[u][k].rid # rid
      PROVE  k \in 1 .. Len(write_set'[u]) /\ write_set'[u][k] = write_set[u][k]
  <2>1. CASE u = t
    <3>1. k # n
      BY <1>2, <1>5, <2>1
    <3>2. k \in 1 .. (n - 1)
      BY <1>2, <2>1, <3>1
    <3> QED BY <1>3, <2>1, <3>2
  <2>2. CASE u # t
    BY <1>3, <1>5, <2>2
  <2> QED BY <2>1, <2>2
<1>6. ASSUME NEW u \in Txns, NEW k \in 1 .. Len(write_set[u])
      PROVE  Exists(write_set[u][k].rid) /\ write_set[u][k].rid \in Nat \X Nat
  <2>1. write_set[u][k] \in Item
    BY <1>1, <1>6, LenOfWrites
  <2> QED BY <1>1, <1>6, <2>1 DEF HeapInv, ItemsOK, Item
<1>7. ASSUME NEW u \in Txns, NEW k \in 1 .. Len(write_set[u]), u # t, Claimed(u, k),
             write_set[u][k].rid = rid
      PROVE  Same(rid)
  BY <1>1, <1>7, OthersKeepAway
<1>8. Unowned'
  <2> SUFFICES ASSUME NEW r \in Rids, ~ Owned(r)' PROVE GetTuple(r)' = committed[r]
    BY DEF Unowned
  <2>1. CASE r = rid
    BY <2>1
  <2>2. CASE r # rid
    <3>1. ~ Owned(r)
      <4> SUFFICES ASSUME NEW u \in Txns, NEW k \in 1 .. Len(write_set[u]), Claimed(u, k),
                          write_set[u][k].rid = r
                   PROVE  FALSE
        BY DEF Owned
      <4>1. k \in 1 .. Len(write_set'[u]) /\ write_set'[u][k] = write_set[u][k]
        BY <1>5, <2>2
      <4>2. Claimed(u, k)'
        BY <4>1 DEF Claimed
      <4> QED BY <4>1, <4>2 DEF Owned
    <3>2. Same(r)
      BY <2>2, RidFacts DEF OnlyTuple
    <3> QED BY <1>1, <3>1, <3>2, SameTuple DEF ViewParts, Unowned
  <2> QED BY <2>1, <2>2
<1>9. Remembered'
  <2> SUFFICES ASSUME NEW u \in Txns, NEW k \in 1 .. Len(write_set'[u]), NEW r \in Rids,
                      phase'[u] # "commit", write_set'[u][k].rid = r, IsFirst(u, k)'
               PROVE  Precedes(committed[r], write_set[u][k], r)'
    BY Zenon DEF Remembered
  <2>0. PICK it : it = write_set'[u][k]
    OBVIOUS
  <2> SUFFICES /\ it.wtype = "INSERT" => committed[r] = NoTuple
               /\ it.wtype = "UPDATE" => committed[r] = it.tuple
               /\ it.wtype = "DELETE" => committed[r] = Stored(r)'
    BY <2>0 DEF Precedes
  <2>1. k \in 1 .. Len(write_set[u]) /\ it = write_set[u][k] /\ phase[u] # "commit" /\ it.rid = r
    BY <1>4, <2>0
  <2>2. IsFirst(u, k)
    <3> SUFFICES ASSUME NEW j \in 1 .. Len(write_set[u]), j < k
                 PROVE  write_set[u][j].rid # write_set[u][k].rid
      BY DEF IsFirst
    <3>1. j \in 1 .. Len(write_set'[u])
      <4>1. Len(write_set[u]) \in Nat /\ Len(write_set'[u]) \in Int
        <5>1. Len(write_set[u]) \in Nat
          BY <1>1, LenOfWrites
        <5> QED BY <1>3, <5>1
      <4> QED BY <4>1
    <3>2. write_set'[u][j] = write_set[u][j]
      BY <1>4, <3>1
    <3> QED BY <2>0, <2>1, <3>1, <3>2 DEF IsFirst
  <2>3. Precedes(committed[r], it, r)
    BY <1>1, <2>1, <2>2 DEF ViewParts, Remembered
  <2>4. CASE r # rid
    <3>1. Stored(r)' = Stored(r)
      BY <1>6, <2>1, <2>4 DEF OnlyTuple, Same
    <3> QED BY <2>3, <3>1 DEF Precedes
  <2>5. CASE r = rid /\ u # t
    <3>1. Same(rid)
      BY <1>7, <2>1, <2>5 DEF Claimed
    <3>2. Stored(r)' = Stored(r)
      BY <1>6, <2>1, <2>5, <3>1 DEF Same
    <3> QED BY <2>3, <3>2 DEF Precedes
  <2>6. CASE r = rid /\ u = t
    <3>1. k < n /\ n \in 1 .. Len(write_set[t])
      BY <1>2, <1>4, <2>6
    <3>2. it.wtype # "DELETE"
      BY <1>1, <1>2, <2>1, <2>6, <3>1 DEF ClaimParts, DeleteIsLast
    <3> QED BY <2>3, <3>2 DEF Precedes
  <2> QED BY <2>4, <2>5, <2>6
<1>10. Restorable'
  <2> SUFFICES ASSUME NEW u \in Txns, NEW k \in 1 .. Len(write_set'[u]), NEW r \in Nat \X Nat,
                      phase'[u] # "commit", write_set'[u][k].wtype = "UPDATE", write_set'[u][k].rid = r
               PROVE  Len(write_set'[u][k].tuple) <= Slot(r)'.size
    BY Zenon DEF Restorable
  <2>1. k \in 1 .. Len(write_set[u]) /\ write_set'[u][k] = write_set[u][k] /\ phase[u] # "commit"
    BY <1>4
  <2>2. Len(write_set[u][k].tuple) <= Slot(r).size
    BY <1>1, <2>1 DEF ViewParts, Restorable
  <2>3. CASE r # rid
    <3>1. Slot(r)'.size = Slot(r).size
      BY <1>6, <2>1, <2>3 DEF OnlyTuple, Same
    <3> QED BY <2>1, <2>2, <3>1
  <2>4. CASE r = rid /\ u # t
    <3>1. Same(rid)
      BY <1>7, <2>1, <2>4 DEF Claimed
    <3>2. Slot(r)'.size = Slot(r).size
      BY <1>6, <2>1, <2>4, <3>1 DEF Same
    <3> QED BY <2>1, <2>2, <3>2
  <2>5. CASE r = rid /\ u = t
    BY <2>1, <2>5
  <2> QED BY <2>3, <2>4, <2>5
<1>11. Growing'
  <2> SUFFICES ASSUME NEW u \in Txns, NEW j \in 1 .. Len(write_set'[u]), NEW k \in 1 .. Len(write_set'[u]),
                      phase'[u] # "commit", j < k, write_set'[u][j].rid = write_set'[u][k].rid,
                      write_set'[u][j].wtype = "UPDATE", write_set'[u][k].wtype = "UPDATE"
               PROVE  Len(write_set'[u][j].tuple) <= Len(write_set'[u][k].tuple)
    BY Zenon DEF Growing
  <2>1. j \in 1 .. Len(write_set[u]) /\ write_set'[u][j] = write_set[u][j] /\ phase[u] # "commit"
    BY <1>4
  <2>2. k \in 1 .. Len(write_set[u]) /\ write_set'[u][k] = write_set[u][k]
    BY <1>4
  <2> QED BY <1>1, <2>1, <2>2 DEF ViewParts, Growing
<1>12. MarkedAreDeleted'
  <2> SUFFICES ASSUME NEW r \in Nat \X Nat, Exists(r)', HasTuple(r)', IsMarked(r)' PROVE Deletes(r)'
    BY DEF MarkedAreDeleted
  <2>1. CASE r = rid
    BY <2>1
  <2>2. CASE r # rid
    <3>1. Same(r)
      BY <2>2 DEF OnlyTuple
    <3>2. Exists(r) /\ HasTuple(r) /\ IsMarked(r)
      BY <3>1 DEF Same, HasTuple, IsMarked
    <3>3. PICK u \in Txns : \E k \in 1 .. Len(write_set[u]) :
            write_set[u][k].wtype = "DELETE" /\ write_set[u][k].rid = r
      BY <1>1, <3>2 DEF ViewParts, MarkedAreDeleted, Deletes
    <3>4. PICK k \in 1 .. Len(write_set[u]) :
            write_set[u][k].wtype = "DELETE" /\ write_set[u][k].rid = r
      BY <3>3
    <3>5. k \in 1 .. Len(write_set'[u]) /\ write_set'[u][k] = write_set[u][k]
      BY <1>5, <2>2, <3>4
    <3> QED BY <3>4, <3>5, Zenon DEF Deletes
  <2> QED BY <2>1, <2>2
<1>13. Doomed'
  <2> SUFFICES ASSUME NEW u \in Txns, NEW k \in 1 .. Len(write_set'[u]), NEW r \in Rids,
                      phase'[u] = "commit", write_set'[u][k].wtype = "DELETE", write_set'[u][k].rid = r
               PROVE  committed[r] = NoTuple
    BY Zenon DEF Doomed
  <2>1. k \in 1 .. Len(write_set[u]) /\ write_set'[u][k] = write_set[u][k]
    BY <1>4
  <2> QED BY <1>1, <2>1 DEF ViewParts, Doomed
<1> QED BY <1>8, <1>9, <1>10, <1>11, <1>12, <1>13 DEF ViewParts

\* Nobody answers for a slot without a tuple, and nothing is committed there.
LEMMA EmptyIsUnowned ==
  ASSUME ViewInv, NEW rid \in Nat \X Nat, Exists(rid) => ~ HasTuple(rid)
  PROVE  /\ \A u \in Txns : \A k \in 1 .. Len(write_set[u]) : Claimed(u, k) => write_set[u][k].rid # rid
         /\ rid \in Rids => committed[rid] = NoTuple
PROOF
<1>1. ViewParts /\ ClaimParts /\ HeapInv
  BY DEF ViewInv, ClaimInv
<1>2. ASSUME NEW u \in Txns, NEW k \in 1 .. Len(write_set[u]), Claimed(u, k)
      PROVE  write_set[u][k].rid # rid
  BY <1>1, <1>2 DEF HeapInv, ItemsOK, ClaimParts, ClaimsHaveTuples
<1>3. ~ Owned(rid)
  BY <1>2 DEF Owned
<1>4. ~ Live(rid)
  <2> SUFFICES ASSUME Exists(rid), Slot(rid).size # 0 PROVE FALSE
    BY DEF Live, IsDeleted
  <2>1. rid[1] \in 1 .. Len(pages) /\ rid[2] \in 1 .. Len(pages[rid[1]].slots)
    BY DEF Exists
  <2>2. Slot(rid).size \in Nat
    BY <1>1, <2>1, PageFacts DEF HeapInv, PagesInv, PageOK, Slot
  <2> QED BY <2>2 DEF HasTuple
<1>5. GetTuple(rid) = NoTuple
  BY <1>4 DEF GetTuple
<1> QED BY <1>1, <1>2, <1>3, <1>5 DEF ViewParts, Unowned

\* An insertion takes a slot where nothing was committed.
LEMMA InsertHereView ==
  ASSUME ViewInv, HeapInv', NEW t \in Txns, InsertHere(t)
  PROVE  ViewParts'
PROOF
<1>1. HeapInv /\ phase[t] = "insert" /\ phase \in [Txns -> Phases] /\ committed' = committed
  BY DEF ViewInv, ClaimInv, HeapInv, InsertHere
<1>2. PICK p : p = call[t].page
  OBVIOUS
<1>3. PICK i : i = FreeSlot(pages[p])
  OBVIOUS
<1>4. PICK rid : rid = <<p, i>>
  OBVIOUS
<1>5. /\ PagesInv' /\ OnlySlot(p, i) /\ Exists(rid)' /\ p \in Nat /\ i \in Nat
      /\ ~ IsMarked(rid)'
      /\ Exists(rid) => ~ HasTuple(rid)
  BY <1>1, <1>2, <1>3, <1>4, InsertHereEffect DEF HasTuple, IsMarked
<1>6. rid \in Nat \X Nat /\ NoTuple \in Seq(Nat) /\ OnlyTuple(rid)
  BY <1>1, <1>2, <1>3, <1>4, <1>5, EmptySeq, InsertHereTuple DEF NoTuple
<1>7. Record(t, rid, "INSERT", NoTuple) /\ phase' = [phase EXCEPT ![t] = "run"]
  BY <1>2, <1>3, <1>4 DEF InsertHere, InsertReturns
<1>8. PICK item : item = [rid |-> rid, wtype |-> "INSERT", tuple |-> NoTuple]
  OBVIOUS
<1>9. item.rid = rid /\ item.wtype = "INSERT"
  BY <1>8
<1>10. Recorded(t, item)
  <2>1. SlotsStay
    BY <1>1, <1>5, OnlySlotStays DEF HeapInv
  <2> QED BY <1>1, <1>5, <1>6, <1>7, <1>8, <2>1, RecordKeeps
<1>11. /\ \A u \in Txns : \A k \in 1 .. Len(write_set[u]) : Claimed(u, k) => write_set[u][k].rid # rid
       /\ rid \in Rids => committed[rid] = NoTuple
  BY <1>5, <1>6, EmptyIsUnowned
<1>12. phase'[t] # "commit" /\ \A u \in Txns : u # t => phase'[u] = phase[u]
  BY <1>1, <1>7
<1>13. \A k \in 1 .. Len(write_set[t]) : write_set[t][k].rid # rid
  BY <1>1, <1>11 DEF Claimed
<1>14. item.wtype # "UPDATE" /\ item.wtype # "DELETE" /\ phase[t] # "commit"
  BY <1>1, <1>9
<1>15. \A u \in Txns : u # t => \A k \in 1 .. Len(write_set[u]) :
         Claimed(u, k) => write_set[u][k].rid # rid
  BY <1>11
<1>16. rid \in Rids /\ (\A k \in 1 .. Len(write_set[t]) : write_set[t][k].rid # rid) =>
         /\ item.wtype = "INSERT" => committed[rid] = NoTuple
         /\ item.wtype = "UPDATE" => committed[rid] = item.tuple
         /\ item.wtype = "DELETE" => committed[rid] = Stored(rid)'
  BY <1>11, <1>14, Zenon
<1>17. IsMarked(rid)' => item.wtype = "DELETE"
  BY <1>5
<1>18. \A k \in 1 .. Len(write_set[t]) :
         write_set[t][k].wtype = "DELETE" => write_set[t][k].rid # rid
  BY <1>13, Zenon
<1>19. \A k \in 1 .. Len(write_set[t]) :
         write_set[t][k].wtype = "UPDATE" /\ write_set[t][k].rid = rid =>
           /\ Len(write_set[t][k].tuple) <= Slot(rid)'.size
           /\ item.wtype = "UPDATE" => Len(write_set[t][k].tuple) <= Len(item.tuple)
  BY <1>13, Zenon
<1>20. item.wtype = "UPDATE" => Len(item.tuple) <= Slot(rid)'.size
  BY <1>14, Zenon
<1> QED BY <1>1, <1>6, <1>9, <1>10, <1>12, <1>14, <1>15, <1>16, <1>17, <1>18, <1>19, <1>20, OneMoreView, Zenon

\* A new page has no record yet.
LEMMA NewPageView ==
  ASSUME ViewInv, HeapInv', NEW t \in Txns, InsertNewPage(t)
  PROVE  ViewParts'
PROOF
<1>1. HeapInv /\ phase[t] = "insert" /\ phase \in [Txns -> Phases] /\ committed' = committed
  BY DEF ViewInv, ClaimInv, HeapInv, InsertNewPage
<1>2. PICK new : new = Len(pages) + 1
  OBVIOUS
<1>3. CASE new > MaxPages
  <2>1. pages' = pages /\ write_set' = write_set /\ phase' = [phase EXCEPT ![t] = "failed"]
    BY <1>2, <1>3 DEF InsertNewPage, InsertReturns
  <2>2. \A u \in Txns : phase'[u] = "commit" <=> phase[u] = "commit"
    BY <1>1, <2>1
  <2> QED BY <1>1, <2>1, <2>2, SameView
<1>4. CASE ~ (new > MaxPages)
  <2>1. PICK rid : rid = <<new, 1>>
    OBVIOUS
  <2>2. /\ PagesInv' /\ Grown(new) /\ Exists(rid)' /\ new \in Nat /\ ~ IsMarked(rid)'
        /\ OnlyTuple(rid) /\ ~ Exists(rid)
    BY <1>1, <1>2, <1>4, <2>1, NewPageEffect, NewPageTuple DEF IsMarked
  <2>3. rid \in Nat \X Nat /\ NoTuple \in Seq(Nat)
    BY <2>1, <2>2, EmptySeq DEF NoTuple
  <2>4. Record(t, rid, "INSERT", NoTuple) /\ phase' = [phase EXCEPT ![t] = "run"]
    BY <1>2, <1>4, <2>1 DEF InsertNewPage, InsertReturns
  <2>5. PICK item : item = [rid |-> rid, wtype |-> "INSERT", tuple |-> NoTuple]
    OBVIOUS
  <2>6. item.rid = rid /\ item.wtype = "INSERT"
    BY <2>5
  <2>7. SlotsStay
    BY <1>1, <2>2, GrownStays DEF HeapInv, SlotsStay
  <2>8. Recorded(t, item)
    BY <1>1, <2>2, <2>3, <2>4, <2>5, <2>7, RecordKeeps
  <2>9. /\ \A u \in Txns : \A k \in 1 .. Len(write_set[u]) : Claimed(u, k) => write_set[u][k].rid # rid
        /\ rid \in Rids => committed[rid] = NoTuple
    BY <2>2, <2>3, EmptyIsUnowned
  <2>10. phase'[t] # "commit" /\ \A u \in Txns : u # t => phase'[u] = phase[u]
    BY <1>1, <2>4
  <2>11. \A k \in 1 .. Len(write_set[t]) : write_set[t][k].rid # rid
    BY <1>1, <2>9 DEF Claimed
  <2>12. item.wtype # "UPDATE" /\ item.wtype # "DELETE" /\ phase[t] # "commit"
    BY <1>1, <2>6
  <2>13. \A u \in Txns : u # t => \A k \in 1 .. Len(write_set[u]) :
           Claimed(u, k) => write_set[u][k].rid # rid
    BY <2>9
  <2>14. rid \in Rids /\ (\A k \in 1 .. Len(write_set[t]) : write_set[t][k].rid # rid) =>
           /\ item.wtype = "INSERT" => committed[rid] = NoTuple
           /\ item.wtype = "UPDATE" => committed[rid] = item.tuple
           /\ item.wtype = "DELETE" => committed[rid] = Stored(rid)'
    BY <2>9, <2>12, Zenon
  <2>15. IsMarked(rid)' => item.wtype = "DELETE"
    BY <2>2
  <2>16. \A k \in 1 .. Len(write_set[t]) :
           write_set[t][k].wtype = "DELETE" => write_set[t][k].rid # rid
    BY <2>11, Zenon
  <2>17. \A k \in 1 .. Len(write_set[t]) :
           write_set[t][k].wtype = "UPDATE" /\ write_set[t][k].rid = rid =>
             /\ Len(write_set[t][k].tuple) <= Slot(rid)'.size
             /\ item.wtype = "UPDATE" => Len(write_set[t][k].tuple) <= Len(item.tuple)
    BY <2>11, Zenon
  <2>18. item.wtype = "UPDATE" => Len(item.tuple) <= Slot(rid)'.size
    BY <2>12, Zenon
  <2> QED BY <1>1, <2>2, <2>3, <2>6, <2>8, <2>10, <2>12, <2>13, <2>14, <2>15, <2>16, <2>17, <2>18, OneMoreView, Zenon
<1> QED BY <1>3, <1>4

\* A record that a client found there, that no other transaction has written: if the
\* client has not written it either then it is what was committed, and the tuples
\* the client has saved of it are no longer than it.
LEMMA TouchedRecord ==
  ASSUME ViewInv, NEW t \in Txns, NEW rid \in Rids, MayTouch(t, rid), Live(rid)
  PROVE  /\ rid \in Nat \X Nat /\ phase[t] = "run"
         /\ \A u \in Txns : u # t => \A k \in 1 .. Len(write_set[u]) : write_set[u][k].rid # rid
         /\ \A k \in 1 .. Len(write_set[t]) :
              write_set[t][k].wtype = "DELETE" => write_set[t][k].rid # rid
         /\ (\A k \in 1 .. Len(write_set[t]) : write_set[t][k].rid # rid) =>
              committed[rid] = GetTuple(rid)
         /\ \A k \in 1 .. Len(write_set[t]) :
              write_set[t][k].wtype = "UPDATE" /\ write_set[t][k].rid = rid =>
                Len(write_set[t][k].tuple) <= Slot(rid).size
         /\ GetTuple(rid) = Stored(rid) /\ HasTuple(rid)
         /\ Stored(rid) \in Seq(Nat) /\ Stored(rid) # <<>> /\ Len(Stored(rid)) = Slot(rid).size
PROOF
<1>1. ViewParts /\ ClaimParts /\ HeapInv
  BY DEF ViewInv, ClaimInv
<1>2. rid \in Nat \X Nat /\ phase[t] = "run" /\ Exists(rid)
  BY RidFacts DEF MayTouch, Running
<1>3. \A u \in Txns : u # t => \A k \in 1 .. Len(write_set[u]) : write_set[u][k].rid # rid
  BY DEF MayTouch, Written
<1>4. \A k \in 1 .. Len(write_set[t]) : write_set[t][k].wtype = "DELETE" => write_set[t][k].rid # rid
  BY <1>1 DEF ClaimParts, DeletedAreMarked, IsMarked, Live, IsDeleted
<1>5. (\A k \in 1 .. Len(write_set[t]) : write_set[t][k].rid # rid) => committed[rid] = GetTuple(rid)
  <2> HAVE \A k \in 1 .. Len(write_set[t]) : write_set[t][k].rid # rid
  <2>1. ~ Owned(rid)
    BY <1>3 DEF Owned
  <2> QED BY <1>1, <2>1 DEF ViewParts, Unowned
<1>6. \A k \in 1 .. Len(write_set[t]) :
        write_set[t][k].wtype = "UPDATE" /\ write_set[t][k].rid = rid =>
          Len(write_set[t][k].tuple) <= Slot(rid).size
  BY <1>1, <1>2 DEF ViewParts, Restorable
<1>7. GetTuple(rid) = Stored(rid)
  BY DEF GetTuple, Stored
<1>8. rid[1] \in 1 .. Len(pages) /\ rid[2] \in 1 .. Len(pages[rid[1]].slots) /\ Slot(rid).size # 0
  BY <1>2 DEF Live, Exists, IsDeleted
<1>9. PageOK(pages[rid[1]])
  BY <1>1, <1>8 DEF HeapInv, PagesInv
<1>10. Slot(rid).size \in Nat
  BY <1>8, <1>9, PageFacts DEF PageOK, Slot
<1>11. HasTuple(rid) /\ pages[rid[1]].slots[rid[2]].size > 0
  BY <1>8, <1>10 DEF HasTuple, Slot
<1>12. Stored(rid) \in Seq(Nat) /\ Stored(rid) # <<>> /\ Len(Stored(rid)) = Slot(rid).size
  BY <1>8, <1>9, <1>11, BytesOK DEF Stored, Slot
<1> QED BY <1>2, <1>3, <1>4, <1>5, <1>6, <1>7, <1>11, <1>12

\* MarkDelete leaves the bytes below the mark.
LEMMA MarkDeleteView ==
  ASSUME Checked, ViewInv, HeapInv', NEW t \in Txns, NEW rid \in Rids, MarkDelete(t, rid)
  PROVE  ViewParts'
PROOF
<1>1. /\ HeapInv /\ MayTouch(t, rid) /\ Live(rid) /\ Exists(rid) /\ phase' = phase /\ committed' = committed
      /\ Record(t, rid, "DELETE", NoTuple) /\ NoTuple \in Seq(Nat)
  BY EmptySeq DEF ViewInv, ClaimInv, MarkDelete, MayTouch, NoTuple
<1>2. /\ rid \in Nat \X Nat /\ phase[t] = "run"
      /\ \A u \in Txns : u # t => \A k \in 1 .. Len(write_set[u]) : write_set[u][k].rid # rid
      /\ \A k \in 1 .. Len(write_set[t]) :
           write_set[t][k].wtype = "DELETE" => write_set[t][k].rid # rid
      /\ (\A k \in 1 .. Len(write_set[t]) : write_set[t][k].rid # rid) =>
           committed[rid] = GetTuple(rid)
      /\ \A k \in 1 .. Len(write_set[t]) :
           write_set[t][k].wtype = "UPDATE" /\ write_set[t][k].rid = rid =>
             Len(write_set[t][k].tuple) <= Slot(rid).size
      /\ GetTuple(rid) = Stored(rid)
  BY <1>1, TouchedRecord
<1>3. PagesInv /\ PagesInv' /\ OnlySlot(rid[1], rid[2]) /\ Slot(rid)'.size = Slot(rid).size
  BY <1>1, MarkDeleteEffect DEF HeapInv
<1>4. OnlyTuple(rid) /\ Stored(rid)' = Stored(rid)
  BY <1>1, MarkDeleteTuple
<1>5. SlotsStay /\ Exists(rid)'
  BY <1>1, <1>3, OnlySlotStays DEF SlotsStay
<1>6. PICK item : item = [rid |-> rid, wtype |-> "DELETE", tuple |-> NoTuple]
  OBVIOUS
<1>7. item.rid = rid /\ item.wtype = "DELETE"
  BY <1>6
<1>8. Recorded(t, item)
  BY <1>1, <1>2, <1>5, <1>6, RecordKeeps
<1>9. /\ phase[t] # "commit" /\ phase'[t] # "commit" /\ \A u \in Txns : u # t => phase'[u] = phase[u]
      /\ \A u \in Txns : u # t => \A k \in 1 .. Len(write_set[u]) :
           Claimed(u, k) => write_set[u][k].rid # rid
  BY <1>1, <1>2
<1>10. item.wtype # "INSERT" /\ item.wtype # "UPDATE"
  BY <1>7
<1>11. rid \in Rids /\ (\A k \in 1 .. Len(write_set[t]) : write_set[t][k].rid # rid) =>
         /\ item.wtype = "INSERT" => committed[rid] = NoTuple
         /\ item.wtype = "UPDATE" => committed[rid] = item.tuple
         /\ item.wtype = "DELETE" => committed[rid] = Stored(rid)'
  BY <1>2, <1>4, <1>10, Zenon
<1>12. \A k \in 1 .. Len(write_set[t]) :
         write_set[t][k].wtype = "UPDATE" /\ write_set[t][k].rid = rid =>
           /\ Len(write_set[t][k].tuple) <= Slot(rid)'.size
           /\ item.wtype = "UPDATE" => Len(write_set[t][k].tuple) <= Len(item.tuple)
  BY <1>2, <1>3, <1>10, Zenon
<1>13. /\ item.wtype = "UPDATE" => Len(item.tuple) <= Slot(rid)'.size
       /\ IsMarked(rid)' => item.wtype = "DELETE"
  BY <1>7, <1>10, Zenon
<1> QED BY <1>1, <1>2, <1>4, <1>7, <1>8, <1>9, <1>11, <1>12, <1>13, OneMoreView, ZenonT(60)

\* UpdateTuple saves the tuple it replaces by one that is not shorter.
LEMMA UpdateTupleView ==
  ASSUME ~ MayShrink, ViewInv, HeapInv', NEW t \in Txns, NEW rid \in Rids, NEW tuple \in Tuples,
         UpdateTuple(t, rid, tuple)
  PROVE  ViewParts'
PROOF
<1>1. /\ HeapInv /\ MayTouch(t, rid) /\ Exists(rid) /\ phase' = phase /\ committed' = committed
      /\ Record(t, rid, "UPDATE", GetTuple(rid)) /\ Len(tuple) >= Slot(rid).size
  BY DEF ViewInv, ClaimInv, UpdateTuple, MayTouch
<1>2. /\ PagesInv /\ PagesInv' /\ OnlySlot(rid[1], rid[2]) /\ Live(rid) /\ ~ IsMarked(rid)'
  BY <1>1, UpdateTupleEffect DEF HeapInv, IsMarked
<1>3. OnlyTuple(rid) /\ Slot(rid)'.size = Len(tuple)
  BY <1>1, UpdateTupleTuple
<1>4. /\ rid \in Nat \X Nat /\ phase[t] = "run"
      /\ \A u \in Txns : u # t => \A k \in 1 .. Len(write_set[u]) : write_set[u][k].rid # rid
      /\ \A k \in 1 .. Len(write_set[t]) :
           write_set[t][k].wtype = "DELETE" => write_set[t][k].rid # rid
      /\ (\A k \in 1 .. Len(write_set[t]) : write_set[t][k].rid # rid) =>
           committed[rid] = GetTuple(rid)
      /\ \A k \in 1 .. Len(write_set[t]) :
           write_set[t][k].wtype = "UPDATE" /\ write_set[t][k].rid = rid =>
             Len(write_set[t][k].tuple) <= Slot(rid).size
      /\ GetTuple(rid) \in Seq(Nat) /\ GetTuple(rid) # <<>> /\ Len(GetTuple(rid)) = Slot(rid).size
  BY <1>1, <1>2, TouchedRecord
<1>5. SlotsStay /\ Exists(rid)'
  BY <1>1, <1>2, OnlySlotStays DEF SlotsStay
<1>6. PICK old \in Seq(Nat) : old = GetTuple(rid)
  BY <1>4
<1>7. PICK item : item = [rid |-> rid, wtype |-> "UPDATE", tuple |-> old]
  OBVIOUS
<1>8. item.rid = rid /\ item.wtype = "UPDATE" /\ item.tuple = old
  BY <1>7
<1>9. Recorded(t, item)
  BY <1>1, <1>4, <1>5, <1>6, <1>7, RecordKeeps
<1>10. PICK m \in Nat, n \in Nat : m = Len(old) /\ n = Len(tuple) /\ m = Slot(rid).size /\ n >= m
  <2>1. tuple \in Seq(Nat)
    BY HeapAssumption
  <2> QED BY <1>1, <1>4, <1>6, <2>1
<1>11. ASSUME NEW k \in 1 .. Len(write_set[t]), write_set[t][k].wtype = "UPDATE",
              write_set[t][k].rid = rid
       PROVE  /\ Len(write_set[t][k].tuple) <= Slot(rid)'.size
              /\ Len(write_set[t][k].tuple) <= Len(item.tuple)
  <2>1. write_set[t][k] \in Item
    BY <1>1, LenOfWrites
  <2>2. PICK l \in Nat : l = Len(write_set[t][k].tuple)
    BY <2>1 DEF Item
  <2>3. l <= m
    BY <1>4, <1>10, <1>11, <2>2
  <2>4. l <= n
    BY <1>10, <2>3
  <2> QED BY <1>3, <1>8, <1>10, <2>2, <2>3, <2>4
<1>12. Len(item.tuple) <= Slot(rid)'.size
  BY <1>3, <1>8, <1>10
<1>13. item.wtype # "INSERT" /\ item.wtype # "DELETE" /\ phase[t] # "commit" /\ phase'[t] # "commit"
  BY <1>1, <1>4, <1>8
<1>14. \A u \in Txns : u # t => \A k \in 1 .. Len(write_set[u]) :
         Claimed(u, k) => write_set[u][k].rid # rid
  BY <1>4
<1>15. rid \in Rids /\ (\A k \in 1 .. Len(write_set[t]) : write_set[t][k].rid # rid) =>
         /\ item.wtype = "INSERT" => committed[rid] = NoTuple
         /\ item.wtype = "UPDATE" => committed[rid] = item.tuple
         /\ item.wtype = "DELETE" => committed[rid] = Stored(rid)'
  BY <1>4, <1>6, <1>8, <1>13, Zenon
<1>16. \A k \in 1 .. Len(write_set[t]) :
         write_set[t][k].wtype = "UPDATE" /\ write_set[t][k].rid = rid =>
           /\ Len(write_set[t][k].tuple) <= Slot(rid)'.size
           /\ item.wtype = "UPDATE" => Len(write_set[t][k].tuple) <= Len(item.tuple)
  BY <1>11, Zenon
<1>17. IsMarked(rid)' => item.wtype = "DELETE"
  BY <1>2
<1>18. \A u \in Txns : u # t => phase'[u] = phase[u]
  BY <1>1
<1> QED BY <1>1, <1>3, <1>4, <1>8, <1>9, <1>12, <1>13, <1>14, <1>15, <1>16, <1>17, <1>18, OneMoreView, Zenon

\* Commit: what the transaction wrote is committed, deletions as such.
LEMMA CommitView ==
  ASSUME ViewInv, NEW t \in Txns, Commit(t)
  PROVE  ViewParts'
PROOF
<1>1. ViewParts /\ ClaimParts /\ HeapInv /\ phase \in [Txns -> Phases]
  BY DEF ViewInv, ClaimInv, HeapInv
<1>2. /\ phase[t] = "run" /\ pages' = pages /\ write_set' = write_set
      /\ phase'[t] = "commit" /\ \A u \in Txns : u # t => phase'[u] = phase[u]
  BY <1>1 DEF Commit
<1>3. ASSUME NEW r \in Rids
      PROVE  /\ r \in Written(t) => committed'[r] = Outcome(t, r)
             /\ r \notin Written(t) => committed'[r] = committed[r]
  BY <1>3 DEF Commit
<1>4. \A r : /\ Exists(r)' <=> Exists(r)
             /\ Slot(r)' = Slot(r) /\ Stored(r)' = Stored(r) /\ GetTuple(r)' = GetTuple(r)
  BY <1>2 DEF Exists, Slot, Stored, Bytes, GetTuple, Live, IsDeleted
<1>5. ASSUME NEW u \in Txns, u # t, NEW k \in 1 .. Len(write_set[u]), Claimed(u, k), NEW r \in Rids,
             r = write_set[u][k].rid
      PROVE  committed'[r] = committed[r]
  <2>1. r \notin Written(t)
    <3> SUFFICES ASSUME NEW j \in 1 .. Len(write_set[t]), write_set[t][j].rid = r PROVE FALSE
      BY DEF Written
    <3>1. Claimed(t, j)
      BY <1>2 DEF Claimed
    <3> QED BY <1>1, <1>5, <3>1 DEF ClaimParts, ClaimsDisjoint
  <2> QED BY <1>3, <2>1
<1>6. Unowned'
  <2> SUFFICES ASSUME NEW r \in Rids, ~ Owned(r)' PROVE GetTuple(r) = committed'[r]
    BY <1>4 DEF Unowned
  <2>1. CASE r \in Written(t)
    <3>1. ASSUME NEW j \in 1 .. Len(write_set[t]), write_set[t][j].rid = r, write_set[t][j].wtype = "DELETE"
          PROVE  FALSE
      <4>1. Claimed(t, j)'
        BY <1>2, <3>1 DEF Claimed
      <4> QED BY <1>2, <3>1, <4>1 DEF Owned
    <3>2. Outcome(t, r) = GetTuple(r)
      BY <3>1 DEF Outcome
    <3> QED BY <1>3, <2>1, <3>2
  <2>2. CASE r \notin Written(t)
    <3>1. ~ Owned(r)
      <4> SUFFICES ASSUME NEW u \in Txns, NEW k \in 1 .. Len(write_set[u]), Claimed(u, k),
                          write_set[u][k].rid = r
                   PROVE  FALSE
        BY DEF Owned
      <4>1. u # t
        BY <2>2 DEF Written
      <4>2. Claimed(u, k)'
        BY <1>2, <4>1 DEF Claimed
      <4> QED BY <1>2, <4>2 DEF Owned
    <3> QED BY <1>1, <1>3, <2>2, <3>1 DEF ViewParts, Unowned
  <2> QED BY <2>1, <2>2
<1>7. Remembered'
  <2> SUFFICES ASSUME NEW u \in Txns, NEW k \in 1 .. Len(write_set[u]), NEW r \in Rids,
                      phase'[u] # "commit", write_set[u][k].rid = r, IsFirst(u, k)
               PROVE  Precedes(committed'[r], write_set[u][k], r)
    BY <1>2, <1>4 DEF Remembered, IsFirst, Precedes
  <2>1. u # t /\ phase[u] # "commit" /\ Claimed(u, k)
    BY <1>2 DEF Claimed
  <2>2. committed'[r] = committed[r]
    BY <1>5, <2>1
  <2> QED BY <1>1, <2>1, <2>2 DEF ViewParts, Remembered
<1>8. Restorable'
  <2> SUFFICES ASSUME NEW u \in Txns, NEW k \in 1 .. Len(write_set[u]), NEW r \in Nat \X Nat,
                      phase'[u] # "commit", write_set[u][k].wtype = "UPDATE", write_set[u][k].rid = r
               PROVE  Len(write_set[u][k].tuple) <= Slot(r).size
    BY <1>2, <1>4, Zenon DEF Restorable
  <2>1. phase[u] # "commit"
    BY <1>2
  <2> QED BY <1>1, <2>1 DEF ViewParts, Restorable
<1>9. Growing'
  <2> SUFFICES ASSUME NEW u \in Txns, NEW j \in 1 .. Len(write_set[u]), NEW k \in 1 .. Len(write_set[u]),
                      phase'[u] # "commit", j < k, write_set[u][j].rid = write_set[u][k].rid,
                      write_set[u][j].wtype = "UPDATE", write_set[u][k].wtype = "UPDATE"
               PROVE  Len(write_set[u][j].tuple) <= Len(write_set[u][k].tuple)
    BY <1>2, Zenon DEF Growing
  <2>1. phase[u] # "commit"
    BY <1>2
  <2> QED BY <1>1, <2>1 DEF ViewParts, Growing
<1>10. MarkedAreDeleted'
  BY <1>1, <1>2, <1>4 DEF ViewParts, MarkedAreDeleted, Deletes, HasTuple, IsMarked
<1>11. Doomed'
  <2> SUFFICES ASSUME NEW u \in Txns, NEW k \in 1 .. Len(write_set[u]), NEW r \in Rids,
                      phase'[u] = "commit", write_set[u][k].wtype = "DELETE", write_set[u][k].rid = r
               PROVE  committed'[r] = NoTuple
    BY <1>2 DEF Doomed
  <2>1. CASE u = t
    <3>1. r \in Written(t)
      BY <2>1 DEF Written
    <3>2. Outcome(t, r) = NoTuple
      BY <2>1 DEF Outcome
    <3> QED BY <1>3, <3>1, <3>2
  <2>2. CASE u # t
    <3>1. Claimed(u, k) /\ phase[u] = "commit"
      BY <1>2, <2>2 DEF Claimed
    <3>2. committed'[r] = committed[r]
      BY <1>5, <2>2, <3>1
    <3> QED BY <1>1, <3>1, <3>2 DEF ViewParts, Doomed
  <2> QED BY <2>1, <2>2
<1> QED BY <1>6, <1>7, <1>8, <1>9, <1>10, <1>11 DEF ViewParts

\* Commit works off a deletion, whose record becomes empty, or a write that is
\* committed already.
LEMMA CommitStepView ==
  ASSUME ViewInv, HeapInv', NEW t \in Txns, CommitStep(t)
  PROVE  ViewParts'
PROOF
<1>1. /\ ViewParts /\ ClaimParts /\ HeapInv /\ PagesInv' /\ phase[t] = "commit" /\ write_set[t] # <<>>
      /\ PopBack(t) /\ phase' = phase /\ committed' = committed
  BY DEF ViewInv, ClaimInv, HeapInv, CommitStep
<1>2. PICK rid : rid = Last(t).rid
  OBVIOUS
<1>3. PICK n : n = Len(write_set[t])
  OBVIOUS
<1>4. n \in 1 .. Len(write_set[t]) /\ Last(t) = write_set[t][n] /\ rid \in Nat \X Nat
  BY <1>1, <1>2, <1>3, LastFacts DEF Item
<1>5. /\ Last(t).wtype # "DELETE" => pages' = pages
      /\ Last(t).wtype = "DELETE" => OnlySlot(rid[1], rid[2]) /\ Slot(rid)'.size = 0
  BY <1>1, <1>2, CommitStepEffect
<1>6. Popped(t)
  <2>1. SlotsStay
    <3>1. CASE Last(t).wtype = "DELETE"
      BY <1>1, <1>5, <3>1, OnlySlotStays DEF HeapInv
    <3>2. CASE Last(t).wtype # "DELETE"
      BY <1>5, <3>2 DEF SlotsStay, Exists
    <3> QED BY <3>1, <3>2
  <2> QED BY <1>1, <2>1, PopKeeps
<1>7. CASE Last(t).wtype = "DELETE"
  <2>1. Claimed(t, Len(write_set[t])) /\ HasTuple(rid)
    BY <1>1, <1>2, <1>3, <1>4, <1>7 DEF Claimed, ClaimParts, ClaimsHaveTuples
  <2>2. OnlyTuple(rid)
    BY <1>1, <1>2, <1>7, <2>1, CommitStepTuple
  <2>3. ~ HasTuple(rid)' /\ ~ Live(rid)'
    BY <1>5, <1>7 DEF HasTuple, Live, IsDeleted
  <2>4. rid \in Rids => GetTuple(rid)' = committed[rid]
    <3>1. rid \in Rids => committed[rid] = NoTuple
      BY <1>1, <1>2, <1>4, <1>7 DEF ViewParts, Doomed
    <3> QED BY <2>3, <3>1 DEF GetTuple
  <2> QED BY <1>1, <1>2, <1>4, <1>6, <2>1, <2>2, <2>3, <2>4, OneFewerView
<1>8. CASE Last(t).wtype # "DELETE"
  <2>1. pages' = pages
    BY <1>5, <1>8
  <2>2. \A r : Same(r) /\ GetTuple(r)' = GetTuple(r)
    BY <2>1 DEF Same, Exists, Slot, Stored, Bytes, GetTuple, Live, IsDeleted
  <2>3. OnlyTuple(rid) /\ Same(rid)
    BY <2>2 DEF OnlyTuple
  <2>4. ASSUME NEW u \in Txns, NEW k \in 1 .. Len(write_set[u]), ~ (u = t /\ k = n)
        PROVE  k \in 1 .. Len(write_set'[u]) /\ write_set'[u][k] = write_set[u][k]
    <3>1. CASE u = t
      <4>1. PICK m \in Nat : m = n
        BY <1>1, <1>3, LastFacts
      <4>2. k \in 1 .. (m - 1)
        BY <1>3, <2>4, <3>1, <4>1
      <4> QED BY <1>3, <1>6, <3>1, <4>1, <4>2 DEF Popped
    <3>2. CASE u # t
      BY <1>6, <2>4, <3>2 DEF Popped
    <3> QED BY <3>1, <3>2
  <2>5. rid \in Rids /\ ~ Owned(rid)' => GetTuple(rid)' = committed[rid]
    <3> SUFFICES ASSUME rid \in Rids, ~ Owned(rid)' PROVE ~ Owned(rid)
      BY <1>1, <2>2 DEF ViewParts, Unowned
    <3> SUFFICES ASSUME NEW u \in Txns, NEW k \in 1 .. Len(write_set[u]), Claimed(u, k),
                        write_set[u][k].rid = rid
                 PROVE  FALSE
      BY DEF Owned
    <3>1. ~ (u = t /\ k = n)
      BY <1>1, <1>4, <1>8 DEF Claimed
    <3>2. k \in 1 .. Len(write_set'[u]) /\ write_set'[u][k] = write_set[u][k]
      BY <2>4, <3>1
    <3>3. Claimed(u, k)'
      BY <1>1, <3>2 DEF Claimed
    <3> QED BY <3>2, <3>3 DEF Owned
  <2>6. Exists(rid)' /\ HasTuple(rid)' /\ IsMarked(rid)' => Deletes(rid)'
    <3> SUFFICES ASSUME Exists(rid)', HasTuple(rid)', IsMarked(rid)' PROVE Deletes(rid)'
      OBVIOUS
    <3>1. Exists(rid) /\ HasTuple(rid) /\ IsMarked(rid)
      BY <2>3 DEF Same, HasTuple, IsMarked
    <3>2. PICK u \in Txns : \E k \in 1 .. Len(write_set[u]) :
            write_set[u][k].wtype = "DELETE" /\ write_set[u][k].rid = rid
      BY <1>1, <1>4, <3>1 DEF ViewParts, MarkedAreDeleted, Deletes
    <3>3. PICK k \in 1 .. Len(write_set[u]) :
            write_set[u][k].wtype = "DELETE" /\ write_set[u][k].rid = rid
      BY <3>2
    <3>4. k \in 1 .. Len(write_set'[u]) /\ write_set'[u][k] = write_set[u][k]
      BY <1>4, <1>8, <2>4, <3>3
    <3> QED BY <3>3, <3>4, Zenon DEF Deletes
  <2> QED BY <1>1, <1>2, <1>4, <1>6, <2>3, <2>5, <2>6, OneFewerView
<1> QED BY <1>7, <1>8

\* Abort can take back every update: its record is there, unmarked, and not shorter
\* than the tuple that comes back.
LEMMA UpdatesComeBack ==
  ASSUME ViewInv, NEW t \in Txns, write_set[t] # <<>>, phase[t] = "abort",
         NEW rid, rid = Last(t).rid, Last(t).wtype = "UPDATE"
  PROVE  CanUpdate(pages[rid[1]], rid[2], Last(t).tuple)
PROOF
<1>1. ViewParts /\ ClaimParts /\ HeapInv /\ ClaimInv
  BY DEF ViewInv, ClaimInv
<1>2. PICK n \in Nat : n = Len(write_set[t]) /\ n \in 1 .. Len(write_set[t]) /\ Last(t) = write_set[t][n]
  BY <1>1, LastFacts
<1>3. /\ rid \in Nat \X Nat /\ Exists(rid) /\ Last(t).tuple \in Seq(Nat)
      /\ PageOK(pages[rid[1]]) /\ rid[2] \in 1 .. Len(pages[rid[1]].slots)
  BY <1>1, LastFacts DEF Item
<1>4. \A k : Claimed(t, k)
  BY DEF Claimed
<1>5. HasTuple(rid)
  BY <1>1, <1>2, <1>4 DEF ClaimParts, ClaimsHaveTuples
<1>6. ~ IsMarked(rid)
  <2> SUFFICES ASSUME IsMarked(rid) PROVE FALSE
    OBVIOUS
  <2>1. PICK u \in Txns : \E k \in 1 .. Len(write_set[u]) :
          write_set[u][k].wtype = "DELETE" /\ write_set[u][k].rid = rid
    BY <1>1, <1>3, <1>5 DEF ViewParts, MarkedAreDeleted, Deletes
  <2>2. PICK k \in 1 .. Len(write_set[u]) :
          write_set[u][k].wtype = "DELETE" /\ write_set[u][k].rid = rid
    BY <2>1
  <2>3. Claimed(u, k)
    BY <2>2 DEF Claimed
  <2>4. u = t
    BY <1>1, <1>4, <2>2, <2>3, OthersKeepAway
  <2>5. k # n
    BY <1>2, <2>2, <2>4
  <2>6. k < n
    BY <1>2, <2>4, <2>5
  <2> QED BY <1>1, <1>2, <2>2, <2>4, <2>6 DEF ClaimParts, DeleteIsLast
<1>7. Len(Last(t).tuple) <= Slot(rid).size
  BY <1>1, <1>2, <1>3 DEF ViewParts, Restorable
<1>8. PICK page : page = pages[rid[1]]
  OBVIOUS
<1>9. PICK g \in Int : g = GetFreeSpaceRemaining(page) /\ g >= 0
  <2>1. PICK x \in Nat : x = SIZE_TUPLE * Len(page.slots)
    BY <1>3, <1>8, Product, PageFacts, HeapAssumption DEF PageOK
  <2>2. page.free_space_pointer \in Nat /\ SIZE_TABLE_PAGE_HEADER \in Nat
    BY <1>3, <1>8, PageFacts, HeapAssumption DEF PageOK
  <2>3. GetFreeSpaceRemaining(page) \in Int
    BY <2>1, <2>2 DEF GetFreeSpaceRemaining
  <2> QED BY <1>3, <1>8, <2>3 DEF PageOK
<1>10. PICK s \in Nat : s = page.slots[rid[2]].size /\ s = Slot(rid).size /\ s > 0
  BY <1>3, <1>5, <1>8, PageFacts DEF PageOK, Slot, HasTuple
<1>11. PICK l \in Nat : l = Len(Last(t).tuple) /\ l <= s
  BY <1>3, <1>7, <1>10
<1>12. g + s >= l
  BY <1>9, <1>11
<1>13. ~ IsDeleted(page.slots[rid[2]])
  BY <1>6, <1>8, <1>10 DEF IsDeleted, IsMarked, Slot
<1> QED BY <1>8, <1>9, <1>10, <1>11, <1>12, <1>13 DEF CanUpdate

\* Abort brings back what was there before the last write to a record: what was
\* committed, if it was the first.
LEMMA AbortStepView ==
  ASSUME ViewInv, HeapInv', NEW t \in Txns, AbortStep(t)
  PROVE  ViewParts'
PROOF
<1>1. /\ ViewParts /\ ClaimParts /\ HeapInv /\ PagesInv' /\ phase[t] = "abort" /\ write_set[t] # <<>>
      /\ PopBack(t) /\ phase' = phase /\ committed' = committed
  BY DEF ViewInv, ClaimInv, HeapInv, AbortStep
<1>2. PICK item : item = Last(t)
  OBVIOUS
<1>3. PICK rid : rid = item.rid
  OBVIOUS
<1>4. PICK n \in Nat : n = Len(write_set[t]) /\ n \in 1 .. Len(write_set[t]) /\ item = write_set[t][n]
  BY <1>1, <1>2, LastFacts
<1>5. /\ rid \in Nat \X Nat /\ Exists(rid) /\ item.tuple \in Seq(Nat)
      /\ item.wtype \in {"INSERT", "UPDATE", "DELETE"}
      /\ item.wtype = "UPDATE" => item.tuple # <<>>
  BY <1>1, <1>2, <1>3, LastFacts DEF Item
<1>6. \A k : Claimed(t, k)
  BY <1>1 DEF Claimed
<1>7. HasTuple(rid)
  BY <1>1, <1>3, <1>4, <1>6 DEF ClaimParts, ClaimsHaveTuples
<1>8. /\ OnlyTuple(rid)
      /\ item.wtype = "INSERT" => Slot(rid)'.size = 0
      /\ item.wtype = "DELETE" => Stored(rid)' = Stored(rid) /\ ~ Slot(rid)'.marked
                                  /\ Slot(rid)'.size = Slot(rid).size
      /\ item.wtype = "UPDATE" => Stored(rid)' = item.tuple /\ ~ Slot(rid)'.marked
                                  /\ Slot(rid)'.size = Len(item.tuple)
  <2>1. item.wtype = "UPDATE" => CanUpdate(pages[rid[1]], rid[2], item.tuple)
    BY <1>1, <1>2, <1>3, UpdatesComeBack
  <2> QED BY <1>1, <1>2, <1>3, <1>7, <2>1, AbortStepTuple
<1>9. SlotsStay /\ Popped(t) /\ Exists(rid)'
  <2>1. OnlySlot(rid[1], rid[2])
    BY <1>1, <1>2, <1>3, AbortStepEffect
  <2>2. SlotsStay
    BY <1>1, <2>1, OnlySlotStays DEF HeapInv
  <2> QED BY <1>1, <1>5, <2>2, PopKeeps DEF SlotsStay
<1>10. ASSUME NEW k \in 1 .. Len(write_set'[t])
       PROVE  k \in 1 .. Len(write_set[t]) /\ k < n /\ write_set'[t][k] = write_set[t][k]
  BY <1>4, <1>9, <1>10 DEF Popped
<1>11. rid \in Rids /\ ~ Owned(rid)' => GetTuple(rid)' = committed[rid]
  <2> SUFFICES ASSUME rid \in Rids, ~ Owned(rid)' PROVE GetTuple(rid)' = committed[rid]
    OBVIOUS
  <2>1. IsFirst(t, n)
    <3> SUFFICES ASSUME NEW j \in 1 .. Len(write_set[t]), j < n, write_set[t][j].rid = rid PROVE FALSE
      BY <1>3, <1>4 DEF IsFirst
    <3>1. j \in 1 .. Len(write_set'[t]) /\ write_set'[t][j] = write_set[t][j]
      BY <1>4, <1>9 DEF Popped
    <3>2. Claimed(t, j)'
      BY <1>1 DEF Claimed
    <3> QED BY <3>1, <3>2 DEF Owned
  <2>2. Precedes(committed[rid], item, rid)
    BY <1>1, <1>3, <1>4, <2>1 DEF ViewParts, Remembered
  <2>3. CASE item.wtype = "INSERT"
    <3>1. ~ Live(rid)'
      BY <1>8, <2>3 DEF Live, IsDeleted
    <3> QED BY <2>2, <2>3, <3>1 DEF GetTuple, Precedes
  <2>4. CASE item.wtype = "DELETE"
    <3>1. Slot(rid)'.size # 0
      BY <1>7, <1>8, <2>4 DEF HasTuple
    <3>2. GetTuple(rid)' = Stored(rid)'
      BY <1>8, <1>9, <2>4, <3>1 DEF GetTuple, Live, IsDeleted, Stored
    <3> QED BY <1>8, <2>2, <2>4, <3>2 DEF Precedes
  <2>5. CASE item.wtype = "UPDATE"
    <3>1. Slot(rid)'.size # 0
      BY <1>5, <1>8, <2>5, EmptySeq
    <3>2. GetTuple(rid)' = Stored(rid)'
      BY <1>8, <1>9, <2>5, <3>1 DEF GetTuple, Live, IsDeleted, Stored
    <3> QED BY <1>8, <2>2, <2>5, <3>2 DEF Precedes
  <2> QED BY <1>5, <2>3, <2>4, <2>5
<1>12. ASSUME NEW k \in 1 .. Len(write_set'[t]), write_set[t][k].wtype = "UPDATE",
              write_set[t][k].rid = rid
       PROVE  Len(write_set[t][k].tuple) <= Slot(rid)'.size
  <2>1. k \in 1 .. Len(write_set[t]) /\ k < n
    BY <1>10
  <2>2. CASE item.wtype = "INSERT"
    BY <1>1, <1>3, <1>4, <1>12, <2>1, <2>2 DEF ClaimParts, InsertIsFirst
  <2>3. CASE item.wtype = "DELETE"
    <3>1. Len(write_set[t][k].tuple) <= Slot(rid).size
      BY <1>1, <1>5, <1>12, <2>1 DEF ViewParts, Restorable
    <3> QED BY <1>8, <2>3, <3>1
  <2>4. CASE item.wtype = "UPDATE"
    <3>1. Len(write_set[t][k].tuple) <= Len(item.tuple)
      BY <1>1, <1>3, <1>4, <1>12, <2>1, <2>4 DEF ViewParts, Growing
    <3> QED BY <1>8, <2>4, <3>1
  <2> QED BY <1>5, <2>2, <2>3, <2>4
<1>13. ~ (HasTuple(rid)' /\ IsMarked(rid)')
  <2>1. CASE item.wtype = "INSERT"
    BY <1>8, <2>1 DEF HasTuple
  <2>2. CASE item.wtype # "INSERT"
    BY <1>5, <1>8, <2>2 DEF IsMarked
  <2> QED BY <2>1, <2>2
<1>14. rid = Last(t).rid /\ Claimed(t, Len(write_set[t]))
  BY <1>2, <1>3, <1>6
<1>15. \A k \in 1 .. Len(write_set'[t]) :
         phase[t] # "commit" /\ write_set[t][k].wtype = "UPDATE" /\ write_set[t][k].rid = rid =>
           Len(write_set[t][k].tuple) <= Slot(rid)'.size
  BY <1>12, Zenon
<1>16. OnlyTuple(rid)
  BY <1>8
<1> QED BY <1>1, <1>5, <1>9, <1>11, <1>13, <1>14, <1>15, <1>16, OneFewerView, Zenon

\* Nothing is written and nothing committed.
LEMMA ViewInit == Init => ViewInv
PROOF
<1> SUFFICES ASSUME Init PROVE ViewInv
  OBVIOUS
<1>1. \A t \in Txns : Len(write_set[t]) = 0
  BY EmptySeq DEF Init
<1>2. Remembered /\ Restorable /\ Growing /\ Doomed
  BY <1>1 DEF Remembered, Restorable, Growing, Doomed
<1>3. \A r : ~ Exists(r)
  <2>1. pages = <<InitPage>> /\ Len(pages) = 1 /\ pages[1] = InitPage
    BY DEF Init
  <2> QED BY <2>1, InitPageOK DEF Exists
<1>4. Unowned /\ MarkedAreDeleted
  BY <1>3 DEF Unowned, MarkedAreDeleted, GetTuple, Live, Init
<1> QED BY <1>2, <1>4, ClaimInit DEF ViewInv, ViewParts

\* Every step preserves the invariant.
LEMMA ViewStep ==
  ASSUME Checked, ~ MayShrink PROVE ViewInv /\ [Next]_vars => ViewInv'
PROOF
<1> SUFFICES ASSUME ViewInv, [Next]_vars PROVE ViewParts'
  BY ClaimStep DEF ViewInv
<1>0. HeapInv /\ HeapInv' /\ phase \in [Txns -> Phases]
  BY HeapStep DEF ViewInv, ClaimInv, HeapInv
<1>a. ASSUME UNCHANGED <<pages, write_set, committed>>, NEW t \in Txns, NEW ph,
             phase' = [phase EXCEPT ![t] = ph], ph # "commit",
             phase[t] # "commit" \/ write_set[t] = <<>>
      PROVE  ViewParts'
  <2>1. write_set[t] = <<>> => Len(write_set[t]) = 0
    BY EmptySeq
  <2>2. \A u \in Txns : Len(write_set[u]) = 0 \/ (phase'[u] = "commit" <=> phase[u] = "commit")
    BY <1>0, <1>a, <2>1
  <2> QED BY <1>a, <2>2, SameView
<1>b. ASSUME UNCHANGED <<pages, write_set, phase, committed>> PROVE ViewParts'
  BY <1>b, SameView
<1>1. ASSUME NEW t \in Txns, NEW tuple \in Tuples, InsertTuple(t, tuple) PROVE ViewParts'
  <2>1. PICK ph \in {"failed", "insert"} : phase' = [phase EXCEPT ![t] = ph]
    BY <1>1 DEF InsertTuple
  <2>2. UNCHANGED <<pages, write_set, committed>> /\ phase[t] # "commit" /\ ph # "commit"
    BY <1>1 DEF InsertTuple, Running
  <2> QED BY <1>a, <2>1, <2>2
<1>2. ASSUME NEW t \in Txns, InsertHere(t) PROVE ViewParts'
  BY <1>0, <1>2, InsertHereView
<1>3. ASSUME NEW t \in Txns, InsertGoOn(t) PROVE ViewParts'
  BY <1>3, <1>b DEF InsertGoOn
<1>4. ASSUME NEW t \in Txns, InsertNewPage(t) PROVE ViewParts'
  BY <1>0, <1>4, NewPageView
<1>5. ASSUME NEW t \in Txns, NEW rid \in Rids, MarkDelete(t, rid) PROVE ViewParts'
  BY <1>0, <1>5, MarkDeleteView
<1>6. ASSUME NEW t \in Txns, NEW rid \in Rids, NEW tuple \in Tuples, UpdateTuple(t, rid, tuple)
      PROVE  ViewParts'
  BY <1>0, <1>6, UpdateTupleView
<1>7. ASSUME NEW t \in Txns, Commit(t) PROVE ViewParts'
  BY <1>7, CommitView
<1>8. ASSUME NEW t \in Txns, Abort(t) \/ Finish(t) PROVE ViewParts'
  <2>1. PICK ph \in {"abort", "run"} : phase' = [phase EXCEPT ![t] = ph]
    BY <1>8 DEF Abort, Finish
  <2>2. /\ UNCHANGED <<pages, write_set, committed>> /\ ph # "commit"
        /\ phase[t] # "commit" \/ write_set[t] = <<>>
    BY <1>8 DEF Abort, Finish
  <2> QED BY <1>a, <2>1, <2>2
<1>9. ASSUME NEW t \in Txns, CommitStep(t) PROVE ViewParts'
  BY <1>0, <1>9, CommitStepView
<1>10. ASSUME NEW t \in Txns, AbortStep(t) PROVE ViewParts'
  BY <1>0, <1>10, AbortStepView
<1>11. CASE Begin \/ BeginPage \/ BeginNextPage \/ Construct \/ ScanNext \/ ScanPage \/ ScanEnd
  BY <1>11, <1>b DEF Begin, BeginPage, BeginNextPage, Construct, ScanNext, ScanPage, ScanEnd, ScanStep
<1>12. CASE UNCHANGED vars
  BY <1>12, <1>b DEF vars
<1> QED BY <1>1, <1>2, <1>3, <1>4, <1>5, <1>6, <1>7, <1>8, <1>9, <1>10, <1>11, <1>12 DEF Next

(***************************************************************************)
(* If clients look before they change, and no update makes a tuple shorter,  *)
(* then a record that no unfinished transaction has written holds what was   *)
(* last committed: no insertion, update, deletion or shift of other tuples   *)
(* of its page disturbs it, and Abort restores what it found.               *)
(***************************************************************************)
THEOREM CommittedTuplesStay ==
  ASSUME Checked, ~ MayShrink PROVE Spec => []CommittedView
PROOF
<1>1. ViewInv => CommittedView
  <2> SUFFICES ASSUME ViewInv, NEW r \in Rids, \A t \in Txns : r \notin Written(t)
               PROVE  GetTuple(r) = committed[r]
    BY DEF CommittedView
  <2>1. ~ Owned(r)
    BY DEF Owned, Written
  <2> QED BY <2>1 DEF ViewInv, ViewParts, Unowned
<1>2. Init => ViewInv
  BY ViewInit
<1>3. ViewInv /\ [Next]_vars => ViewInv'
  BY ViewStep
<1> QED BY <1>1, <1>2, <1>3, PTL DEF Spec
=============================================================================
