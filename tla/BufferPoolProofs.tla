-------------------------- MODULE BufferPoolProofs --------------------------
(***************************************************************************)
(* Proofs about BufferPool for every pool size, every set of clients, every *)
(* set of contents and every discipline of the clients.                     *)
(***************************************************************************)
EXTENDS BufferPool, BufferPoolArithmetic, FiniteSetTheorems, TLAPS

Injective(s) == \A i, j \in 1 .. Len(s) : s[i] = s[j] => i = j

-----------------------------------------------------------------------------
(* Lists.                                                                  *)

\* Membership in the range of a list.
LEMMA InRange ==
  ASSUME NEW S, NEW s \in Seq(S)
  PROVE  \A x : x \in Range(s) <=> \E i \in 1 .. Len(s) : s[i] = x
PROOF BY DEF Range

\* LRUReplacer::Pin removes its frame from the list and nothing else.
LEMMA PinFacts ==
  ASSUME NEW S, NEW list \in Seq(S), NEW f
  PROVE  /\ Pin(list, f) \in Seq(S)
         /\ Injective(list) => /\ Injective(Pin(list, f))
                               /\ Range(Pin(list, f)) = Range(list) \ {f}
PROOF
<1>1. CASE ~ IsInReplacer(list, f)
  BY <1>1 DEF Pin, IsInReplacer, Range, Injective
<1>2. CASE IsInReplacer(list, f)
  <2> DEFINE k == CHOOSE j \in 1 .. Len(list) : list[j] = f
             p == [j \in 1 .. (Len(list) - 1) |-> IF j < k THEN list[j] ELSE list[j + 1]]
  <2>1. k \in 1 .. Len(list) /\ list[k] = f
    BY <1>2 DEF IsInReplacer, Range
  <2>2. Pin(list, f) = p
    BY <1>2 DEF Pin
  <2> HIDE DEF k
  <2>3. p \in Seq(S) /\ Len(p) = Len(list) - 1 /\ DOMAIN p = 1 .. (Len(list) - 1)
    BY <2>1
  <2>4. ASSUME Injective(list)
        PROVE  Injective(p)
    BY <2>1, <2>3, <2>4 DEF Injective
  <2>5. ASSUME Injective(list)
        PROVE  Range(p) = Range(list) \ {f}
    <3>1. \A j \in 1 .. (Len(list) - 1) : p[j] \in Range(list) \ {f}
      BY <2>1, <2>5 DEF Injective, Range
    <3>2. ASSUME NEW i \in 1 .. Len(list), list[i] # f
          PROVE  \E j \in 1 .. (Len(list) - 1) : p[j] = list[i]
      <4>1. CASE i < k
        BY <4>1, <2>1
      <4>2. CASE i > k
        <5>1. i - 1 \in 1 .. (Len(list) - 1) /\ p[i - 1] = list[i]
          BY <4>2, <2>1
        <5> QED BY <5>1
      <4> QED BY <4>1, <4>2, <3>2, <2>1
    <3> HIDE DEF p
    <3>3. \A x : x \in Range(p) <=> \E j \in 1 .. (Len(list) - 1) : p[j] = x
      BY <2>3, InRange
    <3>4. \A x : x \in Range(list) <=> \E i \in 1 .. Len(list) : list[i] = x
      BY InRange
    <3>5. ASSUME NEW x PROVE x \in Range(p) <=> x \in Range(list) \ {f}
      BY <3>1, <3>2, <3>3, <3>4
    <3> QED BY <3>5
  <2> QED BY <2>2, <2>3, <2>4, <2>5
<1> QED BY <1>1, <1>2

\* LRUReplacer::Unpin puts its frame into the list once.
LEMMA UnpinFacts ==
  ASSUME NEW S, NEW list \in Seq(S), NEW f \in S
  PROVE  /\ Unpin(list, f) \in Seq(S)
         /\ Range(Unpin(list, f)) = Range(list) \cup {f}
         /\ Injective(list) => Injective(Unpin(list, f))
PROOF
<1>1. CASE IsInReplacer(list, f)
  BY <1>1 DEF Unpin, IsInReplacer
<1>2. CASE ~ IsInReplacer(list, f)
  <2> DEFINE u == <<f>> \o list
  <2>1. u \in Seq(S) /\ Len(u) = Len(list) + 1 /\ u[1] = f
        /\ \A i \in 1 .. Len(list) : u[i + 1] = list[i]
    OBVIOUS
  <2>2. \A i \in 2 .. Len(u) : u[i] = list[i - 1] /\ i - 1 \in 1 .. Len(list)
    BY <2>1
  <2>3. Unpin(list, f) = u
    BY <1>2 DEF Unpin
  <2> HIDE DEF u
  <2>4. Range(u) = Range(list) \cup {f}
    <3>1. \A i \in DOMAIN u : u[i] \in Range(list) \cup {f}
      BY <2>1, <2>2 DEF Range
    <3>2. \A i \in DOMAIN list : \E j \in DOMAIN u : u[j] = list[i]
      <4> SUFFICES ASSUME NEW i \in 1 .. Len(list)
                   PROVE  \E j \in 1 .. Len(u) : u[j] = list[i]
        BY <2>1, SMTT(60)
      <4>1. i + 1 \in 1 .. Len(u) /\ u[i + 1] = list[i]
        BY <2>1
      <4> QED BY <4>1
    <3>3. \E j \in DOMAIN u : u[j] = f
      BY <2>1
    <3> QED BY <3>1, <3>2, <3>3 DEF Range
  <2>5. ASSUME Injective(list) PROVE Injective(u)
    <3>1. \A i \in 2 .. Len(u) : u[i] # f
      BY <2>2, <1>2 DEF IsInReplacer, Range
    <3>2. ASSUME NEW i \in 1 .. Len(u), NEW j \in 1 .. Len(u), u[i] = u[j]
          PROVE  i = j
      <4>1. CASE i = 1 \/ j = 1
        BY <4>1, <3>1, <3>2, <2>1
      <4>2. CASE i # 1 /\ j # 1
        <5>1. i \in 2 .. Len(u) /\ j \in 2 .. Len(u)
          BY <4>2
        <5>2. i - 1 = j - 1
          BY <5>1, <3>2, <2>2, <2>5 DEF Injective
        <5> QED BY <5>2
      <4> QED BY <4>1, <4>2
    <3> QED BY <3>2 DEF Injective
  <2> QED BY <2>1, <2>3, <2>4, <2>5
<1> QED BY <1>1, <1>2

\* LRUReplacer::Victim takes the last frame of a non-empty list.
LEMMA VictimFacts ==
  ASSUME NEW S, NEW list \in Seq(S), list # <<>>
  PROVE  /\ Victim(list) \in S
         /\ Victim(list) \in Range(list)
         /\ AfterVictim(list) \in Seq(S)
         /\ Injective(list) =>
              /\ Injective(AfterVictim(list))
              /\ Range(AfterVictim(list)) = Range(list) \ {Victim(list)}
PROOF
<1> DEFINE a == [j \in 1 .. (Len(list) - 1) |-> list[j]]
<1>1. Len(list) \in 1 .. Len(list)
  OBVIOUS
<1>2. AfterVictim(list) = a /\ Victim(list) = list[Len(list)]
  BY DEF AfterVictim, Victim
<1>3. a \in Seq(S) /\ Len(a) = Len(list) - 1 /\ DOMAIN a = 1 .. (Len(list) - 1)
  BY <1>1
<1>4. ASSUME Injective(list)
      PROVE  Injective(a) /\ Range(a) = Range(list) \ {list[Len(list)]}
  <2>1. Injective(a)
    BY <1>4, <1>3 DEF Injective
  <2>2. \A j \in 1 .. (Len(list) - 1) : a[j] \in Range(list) \ {list[Len(list)]}
    BY <1>4, <1>1 DEF Injective, Range
  <2>3. \A i \in 1 .. Len(list) : i # Len(list) => i \in 1 .. (Len(list) - 1) /\ a[i] = list[i]
    OBVIOUS
  <2> HIDE DEF a
  <2>4. \A x : x \in Range(a) <=> \E j \in 1 .. (Len(list) - 1) : a[j] = x
    BY <1>3, InRange
  <2>5. \A x : x \in Range(list) <=> \E i \in 1 .. Len(list) : list[i] = x
    BY InRange
  <2>6. ASSUME NEW x PROVE x \in Range(a) <=> x \in Range(list) \ {list[Len(list)]}
    BY <2>2, <2>3, <2>4, <2>5
  <2> QED BY <2>1, <2>6
<1>5. list[Len(list)] \in S /\ list[Len(list)] \in Range(list)
  BY <1>1, InRange
<1> QED BY <1>2, <1>3, <1>4, <1>5

\* free_list_.pop_front on a non-empty list.
LEMMA PopFacts ==
  ASSUME NEW S, NEW list \in Seq(S), list # <<>>, Injective(list)
  PROVE  /\ Head(list) \in S
         /\ Head(list) \in Range(list)
         /\ Tail(list) \in Seq(S)
         /\ Injective(Tail(list))
         /\ Range(Tail(list)) = Range(list) \ {Head(list)}
PROOF
<1> DEFINE t == Tail(list)
<1>1. /\ Len(list) >= 1 /\ Head(list) = list[1]
      /\ t \in Seq(S) /\ Len(t) = Len(list) - 1
      /\ \A i \in 1 .. (Len(list) - 1) : t[i] = list[i + 1]
  OBVIOUS
<1> HIDE DEF t
<1>2. Injective(t)
  BY <1>1 DEF Injective
<1>3. \A j \in 1 .. (Len(list) - 1) : t[j] \in Range(list) \ {list[1]}
  BY <1>1 DEF Injective, Range
<1>4. ASSUME NEW i \in 1 .. Len(list), i # 1
      PROVE  \E j \in 1 .. (Len(list) - 1) : t[j] = list[i]
  <2>1. i - 1 \in 1 .. (Len(list) - 1) /\ t[i - 1] = list[i]
    BY <1>1, <1>4
  <2> QED BY <2>1
<1>5. \A x : x \in Range(t) <=> \E j \in 1 .. (Len(list) - 1) : t[j] = x
  BY <1>1, InRange
<1>6. \A x : x \in Range(list) <=> \E i \in 1 .. Len(list) : list[i] = x
  BY InRange
<1>7. ASSUME NEW x PROVE x \in Range(t) <=> x \in Range(list) \ {list[1]}
  <2>1. ASSUME x \in Range(list), x # list[1] PROVE x \in Range(t)
    <3>1. PICK i \in 1 .. Len(list) : list[i] = x
      BY <2>1, <1>6
    <3> QED BY <3>1, <2>1, <1>4, <1>5
  <2> QED BY <2>1, <1>3, <1>5
<1>8. list[1] \in Range(list)
  BY <1>1, <1>6
<1> QED BY <1>1, <1>2, <1>7, <1>8 DEF t

\* free_list_.push_back of a frame that is not in the list.
LEMMA PushFacts ==
  ASSUME NEW S, NEW list \in Seq(S), NEW f \in S, Injective(list), f \notin Range(list)
  PROVE  /\ Append(list, f) \in Seq(S)
         /\ Injective(Append(list, f))
         /\ Range(Append(list, f)) = Range(list) \cup {f}
PROOF
<1> DEFINE a == Append(list, f)
<1>1. /\ a \in Seq(S) /\ Len(a) = Len(list) + 1 /\ a[Len(list) + 1] = f
      /\ \A i \in 1 .. Len(list) : a[i] = list[i]
  OBVIOUS
<1> HIDE DEF a
<1>2. Injective(a)
  BY <1>1 DEF Injective, Range
<1>3. Len(list) + 1 \in 1 .. Len(a) /\ \A i \in 1 .. Len(a) : i # Len(list) + 1 => i \in 1 .. Len(list)
  BY <1>1
<1>4. Range(a) = Range(list) \cup {f}
  BY <1>1, <1>3 DEF Range
<1> QED BY <1>1, <1>2, <1>4 DEF a

-----------------------------------------------------------------------------
(* The page table.                                                         *)

\* Resident pages were allocated: AllocatePage hands out a page id that
\* page_table_ does not know yet.
PageTableBounded == \A p \in DOMAIN page_table : p < next_page_id

TableInv == TypeOK /\ PageTableConsistent /\ PageTableBounded

\* DiskManager::WritePage leaves a file of pages.
LEMMA WriteType ==
  ASSUME NEW file \in Seq(Data), NEW p \in Nat, NEW d \in Data
  PROVE  WritePage(file, p, d) \in Seq(Data)
PROOF
<1> DEFINE n == IF p + 1 > Len(file) THEN p + 1 ELSE Len(file)
<1>1. n \in Nat
  OBVIOUS
<1>2. \A i \in 1 .. n : (IF i = p + 1 THEN d ELSE IF i <= Len(file) THEN file[i] ELSE Zero) \in Data
  BY PoolAssumption
<1> QED BY <1>1, <1>2 DEF WritePage

\* DiskManager::ReadPage fills the frame with some content, or leaves it.
LEMMA ReadType ==
  ASSUME NEW file \in Seq(Data), NEW p \in Nat, NEW d \in Data
  PROVE  ReadPage(file, p, d) \in Data
PROOF BY PoolAssumption DEF ReadPage

\* FlushPg leaves a file of pages.
LEMMA FlushType ==
  ASSUME TypeOK, NEW page \in Page, NEW p \in PageIds
  PROVE  FlushPg(page, p) \in Seq(Data)
PROOF BY WriteType DEF TypeOK, FlushPg, Page, PageIds

\* What FindFreshPage returns: a frame that is no longer free, no longer
\* mapped by any page, and a page table that lost nothing else.
LEMMA FreshFacts ==
  ASSUME TableInv, ~ NoFreshPage
  PROVE  LET r == FindFreshPage
             f == r.frame_id
         IN /\ f \in Frames
            /\ r.page \in Page
            /\ r.page.pin_count = pages[f].pin_count /\ r.page.data = pages[f].data
            /\ r.free_list \in Seq(Frames) /\ Injective(r.free_list)
            /\ Range(r.free_list) = Range(free_list) \ {f}
            /\ r.wait_list \in Seq(Frames)
            /\ r.disk \in Seq(Data)
            /\ DOMAIN r.page_table = {q \in DOMAIN page_table : page_table[q] # f}
            /\ \A q \in DOMAIN r.page_table : r.page_table[q] = page_table[q]
PROOF
<1> USE DEF TableInv
<1>0. Injective(free_list)
  BY DEF PageTableConsistent, Injective
<1>1. CASE free_list # <<>>
  <2> DEFINE f == Head(free_list)
  <2>1. /\ f \in Frames /\ f \in Range(free_list) /\ Tail(free_list) \in Seq(Frames)
        /\ Injective(Tail(free_list)) /\ Range(Tail(free_list)) = Range(free_list) \ {f}
    BY <1>0, <1>1, PopFacts DEF TypeOK
  <2>2. \A q \in DOMAIN page_table : page_table[q] # f
    <3>1. pages[f].page_id = INVALID_PAGE_ID
      BY <2>1 DEF PageTableConsistent
    <3>2. \A q \in DOMAIN page_table : pages[page_table[q]].page_id = q /\ q \in PageIds
      BY DEF PageTableConsistent, TypeOK
    <3> QED BY <3>1, <3>2, PoolAssumption DEF INVALID_PAGE_ID, PageIds
  <2>3. FindFreshPage = TakeFree
    BY <1>1 DEF FindFreshPage
  <2> QED BY <2>1, <2>2, <2>3 DEF TakeFree, TypeOK
<1>2. CASE free_list = <<>>
  <2> DEFINE f == Victim(wait_list)
             p == pages[f].page_id
  <2>1. wait_list # <<>>
    BY <1>2 DEF NoFreshPage
  <2>2. f \in Frames /\ AfterVictim(wait_list) \in Seq(Frames)
    BY <2>1, VictimFacts DEF TypeOK
  <2>3. f \notin Range(free_list)
    BY <1>2 DEF Range
  <2>4. p \in DOMAIN page_table /\ page_table[p] = f /\ p \in PageIds
    BY <2>2, <2>3 DEF PageTableConsistent, TypeOK
  <2>5. \A q \in DOMAIN page_table : page_table[q] = f => q = p
    BY DEF PageTableConsistent
  <2>6. pages[f] \in Page
    BY <2>2 DEF TypeOK
  <2>7. FlushPg(pages[f], p) \in Seq(Data)
    BY <2>4, <2>6, FlushType
  <2>8. FindFreshPage = Evict
    BY <1>2 DEF FindFreshPage
  <2>9. DOMAIN Erase(page_table, p) = {q \in DOMAIN page_table : page_table[q] # f}
        /\ \A q \in DOMAIN Erase(page_table, p) : Erase(page_table, p)[q] = page_table[q]
    BY <2>4, <2>5 DEF Erase
  <2>10. Range(free_list) = Range(free_list) \ {f}
    BY <2>3
  <2>11. [pages[f] EXCEPT !.is_dirty = FALSE] \in Page
    BY <2>6 DEF Page
  <2> HIDE DEF f, p
  <2> QED BY <2>2, <2>7, <2>8, <2>9, <2>10, <2>11, <1>0, <2>6 DEF Evict, TypeOK, f, p, Page
<1> QED BY <1>1, <1>2

\* Putting a page that is not resident into the frame FindFreshPage returned
\* keeps the page table consistent.
LEMMA Install ==
  ASSUME TableInv, ~ NoFreshPage,
         NEW p \in PageIds, p \notin DOMAIN page_table,
         pages' \in [Frames -> Page],
         pages'[FindFreshPage.frame_id].page_id = p,
         \A g \in Frames \ {FindFreshPage.frame_id} : pages'[g] = pages[g],
         page_table' = Put(FindFreshPage.page_table, p, FindFreshPage.frame_id),
         free_list' = FindFreshPage.free_list
  PROVE  /\ PageTableConsistent'
         /\ DOMAIN page_table' \subseteq DOMAIN page_table \cup {p}
         /\ page_table' \in [DOMAIN page_table' -> Frames]
         /\ free_list' \in Seq(Frames)
PROOF
<1> DEFINE r == FindFreshPage
           f == r.frame_id
<1>1. /\ f \in Frames
      /\ r.free_list \in Seq(Frames) /\ Injective(r.free_list)
      /\ Range(r.free_list) = Range(free_list) \ {f}
      /\ DOMAIN r.page_table = {q \in DOMAIN page_table : page_table[q] # f}
      /\ \A q \in DOMAIN r.page_table : r.page_table[q] = page_table[q]
  BY FreshFacts
<1> HIDE DEF r
<1>2. /\ pages'[f].page_id = p
      /\ \A g \in Frames : g # f => pages'[g] = pages[g]
      /\ page_table' = Put(r.page_table, p, f)
      /\ free_list' = r.free_list
  BY DEF r
<1> HIDE DEF f
<1>3. /\ DOMAIN page_table' = {q \in DOMAIN page_table : page_table[q] # f} \cup {p}
      /\ page_table'[p] = f
      /\ \A q \in DOMAIN page_table' : q # p => page_table'[q] = page_table[q]
  BY <1>1, <1>2 DEF Put
<1>4. pages \in [Frames -> Page] /\ page_table \in [DOMAIN page_table -> Frames]
  BY DEF TableInv, TypeOK
<1>6. page_table' \in [DOMAIN page_table' -> Frames]
  <2>1. \A q \in DOMAIN page_table' : page_table'[q] \in Frames
    BY <1>1, <1>3, <1>4
  <2>2. page_table' = [q \in DOMAIN page_table' |-> page_table'[q]]
    BY <1>2, <1>3 DEF Put
  <2> QED BY <2>1, <2>2
<1>7. \A q \in DOMAIN page_table' : pages'[page_table'[q]].page_id = q
  <2> SUFFICES ASSUME NEW q \in DOMAIN page_table' PROVE pages'[page_table'[q]].page_id = q
    OBVIOUS
  <2>1. CASE q = p
    BY <2>1, <1>3, <1>2
  <2>2. CASE q # p
    <3>1. q \in DOMAIN page_table /\ page_table[q] # f /\ page_table'[q] = page_table[q]
      BY <2>2, <1>3
    <3>2. pages[page_table[q]].page_id = q /\ page_table[q] \in Frames
      BY <3>1, <1>4 DEF TableInv, PageTableConsistent
    <3> QED BY <3>1, <3>2, <1>2
  <2> QED BY <2>1, <2>2
<1>8. \A g \in Frames : pages'[g].page_id # INVALID_PAGE_ID =>
        pages'[g].page_id \in DOMAIN page_table' /\ page_table'[pages'[g].page_id] = g
  <2> SUFFICES ASSUME NEW g \in Frames, pages'[g].page_id # INVALID_PAGE_ID
               PROVE  pages'[g].page_id \in DOMAIN page_table' /\ page_table'[pages'[g].page_id] = g
    OBVIOUS
  <2>1. CASE g = f
    BY <2>1, <1>3, <1>2
  <2>2. CASE g # f
    <3>1. pages'[g] = pages[g]
      BY <2>2, <1>2
    <3>2. pages[g].page_id \in DOMAIN page_table /\ page_table[pages[g].page_id] = g
      BY <3>1 DEF TableInv, PageTableConsistent
    <3> QED BY <3>1, <3>2, <2>2, <1>3
  <2> QED BY <2>1, <2>2
<1>9. \A g \in Frames : g \in Range(free_list') <=> pages'[g].page_id = INVALID_PAGE_ID
  <2> SUFFICES ASSUME NEW g \in Frames
               PROVE  g \in Range(free_list') <=> pages'[g].page_id = INVALID_PAGE_ID
    OBVIOUS
  <2>1. CASE g = f
    BY <2>1, <1>1, <1>2, PoolAssumption DEF INVALID_PAGE_ID, PageIds
  <2>2. CASE g # f
    BY <2>2, <1>1, <1>2 DEF TableInv, PageTableConsistent
  <2> QED BY <2>1, <2>2
<1> QED BY <1>1, <1>2, <1>3, <1>2, <1>6, <1>7, <1>8, <1>9 DEF PageTableConsistent, Injective

\* The constructor builds a consistent instance.
LEMMA TableInit == Init => TableInv
PROOF
<1> SUFFICES ASSUME Init PROVE TableInv
  OBVIOUS
<1> USE PoolAssumption DEF Init
<1>1. /\ free_list \in Seq(Frames) /\ Len(free_list) = pool_size
      /\ \A i \in 1 .. pool_size : free_list[i] = i - 1
  BY DEF Frames
<1>2. pages \in [Frames -> Page]
  BY DEF Page
<1>3. \A f \in Frames : f \in Range(free_list)
  <2> SUFFICES ASSUME NEW f \in Frames PROVE f \in Range(free_list)
    OBVIOUS
  <2>1. f + 1 \in 1 .. Len(free_list) /\ free_list[f + 1] = f
    BY <1>1 DEF Frames
  <2> QED BY <2>1, <1>1, InRange
<1>4. TypeOK
  <2>1. page_table \in [DOMAIN page_table -> Frames] /\ DOMAIN page_table \subseteq PageIds
    OBVIOUS
  <2>2. wait_list \in Seq(Frames) /\ disk \in Seq(Data)
    OBVIOUS
  <2>3. handle \in [Clients -> Handle \cup {NoHandle}] /\ content \in [PageIds -> Data]
    OBVIOUS
  <2>4. ret \in [op : Calls, page : PageIds \cup {INVALID_PAGE_ID}, ok : BOOLEAN]
        /\ flush \in [on : BOOLEAN, visited : SUBSET PageIds, raced : BOOLEAN]
    BY DEF Calls, Idle
  <2>5. next_page_id \in Nat
    OBVIOUS
  <2> HIDE DEF Init
  <2> QED BY <1>1, <1>2, <2>1, <2>2, <2>3, <2>4, <2>5 DEF TypeOK
<1>5. PageTableConsistent
  BY <1>1, <1>3 DEF PageTableConsistent
<1> QED BY <1>4, <1>5 DEF TableInv, PageTableBounded

\* NewPgImp: the allocated page id is new, so Install applies.
LEMMA NewPgTable == ASSUME TableInv, NEW c \in Clients, NewPg(c) PROVE TableInv'
PROOF
<1> DEFINE r == FindFreshPage
           f == r.frame_id
           p == next_page_id
           page == [page_id |-> p, pin_count |-> r.page.pin_count + 1,
                    is_dirty |-> r.page.is_dirty, data |-> Zero]
<1> USE PoolAssumption
<1>1. ~ NoFreshPage /\ p \in PageIds /\ next_page_id' = p + num_instances
  BY DEF NewPg, TableInv, TypeOK, PageIds
<1>2. p \notin DOMAIN page_table
  BY <1>1 DEF TableInv, PageTableBounded, PageIds
<1>3. /\ f \in Frames /\ r.page \in Page
      /\ r.wait_list \in Seq(Frames) /\ r.disk \in Seq(Data)
  BY <1>1, FreshFacts
<1>4. pages' = [pages EXCEPT ![f] = page]
  BY DEF NewPg
<1>5. page_table' = Put(r.page_table, p, f) /\ free_list' = r.free_list
      /\ wait_list' = r.wait_list /\ disk' = r.disk
  BY DEF NewPg
<1>6. handle' = [handle EXCEPT ![c] = [page |-> p, frame |-> f, dirty |-> ~ CleanNew]]
      /\ content' = [content EXCEPT ![p] = Zero]
      /\ ret' = [op |-> "NewPage", page |-> p, ok |-> TRUE]
      /\ flush' = IF flush.on /\ page_table' # page_table
                   THEN [flush EXCEPT !.raced = TRUE] ELSE flush
  BY DEF NewPg, Return, MayRace
<1> HIDE DEF r, f
<1>7. page \in Page /\ page.page_id = p
  <2>1. r.page.pin_count + 1 \in Nat /\ r.page.is_dirty \in BOOLEAN /\ p \in PageIds
    BY <1>1, <1>3 DEF Page
  <2> QED BY <2>1 DEF Page
<1> HIDE DEF page
<1>8. pages' \in [Frames -> Page] /\ pages'[f] = page /\ \A g \in Frames \ {f} : pages'[g] = pages[g]
  BY <1>3, <1>4, <1>7 DEF TableInv, TypeOK
<1>9. /\ PageTableConsistent'
      /\ DOMAIN page_table' \subseteq DOMAIN page_table \cup {p}
      /\ page_table' \in [DOMAIN page_table' -> Frames]
      /\ free_list' \in Seq(Frames)
  BY <1>1, <1>2, <1>5, <1>7, <1>8, Install DEF r, f
<1>10. handle' \in [Clients -> Handle \cup {NoHandle}]
  BY <1>1, <1>3, <1>6 DEF TableInv, TypeOK, Handle
<1>11. content' \in [PageIds -> Data] /\ ret' \in [op : Calls, page : PageIds \cup {INVALID_PAGE_ID}, ok : BOOLEAN]
  BY <1>1, <1>6 DEF TableInv, TypeOK, Calls
<1>12. flush' \in [on : BOOLEAN, visited : SUBSET PageIds, raced : BOOLEAN]
  BY <1>6 DEF TableInv, TypeOK, Calls
<1>13. next_page_id' \in Nat /\ p < next_page_id' /\ p \in Nat
  BY <1>1 DEF PageIds
<1>14. TypeOK'
  BY <1>1, <1>3, <1>5, <1>8, <1>9, <1>10, <1>11, <1>12, <1>13 DEF TypeOK, TableInv
<1>15. PageTableBounded'
  <2> SUFFICES ASSUME NEW q \in DOMAIN page_table' PROVE q < next_page_id'
    BY DEF PageTableBounded
  <2>1. q = p \/ (q \in DOMAIN page_table /\ q \in PageIds /\ q < p)
    BY <1>9 DEF TableInv, PageTableBounded, TypeOK
  <2> QED BY <2>1, <1>13, <1>1 DEF PageIds
<1> QED BY <1>9, <1>14, <1>15 DEF TableInv

\* FetchPgImp when the page is not resident.
LEMMA FetchPgMissTable ==
  ASSUME TableInv, NEW c \in Clients, NEW p \in PageIds, FetchPgMiss(c, p) PROVE TableInv'
PROOF
<1> DEFINE r == FindFreshPage
           f == r.frame_id
           page == [page_id |-> p, pin_count |-> r.page.pin_count + 1, is_dirty |-> FALSE,
                    data |-> ReadPage(r.disk, p, r.page.data)]
<1> USE PoolAssumption
<1>1. ~ NoFreshPage /\ p \in Allocated
  BY DEF FetchPgMiss, MayFetch
<1>2. p \notin DOMAIN page_table
  <2>1. FindPage(p) = NoFrame
    BY DEF FetchPgMiss
  <2>2. p \in DOMAIN page_table => page_table[p] \in Frames
    BY DEF TableInv, TypeOK
  <2> QED BY <2>1, <2>2 DEF FindPage, NoFrame, Frames
<1>3. /\ f \in Frames /\ r.page \in Page
      /\ r.wait_list \in Seq(Frames) /\ r.disk \in Seq(Data)
  BY <1>1, FreshFacts
<1>4. pages' = [pages EXCEPT ![f] = page]
  BY DEF FetchPgMiss
<1>5. page_table' = Put(r.page_table, p, f) /\ free_list' = r.free_list
      /\ wait_list' = Pin(r.wait_list, f) /\ disk' = r.disk
      /\ next_page_id' = next_page_id /\ content' = content
  BY DEF FetchPgMiss
<1>6. handle' = [handle EXCEPT ![c] = [page |-> p, frame |-> f, dirty |-> FALSE]]
      /\ ret' = [op |-> "FetchPage", page |-> p, ok |-> TRUE]
      /\ flush' = IF flush.on /\ page_table' # page_table
                   THEN [flush EXCEPT !.raced = TRUE] ELSE flush
  BY DEF FetchPgMiss, Return, MayRace
<1> HIDE DEF r, f
<1>7. page \in Page /\ page.page_id = p
  <2>1. ReadPage(r.disk, p, r.page.data) \in Data
    <3>1. p \in Nat /\ r.disk \in Seq(Data)
      BY <1>3 DEF PageIds
    <3>2. r.page.data \in Data
      BY <1>3 DEF Page
    <3> QED BY <3>1, <3>2, ReadType
  <2>2. r.page.pin_count + 1 \in Nat
    BY <1>3 DEF Page
  <2> QED BY <2>1, <2>2 DEF Page
<1> HIDE DEF page
<1>8. pages' \in [Frames -> Page] /\ pages'[f] = page /\ \A g \in Frames \ {f} : pages'[g] = pages[g]
  BY <1>3, <1>4, <1>7 DEF TableInv, TypeOK
<1>9. /\ PageTableConsistent'
      /\ DOMAIN page_table' \subseteq DOMAIN page_table \cup {p}
      /\ page_table' \in [DOMAIN page_table' -> Frames]
      /\ free_list' \in Seq(Frames)
  BY <1>1, <1>2, <1>5, <1>7, <1>8, Install DEF r, f
<1>10. handle' \in [Clients -> Handle \cup {NoHandle}]
  BY <1>1, <1>3, <1>6 DEF TableInv, TypeOK, Handle
<1>11. ret' \in [op : Calls, page : PageIds \cup {INVALID_PAGE_ID}, ok : BOOLEAN]
       /\ flush' \in [on : BOOLEAN, visited : SUBSET PageIds, raced : BOOLEAN]
  BY <1>6 DEF TableInv, TypeOK, Calls
<1>12. wait_list' \in Seq(Frames)
  BY <1>3, <1>5, PinFacts
<1>13. TypeOK'
  BY <1>1, <1>3, <1>5, <1>8, <1>9, <1>10, <1>11, <1>12 DEF TypeOK, TableInv
<1>14. PageTableBounded'
  BY <1>1, <1>5, <1>9 DEF TableInv, PageTableBounded, Allocated
<1> QED BY <1>9, <1>13, <1>14 DEF TableInv

\* DeletePgImp returns the frame to the free list.
LEMMA DeletePgTable ==
  ASSUME TableInv, NEW p \in PageIds, DeletePg(p) PROVE TableInv'
PROOF
<1> USE PoolAssumption
<1>0. /\ ret' = [op |-> "DeletePage", page |-> p, ok |-> TRUE]
      /\ flush' = IF flush.on /\ page_table' # page_table
                   THEN [flush EXCEPT !.raced = TRUE] ELSE flush
      /\ UNCHANGED <<wait_list, next_page_id, disk, handle, content>>
  BY DEF DeletePg, Return, MayRace
<1>1. ret' \in [op : Calls, page : PageIds \cup {INVALID_PAGE_ID}, ok : BOOLEAN]
      /\ flush' \in [on : BOOLEAN, visited : SUBSET PageIds, raced : BOOLEAN]
  BY <1>0 DEF TableInv, TypeOK, Calls
<1>2. CASE FindPage(p) = NoFrame
  BY <1>0, <1>1, <1>2 DEF DeletePg, TableInv, TypeOK, PageTableConsistent, PageTableBounded
<1>3. CASE FindPage(p) # NoFrame
  <2> DEFINE f == page_table[p]
             page == [page_id |-> INVALID_PAGE_ID, pin_count |-> 0, is_dirty |-> FALSE, data |-> Zero]
  <2>1. p \in DOMAIN page_table /\ FindPage(p) = f
    BY <1>3 DEF FindPage
  <2>2. f \in Frames /\ pages[f].page_id = p
    BY <2>1 DEF TableInv, TypeOK, PageTableConsistent
  <2>3. /\ page_table' = Erase(page_table, p)
        /\ pages' = [pages EXCEPT ![f] = page]
        /\ free_list' = Append(free_list, f)
    BY <1>3, <2>1 DEF DeletePg
  <2>4. page \in Page /\ page.page_id = INVALID_PAGE_ID
    BY DEF Page
  <2> HIDE DEF page, f
  <2>5. pages' \in [Frames -> Page] /\ pages'[f] = page /\ \A g \in Frames \ {f} : pages'[g] = pages[g]
    BY <2>2, <2>3, <2>4 DEF TableInv, TypeOK
  <2>6. p # INVALID_PAGE_ID
    BY DEF PageIds, INVALID_PAGE_ID
  <2>7. /\ free_list' \in Seq(Frames) /\ Injective(free_list')
        /\ Range(free_list') = Range(free_list) \cup {f}
    <3>1. free_list \in Seq(Frames) /\ Injective(free_list) /\ f \notin Range(free_list)
      BY <2>2, <2>6 DEF TableInv, TypeOK, PageTableConsistent, Injective
    <3> QED BY <3>1, <2>2, <2>3, PushFacts
  <2>8. /\ DOMAIN page_table' = DOMAIN page_table \ {p}
        /\ \A q \in DOMAIN page_table' : page_table'[q] = page_table[q]
        /\ page_table' \in [DOMAIN page_table' -> Frames]
    BY <2>3 DEF Erase, TableInv, TypeOK
  <2>9. TypeOK'
    BY <1>0, <1>1, <2>5, <2>7, <2>8 DEF TableInv, TypeOK
  <2>10. \A q \in DOMAIN page_table' : pages'[page_table'[q]].page_id = q
    <3> SUFFICES ASSUME NEW q \in DOMAIN page_table' PROVE pages'[page_table'[q]].page_id = q
      OBVIOUS
    <3>1. q \in DOMAIN page_table /\ q # p /\ page_table'[q] = page_table[q] /\ page_table[q] \in Frames
      BY <2>8 DEF TableInv, TypeOK
    <3>2. pages[page_table[q]].page_id = q
      BY <3>1 DEF TableInv, PageTableConsistent
    <3> QED BY <3>1, <3>2, <2>2, <2>5
  <2>11. \A g \in Frames : pages'[g].page_id # INVALID_PAGE_ID =>
           pages'[g].page_id \in DOMAIN page_table' /\ page_table'[pages'[g].page_id] = g
    <3> SUFFICES ASSUME NEW g \in Frames, pages'[g].page_id # INVALID_PAGE_ID
                 PROVE  pages'[g].page_id \in DOMAIN page_table' /\ page_table'[pages'[g].page_id] = g
      OBVIOUS
    <3>1. g # f /\ pages'[g] = pages[g]
      BY <2>4, <2>5
    <3>2. pages[g].page_id \in DOMAIN page_table /\ page_table[pages[g].page_id] = g
      BY <3>1 DEF TableInv, PageTableConsistent
    <3> QED BY <3>1, <3>2, <2>8 DEF f
  <2>12. \A g \in Frames : g \in Range(free_list') <=> pages'[g].page_id = INVALID_PAGE_ID
    BY <2>4, <2>5, <2>7 DEF TableInv, PageTableConsistent
  <2>13. PageTableConsistent'
    BY <2>7, <2>10, <2>11, <2>12 DEF PageTableConsistent, Injective
  <2>14. PageTableBounded'
    BY <1>0, <2>8 DEF TableInv, PageTableBounded
  <2> QED BY <2>9, <2>13, <2>14 DEF TableInv
<1> QED BY <1>2, <1>3

\* Steps that change only the metadata of a frame that keeps its page.
LEMMA SamePagesTable ==
  ASSUME TableInv,
         UNCHANGED <<page_table, free_list, next_page_id>>,
         \A f \in Frames : pages'[f].page_id = pages[f].page_id
  PROVE  PageTableConsistent' /\ PageTableBounded'
PROOF
<1>1. PageTableBounded'
  BY DEF TableInv, PageTableBounded
<1>2. \A p \in DOMAIN page_table' : pages'[page_table'[p]].page_id = p
  BY DEF TableInv, TypeOK, PageTableConsistent
<1>3. \A f \in Frames : pages'[f].page_id # INVALID_PAGE_ID =>
        pages'[f].page_id \in DOMAIN page_table' /\ page_table'[pages'[f].page_id] = f
  BY DEF TableInv, PageTableConsistent
<1>4. /\ \A i, j \in 1 .. Len(free_list') : free_list'[i] = free_list'[j] => i = j
      /\ \A f \in Frames : f \in Range(free_list') <=> pages'[f].page_id = INVALID_PAGE_ID
  BY DEF TableInv, PageTableConsistent
<1> QED BY <1>1, <1>2, <1>3, <1>4 DEF PageTableConsistent

\* FindPage finds a frame exactly for the resident pages.
LEMMA FindPageFacts ==
  ASSUME TableInv, NEW p
  PROVE  /\ FindPage(p) # NoFrame <=> p \in DOMAIN page_table
         /\ FindPage(p) # NoFrame =>
              /\ FindPage(p) = page_table[p] /\ FindPage(p) \in Frames
              /\ pages[FindPage(p)].page_id = p /\ p \in PageIds
PROOF
<1>1. p \in DOMAIN page_table => page_table[p] \in Frames /\ p \in PageIds
  BY DEF TableInv, TypeOK
<1>2. NoFrame \notin Frames
  BY PoolAssumption DEF NoFrame, Frames
<1> QED BY <1>1, <1>2 DEF FindPage, TableInv, PageTableConsistent

\* FlushPgImp on one page.
LEMMA FlushEffectTable ==
  ASSUME TableInv, NEW p \in PageIds, FlushEffect(p)
  PROVE  /\ pages' \in [Frames -> Page]
         /\ disk' \in Seq(Data)
         /\ \A f \in Frames : pages'[f].page_id = pages[f].page_id
                              /\ pages'[f].pin_count = pages[f].pin_count
                              /\ pages'[f].data = pages[f].data
PROOF
<1>1. CASE FindPage(p) = NoFrame
  BY <1>1 DEF FlushEffect, TableInv, TypeOK
<1>2. CASE FindPage(p) # NoFrame
  <2> DEFINE f == FindPage(p)
  <2>1. f \in Frames /\ pages[f] \in Page
    BY <1>2, FindPageFacts DEF TableInv, TypeOK
  <2>2. disk' = FlushPg(pages[f], p) /\ pages' = [pages EXCEPT ![f].is_dirty = FALSE]
    BY <1>2 DEF FlushEffect
  <2>3. disk' \in Seq(Data)
    BY <2>1, <2>2, FlushType DEF TableInv
  <2> HIDE DEF f
  <2> QED BY <2>1, <2>2, <2>3 DEF TableInv, TypeOK, Page
<1> QED BY <1>1, <1>2

\* Every step of every thread keeps the page table consistent.
LEMMA TableStep == TableInv /\ [Next]_vars => TableInv'
PROOF
<1> SUFFICES ASSUME TableInv, [Next]_vars PROVE TableInv'
  OBVIOUS
<1> DEFINE RetT == [op : Calls, page : PageIds \cup {INVALID_PAGE_ID}, ok : BOOLEAN]
<1>T. TypeOK
  BY DEF TableInv
<1>1. ASSUME NEW c \in Clients, NewPg(c) PROVE TableInv'
  BY <1>1, NewPgTable
<1>2. ASSUME NEW c \in Clients, NewPgFails(c) PROVE TableInv'
  <2>1. ret' \in RetT
    BY <1>2 DEF NewPgFails, Return, Calls
  <2> QED BY <1>2, <2>1, SamePagesTable DEF NewPgFails, pool, TableInv, TypeOK
<1>3. ASSUME NEW c \in Clients, NEW p \in PageIds, FetchPgHit(c, p) PROVE TableInv'
  <2> DEFINE f == FindPage(p)
  <2>1. f \in Frames /\ pages[f] \in Page /\ pages[f].page_id = p
    BY <1>3, FindPageFacts, <1>T DEF FetchPgHit, TypeOK
  <2>2. /\ pages' = [pages EXCEPT ![f] =
                       [page_id |-> p, pin_count |-> pages[f].pin_count + 1,
                        is_dirty |-> TRUE, data |-> pages[f].data]]
        /\ wait_list' = Pin(wait_list, f)
        /\ handle' = [handle EXCEPT ![c] = [page |-> p, frame |-> f, dirty |-> FALSE]]
        /\ ret' = [op |-> "FetchPage", page |-> p, ok |-> TRUE]
        /\ UNCHANGED <<page_table, free_list, next_page_id, disk, content, flush>>
    BY <1>3 DEF FetchPgHit, Return
  <2> HIDE DEF f
  <2>3. pages' \in [Frames -> Page] /\ \A g \in Frames : pages'[g].page_id = pages[g].page_id
    BY <2>1, <2>2, <1>T DEF TypeOK, Page
  <2>4. wait_list' \in Seq(Frames)
    BY <2>2, <1>T, PinFacts DEF TypeOK
  <2>5. handle' \in [Clients -> Handle \cup {NoHandle}] /\ ret' \in RetT
    BY <2>1, <2>2, <1>T DEF TypeOK, Handle, Calls
  <2>6. TypeOK'
    BY <2>2, <2>3, <2>4, <2>5, <1>T DEF TypeOK
  <2> QED BY <2>2, <2>3, <2>6, SamePagesTable DEF TableInv
<1>4. ASSUME NEW c \in Clients, NEW p \in PageIds, FetchPgMiss(c, p) PROVE TableInv'
  BY <1>4, FetchPgMissTable
<1>5. ASSUME NEW c \in Clients, NEW p \in PageIds, FetchPgFails(c, p) PROVE TableInv'
  <2>1. ret' \in RetT
    BY <1>5 DEF FetchPgFails, Return, Calls
  <2> QED BY <1>5, <2>1, SamePagesTable DEF FetchPgFails, pool, TableInv, TypeOK
<1>6. ASSUME NEW c \in Clients, NEW d \in Data, Write(c, d) PROVE TableInv'
  <2> DEFINE f == handle[c].frame
             p == handle[c].page
  <2>1. f \in Frames /\ p \in PageIds /\ handle[c] \in Handle
    BY <1>6, <1>T DEF Write, TypeOK, Handle
  <2>2. /\ pages' = [pages EXCEPT ![f].data = d]
        /\ content' = [content EXCEPT ![p] = d]
        /\ handle' = [handle EXCEPT ![c].dirty = TRUE]
        /\ ret' = [op |-> "write", page |-> p, ok |-> TRUE]
        /\ UNCHANGED <<page_table, free_list, wait_list, next_page_id, disk, flush>>
    BY <1>6 DEF Write, Return
  <2>3. handle' \in [Clients -> Handle \cup {NoHandle}]
    <3>1. [handle[c] EXCEPT !.dirty = TRUE] \in Handle
      BY <2>1 DEF Handle
    <3> QED BY <3>1, <2>2, <1>T DEF TypeOK
  <2> HIDE DEF f, p
  <2>4. pages' \in [Frames -> Page] /\ \A g \in Frames : pages'[g].page_id = pages[g].page_id
    BY <2>1, <2>2, <1>T, ZenonT(60) DEF TypeOK, Page
  <2>5. content' \in [PageIds -> Data] /\ ret' \in RetT
    BY <2>1, <2>2, <1>T DEF TypeOK, Calls
  <2>6. TypeOK'
    BY <2>2, <2>3, <2>4, <2>5, <1>T DEF TypeOK
  <2> QED BY <2>2, <2>4, <2>6, SamePagesTable DEF TableInv
<1>7. ASSUME NEW c \in Clients, NEW b \in BOOLEAN, UnpinPg(c, b) PROVE TableInv'
  <2> DEFINE p == handle[c].page
             f == FindPage(p)
             page == [page_id |-> p, pin_count |-> pages[f].pin_count - 1,
                      is_dirty |-> b, data |-> pages[f].data]
  <2>1. f \in Frames /\ pages[f] \in Page /\ pages[f].page_id = p /\ p \in PageIds
    BY <1>7, FindPageFacts, <1>T DEF UnpinPg, TypeOK
  <2>2. /\ pages[f].pin_count # 0
        /\ pages' = [pages EXCEPT ![f] = page]
        /\ wait_list' = IF page.pin_count = 0 THEN Unpin(wait_list, f) ELSE wait_list
        /\ disk' = IF page.pin_count = 0 THEN FlushPg(page, p) ELSE disk
        /\ handle' = [handle EXCEPT ![c] = NoHandle]
        /\ ret' = [op |-> "UnpinPage", page |-> p, ok |-> TRUE]
        /\ UNCHANGED <<page_table, free_list, next_page_id, content, flush>>
    BY <1>7 DEF UnpinPg, Return
  <2> HIDE DEF f
  <2>3. page \in Page /\ page.page_id = p
    BY <2>1, <2>2 DEF Page
  <2> HIDE DEF page, p
  <2>4. pages' \in [Frames -> Page] /\ \A g \in Frames : pages'[g].page_id = pages[g].page_id
    BY <2>1, <2>2, <2>3, <1>T DEF TypeOK
  <2>5. wait_list' \in Seq(Frames)
    BY <2>1, <2>2, <1>T, UnpinFacts DEF TypeOK
  <2>6. disk' \in Seq(Data)
    BY <2>1, <2>2, <2>3, <1>T, FlushType DEF TypeOK
  <2>7. handle' \in [Clients -> Handle \cup {NoHandle}] /\ ret' \in RetT
    BY <2>1, <2>2, <1>T DEF TypeOK, Calls
  <2>8. TypeOK'
    BY <2>2, <2>4, <2>5, <2>6, <2>7, <1>T DEF TypeOK
  <2> QED BY <2>2, <2>4, <2>8, SamePagesTable DEF TableInv
<1>8. ASSUME NEW c \in Clients, NEW b \in BOOLEAN, UnpinPgFails(c, b) PROVE TableInv'
  <2>1. /\ handle' = [handle EXCEPT ![c] = NoHandle]
        /\ ret' = [op |-> "UnpinPage", page |-> handle[c].page, ok |-> FALSE]
        /\ UNCHANGED <<pool, content, flush>>
    BY <1>8 DEF UnpinPgFails, Return
  <2>2. handle[c].page \in PageIds \cup {INVALID_PAGE_ID}
    BY <1>T DEF TypeOK, Handle, NoHandle
  <2>3. handle' \in [Clients -> Handle \cup {NoHandle}] /\ ret' \in RetT
    BY <2>1, <2>2, <1>T DEF TypeOK, Calls
  <2> QED BY <2>1, <2>3, SamePagesTable DEF pool, TableInv, TypeOK
<1>9. ASSUME NEW p \in PageIds, FlushPage(p) PROVE TableInv'
  <2>1. ret' \in RetT
    BY <1>9 DEF FlushPage, Return, Calls
  <2>2. /\ pages' \in [Frames -> Page] /\ disk' \in Seq(Data)
        /\ \A f \in Frames : pages'[f].page_id = pages[f].page_id
    BY <1>9, FlushEffectTable DEF FlushPage
  <2>3. UNCHANGED <<page_table, free_list, wait_list, next_page_id, handle, content, flush>>
    BY <1>9 DEF FlushPage
  <2>4. TypeOK'
    BY <2>1, <2>2, <2>3, <1>T DEF TypeOK
  <2> QED BY <2>2, <2>3, <2>4, SamePagesTable DEF TableInv
<1>10. ASSUME NEW p \in PageIds, FlushAllStep(p) PROVE TableInv'
  <2>1. flush' = [flush EXCEPT !.visited = @ \cup {p}]
    BY <1>10 DEF FlushAllStep
  <2>2. /\ pages' \in [Frames -> Page] /\ disk' \in Seq(Data)
        /\ \A f \in Frames : pages'[f].page_id = pages[f].page_id
    BY <1>10, FlushEffectTable DEF FlushAllStep
  <2>3. UNCHANGED <<page_table, free_list, wait_list, next_page_id, handle, content, ret>>
    BY <1>10 DEF FlushAllStep
  <2>4. TypeOK'
    BY <2>1, <2>2, <2>3, <1>T DEF TypeOK
  <2> QED BY <2>2, <2>3, <2>4, SamePagesTable DEF TableInv
<1>11. ASSUME NEW p \in PageIds, DeletePg(p) PROVE TableInv'
  BY <1>11, DeletePgTable
<1>12. ASSUME NEW p \in PageIds, DeletePgFails(p) PROVE TableInv'
  <2>1. ret' \in RetT
    BY <1>12 DEF DeletePgFails, Return, Calls
  <2> QED BY <1>12, <2>1, SamePagesTable DEF DeletePgFails, pool, TableInv, TypeOK
<1>13. CASE FlushAllBegin \/ FlushAllEnd
  <2>1. flush' \in [on : BOOLEAN, visited : SUBSET PageIds, raced : BOOLEAN]
    <3>1. \E b \in BOOLEAN : flush' = [on |-> b, visited |-> {}, raced |-> FALSE]
      BY <1>13 DEF FlushAllBegin, FlushAllEnd, Idle
    <3> QED BY <3>1
  <2> QED BY <1>13, <2>1, SamePagesTable DEF FlushAllBegin, FlushAllEnd, pool, TableInv, TypeOK
<1>14. CASE UNCHANGED vars
  BY <1>14, SamePagesTable DEF vars, pool, TableInv, TypeOK
<1>15. \A p \in Allocated : p \in PageIds
  BY DEF Allocated
<1> QED BY <1>1, <1>2, <1>3, <1>4, <1>5, <1>6, <1>7, <1>8, <1>9, <1>10, <1>11, <1>12,
           <1>13, <1>14, <1>15 DEF Next

\* Whatever the clients do, DeletePage and FlushAllPages included, the
\* variables keep their types.
THEOREM TypeCorrect == Spec => []TypeOK
PROOF
<1>1. TableInv => TypeOK
  BY DEF TableInv
<1> QED BY TableInit, TableStep, <1>1, PTL DEF Spec

\* Whatever the clients do, page_table_, the page_id_ fields and free_list_
\* agree: NewPgImp, FetchPgImp, DeletePgImp and the eviction in FindFreshPage
\* never map a page to a frame that holds another page, and never free a
\* frame that is in use or free it twice.
THEOREM PageTableAlwaysConsistent == Spec => []PageTableConsistent
PROOF
<1>1. TableInv => PageTableConsistent
  BY DEF TableInv
<1> QED BY TableInit, TableStep, <1>1, PTL DEF Spec

-----------------------------------------------------------------------------
(* Pins, for clients that never call DeletePage.                           *)

PinInv == TableInv /\ FramePartition /\ PinsAccounted

\* A client that held nothing takes a pin on frame f.
LEMMA HoldersAdd ==
  ASSUME handle \in [Clients -> Handle \cup {NoHandle}],
         NEW c \in Clients, handle[c] = NoHandle, NEW f \in Frames,
         handle' \in [Clients -> Handle \cup {NoHandle}], handle'[c].frame = f,
         \A e \in Clients \ {c} : handle'[e] = handle[e]
  PROVE  /\ Cardinality(Holders(f)') = Cardinality(Holders(f)) + 1
         /\ \A g \in Frames \ {f} : Holders(g)' = Holders(g)
PROOF
<1>1. \A g \in Frames : c \notin Holders(g)
  BY PoolAssumption DEF Holders, NoHandle, NoFrame, Frames
<1>2. Holders(f)' = Holders(f) \cup {c}
  BY DEF Holders
<1>3. \A g \in Frames \ {f} : Holders(g)' = Holders(g)
  <2> SUFFICES ASSUME NEW g \in Frames \ {f} PROVE Holders(g)' = Holders(g)
    OBVIOUS
  <2>1. c \notin Holders(g) /\ c \notin Holders(g)'
    BY <1>1 DEF Holders
  <2>2. \A e \in Clients : e \in Holders(g)' <=> e \in Holders(g)
    BY <2>1 DEF Holders
  <2> QED BY <2>2 DEF Holders
<1>4. IsFiniteSet(Holders(f))
  <2>1. Holders(f) \subseteq Clients
    BY DEF Holders
  <2> QED BY <2>1, FS_Subset, PoolAssumption
<1>5. Cardinality(Holders(f) \cup {c}) = Cardinality(Holders(f)) + 1
  BY <1>1, <1>4, FS_AddElement
<1> QED BY <1>2, <1>3, <1>5

\* A client gives back its pin on frame f.
LEMMA HoldersDrop ==
  ASSUME handle \in [Clients -> Handle \cup {NoHandle}],
         NEW c \in Clients, NEW f \in Frames, handle[c].frame = f,
         handle' = [handle EXCEPT ![c] = NoHandle]
  PROVE  /\ Cardinality(Holders(f)') = Cardinality(Holders(f)) - 1
         /\ \A g \in Frames \ {f} : Holders(g)' = Holders(g)
PROOF
<1>1. \A g \in Frames : c \notin Holders(g)'
  BY PoolAssumption DEF Holders, NoHandle, NoFrame, Frames
<1>2. Holders(f)' = Holders(f) \ {c}
  <2>1. \A e \in Clients : e # c => (e \in Holders(f)' <=> e \in Holders(f))
    BY DEF Holders
  <2> QED BY <1>1, <2>1 DEF Holders
<1>3. \A g \in Frames \ {f} : Holders(g)' = Holders(g)
  <2> SUFFICES ASSUME NEW g \in Frames \ {f} PROVE Holders(g)' = Holders(g)
    OBVIOUS
  <2>1. c \notin Holders(g) /\ c \notin Holders(g)'
    BY <1>1 DEF Holders
  <2>2. \A e \in Clients : e \in Holders(g)' <=> e \in Holders(g)
    BY <2>1 DEF Holders
  <2> QED BY <2>2 DEF Holders
<1>4. IsFiniteSet(Holders(f)) /\ c \in Holders(f)
  <2>1. Holders(f) \subseteq Clients /\ c \in Holders(f)
    BY DEF Holders
  <2> QED BY <2>1, FS_Subset, PoolAssumption
<1>5. Cardinality(Holders(f) \ {c}) = Cardinality(Holders(f)) - 1
  BY <1>4, FS_RemoveElement
<1> QED BY <1>2, <1>3, <1>5

\* A frame whose pin count is zero is held by nobody.
LEMMA Unheld ==
  ASSUME TypeOK, PinsAccounted, NEW f \in Frames
  PROVE  pages[f].pin_count = 0 <=> Holders(f) = {}
PROOF
<1>1. IsFiniteSet(Holders(f))
  <2>1. Holders(f) \subseteq Clients
    BY DEF Holders
  <2> QED BY <2>1, FS_Subset, PoolAssumption
<1>2. Cardinality(Holders(f)) = 0 <=> Holders(f) = {}
  BY <1>1, FS_EmptySet
<1> QED BY <1>2 DEF PinsAccounted

\* A step that changes the status of one frame only.
LEMMA OneFrame ==
  ASSUME FramePartition, NEW f \in Frames,
         free_list' \in Seq(Frames),
         \A g \in Frames \ {f} : /\ pages'[g].pin_count = pages[g].pin_count
                                 /\ g \in Range(wait_list') <=> g \in Range(wait_list)
                                 /\ g \in Range(free_list') <=> g \in Range(free_list),
         Injective(wait_list'),
         f \notin Range(free_list'),
         f \in Range(wait_list') <=> pages'[f].pin_count = 0
  PROVE  FramePartition'
PROOF
<1>1. \A g \in Frames :
        g \in Range(wait_list') <=> pages'[g].pin_count = 0 /\ g \notin Range(free_list')
  BY DEF FramePartition
<1>2. \A g \in Range(free_list') : pages'[g].pin_count = 0
  <2> SUFFICES ASSUME NEW g \in Range(free_list') PROVE pages'[g].pin_count = 0
    OBVIOUS
  <2>1. g \in Frames
    BY InRange
  <2> QED BY <2>1 DEF FramePartition
<1> QED BY <1>1, <1>2 DEF FramePartition, Injective

\* FindFreshPage returns a frame nobody holds and takes it out of the replacer.
LEMMA PinFresh ==
  ASSUME PinInv, ~ NoFreshPage
  PROVE  LET r == FindFreshPage
             f == r.frame_id
         IN /\ pages[f].pin_count = 0
            /\ Injective(r.wait_list)
            /\ Range(r.wait_list) = Range(wait_list) \ {f}
PROOF
<1>0. Injective(wait_list)
  BY DEF PinInv, FramePartition, Injective
<1>1. CASE free_list # <<>>
  <2> DEFINE f == Head(free_list)
  <2>1. f \in Range(free_list) /\ f \in Frames
    BY <1>1, PopFacts DEF PinInv, TableInv, TypeOK, PageTableConsistent, Injective
  <2>2. pages[f].pin_count = 0 /\ f \notin Range(wait_list)
    BY <2>1 DEF PinInv, FramePartition
  <2>3. FindFreshPage = TakeFree
    BY <1>1 DEF FindFreshPage
  <2> QED BY <1>0, <2>2, <2>3 DEF TakeFree
<1>2. CASE free_list = <<>>
  <2> DEFINE f == Victim(wait_list)
  <2>1. wait_list # <<>>
    BY <1>2 DEF NoFreshPage
  <2>2. /\ f \in Frames /\ f \in Range(wait_list)
        /\ Injective(AfterVictim(wait_list))
        /\ Range(AfterVictim(wait_list)) = Range(wait_list) \ {f}
    BY <1>0, <2>1, VictimFacts DEF PinInv, TableInv, TypeOK
  <2>3. pages[f].pin_count = 0
    BY <2>2 DEF PinInv, FramePartition
  <2>4. FindFreshPage = Evict
    BY <1>2 DEF FindFreshPage
  <2> QED BY <2>2, <2>3, <2>4 DEF Evict
<1> QED BY <1>1, <1>2

\* NewPgImp and FetchPgImp after FindFreshPage: the frame gets its first pin.
LEMMA InstallPinned ==
  ASSUME PinInv, ~ NoFreshPage,
         NEW c \in Clients, handle[c] = NoHandle,
         NEW p \in PageIds,
         handle' \in [Clients -> Handle \cup {NoHandle}],
         handle'[c].frame = FindFreshPage.frame_id, handle'[c].page = p,
         \A e \in Clients \ {c} : handle'[e] = handle[e],
         pages'[FindFreshPage.frame_id].page_id = p,
         pages'[FindFreshPage.frame_id].pin_count = pages[FindFreshPage.frame_id].pin_count + 1,
         \A g \in Frames \ {FindFreshPage.frame_id} : pages'[g] = pages[g],
         free_list' = FindFreshPage.free_list,
         Injective(wait_list'),
         Range(wait_list') = Range(FindFreshPage.wait_list)
  PROVE  FramePartition' /\ PinsAccounted'
PROOF
<1> DEFINE r == FindFreshPage
<1>0. PICK f \in Frames : f = r.frame_id
  BY FreshFacts DEF PinInv
<1>1. /\ r.free_list \in Seq(Frames)
      /\ Range(r.free_list) = Range(free_list) \ {f}
  BY <1>0, FreshFacts DEF PinInv
<1>2. /\ pages[f].pin_count = 0
      /\ Range(r.wait_list) = Range(wait_list) \ {f}
  BY <1>0, PinFresh
<1>2a. /\ handle'[c].frame = f /\ handle'[c].page = p
       /\ pages'[f].page_id = p
       /\ pages'[f].pin_count = pages[f].pin_count + 1
       /\ \A g \in Frames \ {f} : pages'[g] = pages[g]
       /\ free_list' = r.free_list
       /\ Range(wait_list') = Range(r.wait_list)
  BY <1>0
<1> HIDE DEF r
<1>3. Holders(f) = {}
  BY <1>1, <1>2, Unheld DEF PinInv, TableInv
<1>4. /\ Cardinality(Holders(f)') = Cardinality(Holders(f)) + 1
      /\ \A g \in Frames \ {f} : Holders(g)' = Holders(g)
  BY <1>2a, HoldersAdd DEF PinInv, TableInv, TypeOK
<1>5. FramePartition'
  <2>1. \A g \in Frames \ {f} : /\ pages'[g].pin_count = pages[g].pin_count
                                /\ g \in Range(wait_list') <=> g \in Range(wait_list)
                                /\ g \in Range(free_list') <=> g \in Range(free_list)
    BY <1>1, <1>2, <1>2a
  <2>2. free_list' \in Seq(Frames) /\ f \notin Range(free_list')
        /\ f \notin Range(wait_list') /\ pages'[f].pin_count # 0
    BY <1>1, <1>2, <1>2a
  <2> QED BY <1>1, <2>1, <2>2, OneFrame DEF PinInv
<1>6. \A g \in Frames : pages'[g].pin_count = Cardinality(Holders(g)')
  BY <1>2a, <1>4 DEF PinInv, PinsAccounted
<1>7. \A e \in Clients : handle'[e] # NoHandle => pages'[handle'[e].frame].page_id = handle'[e].page
  <2> SUFFICES ASSUME NEW e \in Clients, handle'[e] # NoHandle
               PROVE  pages'[handle'[e].frame].page_id = handle'[e].page
    OBVIOUS
  <2>1. CASE e = c
    BY <2>1, <1>2a
  <2>2. CASE e # c
    <3>1. handle'[e] = handle[e] /\ handle[e] \in Handle
      BY <2>2 DEF PinInv, TableInv, TypeOK
    <3>2. handle[e].frame \in Frames /\ handle[e].frame # f
      BY <3>1, <1>3 DEF Handle, Holders
    <3> QED BY <3>1, <3>2, <1>2a DEF PinInv, PinsAccounted
  <2> QED BY <2>1, <2>2
<1> QED BY <1>5, <1>6, <1>7 DEF PinsAccounted, Holders

\* Steps that touch neither the lists nor the pins.
LEMMA SamePins ==
  ASSUME PinInv, UNCHANGED <<free_list, wait_list>>,
         \A f \in Frames : pages'[f].page_id = pages[f].page_id
                           /\ pages'[f].pin_count = pages[f].pin_count,
         \A c \in Clients : /\ handle'[c].frame = handle[c].frame
                            /\ handle'[c].page = handle[c].page
                            /\ handle'[c] # NoHandle => handle[c] # NoHandle
  PROVE  FramePartition' /\ PinsAccounted'
PROOF
<1>1. FramePartition'
  <2>1. \A g \in Range(free_list') : g \in Frames
    BY InRange DEF PinInv, TableInv, TypeOK
  <2> QED BY <2>1 DEF PinInv, FramePartition
<1>2. \A f \in Frames : Holders(f)' = Holders(f)
  BY DEF Holders
<1>3. \A f \in Frames : pages'[f].pin_count = Cardinality(Holders(f)')
  BY <1>2 DEF PinInv, PinsAccounted
<1>4. ASSUME NEW c \in Clients, handle'[c] # NoHandle
      PROVE  pages'[handle'[c].frame].page_id = handle'[c].page
  <2>1. handle[c] \in Handle
    BY <1>4 DEF PinInv, TableInv, TypeOK
  <2>2. handle[c].frame \in Frames
    BY <2>1 DEF Handle
  <2> QED BY <1>4, <2>2 DEF PinInv, PinsAccounted
<1> QED BY <1>1, <1>3, <1>4 DEF PinsAccounted, Holders

\* A client finds the page it pinned in the frame it got.
LEMMA HeldResident ==
  ASSUME PinInv, NEW c \in Clients, handle[c] # NoHandle
  PROVE  /\ handle[c].frame \in Frames /\ FindPage(handle[c].page) = handle[c].frame
         /\ pages[handle[c].frame].pin_count # 0
         /\ handle[c].page \in DOMAIN page_table
PROOF
<1>1. handle[c] \in Handle
  BY DEF PinInv, TableInv, TypeOK
<1>2. handle[c].frame \in Frames /\ handle[c].page \in PageIds
  BY <1>1 DEF Handle
<1>3. pages[handle[c].frame].page_id = handle[c].page
  BY DEF PinInv, PinsAccounted
<1>4. handle[c].page \in DOMAIN page_table /\ page_table[handle[c].page] = handle[c].frame
  BY <1>2, <1>3, PoolAssumption DEF PinInv, TableInv, PageTableConsistent, PageIds, INVALID_PAGE_ID
<1>5. c \in Holders(handle[c].frame)
  BY DEF Holders
<1>6. pages[handle[c].frame].pin_count # 0
  BY <1>2, <1>5, Unheld DEF PinInv, TableInv
<1> QED BY <1>2, <1>4, <1>6 DEF FindPage

\* FetchPgImp on a resident page adds a pin and takes the frame out of the
\* replacer.
LEMMA FetchPgHitPins ==
  ASSUME PinInv, TypeOK', NEW c \in Clients, NEW p \in PageIds, FetchPgHit(c, p)
  PROVE  FramePartition' /\ PinsAccounted'
PROOF
<1>0. PICK f \in Frames : f = FindPage(p) /\ pages[f].page_id = p /\ pages[f] \in Page
  BY FindPageFacts DEF FetchPgHit, PinInv, TableInv, TypeOK
<1>1. /\ pages' = [pages EXCEPT ![f] =
                     [page_id |-> p, pin_count |-> pages[f].pin_count + 1,
                      is_dirty |-> TRUE, data |-> pages[f].data]]
      /\ wait_list' = Pin(wait_list, f)
      /\ handle[c] = NoHandle
      /\ handle' = [handle EXCEPT ![c] = [page |-> p, frame |-> f, dirty |-> FALSE]]
      /\ UNCHANGED <<page_table, free_list>>
  BY <1>0 DEF FetchPgHit, MayFetch
<1>2. /\ \A g \in Frames \ {f} : pages'[g] = pages[g]
      /\ pages'[f].pin_count = pages[f].pin_count + 1 /\ pages'[f].page_id = p
      /\ pages[f].pin_count \in Nat
  BY <1>0, <1>1 DEF PinInv, TableInv, TypeOK, Page
<1>3. Injective(wait_list') /\ Range(wait_list') = Range(wait_list) \ {f}
  <2>1. Injective(wait_list) /\ wait_list \in Seq(Frames)
    BY DEF PinInv, FramePartition, Injective, TableInv, TypeOK
  <2> QED BY <1>1, <2>1, PinFacts
<1>4. f \notin Range(free_list)
  BY <1>0, PoolAssumption DEF PinInv, TableInv, PageTableConsistent, PageIds, INVALID_PAGE_ID
<1>5. /\ handle'[c].frame = f /\ handle'[c].page = p
      /\ \A e \in Clients \ {c} : handle'[e] = handle[e]
  BY <1>1 DEF PinInv, TableInv, TypeOK
<1>6. /\ Cardinality(Holders(f)') = Cardinality(Holders(f)) + 1
      /\ \A g \in Frames \ {f} : Holders(g)' = Holders(g)
  BY <1>1, <1>5, HoldersAdd DEF PinInv, TableInv, TypeOK
<1>7. FramePartition'
  <2>1. \A g \in Frames \ {f} : /\ pages'[g].pin_count = pages[g].pin_count
                                /\ g \in Range(wait_list') <=> g \in Range(wait_list)
                                /\ g \in Range(free_list') <=> g \in Range(free_list)
    BY <1>1, <1>2, <1>3
  <2>2. free_list' \in Seq(Frames) /\ f \notin Range(free_list')
        /\ f \notin Range(wait_list') /\ pages'[f].pin_count # 0
    BY <1>1, <1>2, <1>3, <1>4 DEF PinInv, TableInv, TypeOK
  <2> QED BY <1>3, <2>1, <2>2, OneFrame DEF PinInv
<1>8. \A g \in Frames : pages'[g].pin_count = Cardinality(Holders(g)')
  BY <1>2, <1>6 DEF PinInv, PinsAccounted
<1>9. ASSUME NEW e \in Clients, handle'[e] # NoHandle
      PROVE  pages'[handle'[e].frame].page_id = handle'[e].page
  <2>1. CASE e = c
    BY <2>1, <1>2, <1>5
  <2>2. CASE e # c
    <3>1. handle'[e] = handle[e] /\ handle[e].frame \in Frames
      BY <2>2, <1>5, <1>9 DEF PinInv, TableInv, TypeOK, Handle
    <3>2. pages[handle[e].frame].page_id = handle[e].page
      BY <3>1, <1>9 DEF PinInv, PinsAccounted
    <3> QED BY <3>1, <3>2, <1>0, <1>2
  <2> QED BY <2>1, <2>2
<1> QED BY <1>7, <1>8, <1>9 DEF PinsAccounted, Holders

\* UnpinPgImp drops a pin and hands the frame to the replacer with the last.
LEMMA UnpinPgPins ==
  ASSUME PinInv, NEW c \in Clients, NEW b \in BOOLEAN, UnpinPg(c, b)
  PROVE  FramePartition' /\ PinsAccounted'
PROOF
<1>0. PICK f \in Frames : f = handle[c].frame
  BY HeldResident DEF UnpinPg, MayUnpin
<1>1. FindPage(handle[c].page) = f /\ pages[f].pin_count # 0 /\ pages[f].pin_count \in Nat
      /\ pages[f].page_id = handle[c].page /\ handle[c].page \in PageIds
  BY <1>0, HeldResident DEF UnpinPg, MayUnpin, PinInv, TableInv, TypeOK, Page, PinsAccounted
<1>2. /\ pages' = [pages EXCEPT ![f] =
                     [page_id |-> handle[c].page, pin_count |-> pages[f].pin_count - 1,
                      is_dirty |-> b, data |-> pages[f].data]]
      /\ wait_list' = IF pages[f].pin_count - 1 = 0 THEN Unpin(wait_list, f) ELSE wait_list
      /\ handle' = [handle EXCEPT ![c] = NoHandle]
      /\ UNCHANGED <<page_table, free_list>>
  BY <1>1 DEF UnpinPg
<1>3. /\ \A g \in Frames \ {f} : pages'[g] = pages[g]
      /\ pages'[f].pin_count = pages[f].pin_count - 1
      /\ pages'[f].page_id = pages[f].page_id
  BY <1>1, <1>2 DEF PinInv, TableInv, TypeOK
<1>4. /\ Injective(wait_list')
      /\ \A g \in Frames \ {f} : g \in Range(wait_list') <=> g \in Range(wait_list)
      /\ f \in Range(wait_list') <=> pages'[f].pin_count = 0
  <2>1. Injective(wait_list) /\ wait_list \in Seq(Frames)
    BY DEF PinInv, FramePartition, Injective, TableInv, TypeOK
  <2>2. f \notin Range(wait_list)
    BY <1>1 DEF PinInv, FramePartition
  <2>3. CASE pages[f].pin_count - 1 = 0
    BY <2>1, <2>2, <2>3, <1>2, <1>3, UnpinFacts
  <2>4. CASE pages[f].pin_count - 1 # 0
    BY <2>1, <2>2, <2>4, <1>2, <1>3
  <2> QED BY <2>3, <2>4
<1>5. f \notin Range(free_list)
  BY <1>1, PoolAssumption DEF PinInv, TableInv, PageTableConsistent, PageIds, INVALID_PAGE_ID
<1>6. /\ Cardinality(Holders(f)') = Cardinality(Holders(f)) - 1
      /\ \A g \in Frames \ {f} : Holders(g)' = Holders(g)
  BY <1>0, <1>2, HoldersDrop DEF PinInv, TableInv, TypeOK
<1>7. FramePartition'
  <2>1. \A g \in Frames \ {f} : /\ pages'[g].pin_count = pages[g].pin_count
                                /\ g \in Range(wait_list') <=> g \in Range(wait_list)
                                /\ g \in Range(free_list') <=> g \in Range(free_list)
    BY <1>2, <1>3, <1>4
  <2>2. free_list' \in Seq(Frames) /\ f \notin Range(free_list')
    BY <1>2, <1>5 DEF PinInv, TableInv, TypeOK
  <2> QED BY <1>4, <2>1, <2>2, OneFrame DEF PinInv
<1>8. \A g \in Frames : pages'[g].pin_count = Cardinality(Holders(g)')
  BY <1>3, <1>6 DEF PinInv, PinsAccounted
<1>9. ASSUME NEW e \in Clients, handle'[e] # NoHandle
      PROVE  pages'[handle'[e].frame].page_id = handle'[e].page
  <2>1. handle'[e] = handle[e] /\ handle[e].frame \in Frames
    BY <1>2, <1>9 DEF PinInv, TableInv, TypeOK, Handle
  <2>2. pages[handle[e].frame].page_id = handle[e].page
    BY <2>1, <1>9 DEF PinInv, PinsAccounted
  <2> QED BY <2>1, <2>2, <1>3
<1> QED BY <1>7, <1>8, <1>9 DEF PinsAccounted, Holders

\* In a new pool no frame is pinned and every frame is free: PinInv holds.
LEMMA PinInit == Init => PinInv
PROOF
<1> SUFFICES ASSUME Init PROVE PinInv
  OBVIOUS
<1>1. TableInv
  BY TableInit
<1>2. \A f \in Frames : pages[f].pin_count = 0 /\ pages[f].page_id = INVALID_PAGE_ID
  BY DEF Init
<1>3. \A f \in Frames : f \in Range(free_list)
  BY <1>1, <1>2 DEF TableInv, PageTableConsistent
<1>4. FramePartition
  <2>1. wait_list = <<>> /\ Range(wait_list) = {}
    BY DEF Init, Range
  <2>2. \A f \in Range(free_list) : f \in Frames
    BY <1>1, InRange DEF TableInv, TypeOK
  <2> QED BY <1>2, <1>3, <2>1, <2>2 DEF FramePartition
<1>5. \A f \in Frames : Holders(f) = {}
  BY PoolAssumption DEF Init, Holders, NoHandle, NoFrame, Frames
<1>6. PinsAccounted
  BY <1>2, <1>5, FS_EmptySet DEF PinsAccounted, Init
<1> QED BY <1>1, <1>4, <1>6 DEF PinInv

\* Without DeletePage every step keeps frames and pins accounted for.
LEMMA PinStep ==
  ASSUME "DeletePage" \notin Ops, PinInv, [Next]_vars
  PROVE  PinInv'
PROOF
<1>0. TableInv'
  BY TableStep DEF PinInv
<1>T. TypeOK' /\ TypeOK
  BY <1>0 DEF TableInv, PinInv
<1>1. ASSUME NEW c \in Clients, NewPg(c) PROVE FramePartition' /\ PinsAccounted'
  <2>1. ~ NoFreshPage /\ next_page_id \in PageIds /\ handle[c] = NoHandle
    BY <1>1, <1>T, PoolAssumption DEF NewPg, TypeOK, PageIds
  <2>2. FindFreshPage.frame_id \in Frames
    BY <2>1, FreshFacts DEF PinInv
  <2>3. PICK p \in PageIds : p = next_page_id
    BY <2>1
  <2>4. /\ handle'[c].frame = FindFreshPage.frame_id /\ handle'[c].page = p
        /\ \A e \in Clients \ {c} : handle'[e] = handle[e]
    BY <1>1, <1>T, <2>3 DEF NewPg, TypeOK
  <2>5. /\ pages'[FindFreshPage.frame_id].page_id = p
        /\ pages'[FindFreshPage.frame_id].pin_count = FindFreshPage.page.pin_count + 1
        /\ \A g \in Frames \ {FindFreshPage.frame_id} : pages'[g] = pages[g]
    BY <1>1, <1>T, <2>2, <2>3 DEF NewPg, TypeOK
  <2>6. FindFreshPage.page.pin_count = pages[FindFreshPage.frame_id].pin_count
    BY <2>1, FreshFacts DEF PinInv
  <2>7. free_list' = FindFreshPage.free_list /\ wait_list' = FindFreshPage.wait_list
    BY <1>1 DEF NewPg
  <2>8. Injective(wait_list')
    BY <2>1, <2>7, PinFresh
  <2> QED BY <1>T, <2>1, <2>3, <2>4, <2>5, <2>6, <2>7, <2>8, InstallPinned DEF TypeOK
<1>2. ASSUME NEW c \in Clients, NEW p \in PageIds, FetchPgMiss(c, p)
      PROVE  FramePartition' /\ PinsAccounted'
  <2>1. ~ NoFreshPage /\ handle[c] = NoHandle
    BY <1>2 DEF FetchPgMiss, MayFetch
  <2>2. FindFreshPage.frame_id \in Frames /\ FindFreshPage.wait_list \in Seq(Frames)
    BY <2>1, FreshFacts DEF PinInv
  <2>4. /\ handle'[c].frame = FindFreshPage.frame_id /\ handle'[c].page = p
        /\ \A e \in Clients \ {c} : handle'[e] = handle[e]
    BY <1>2, <1>T DEF FetchPgMiss, TypeOK
  <2>5. /\ pages'[FindFreshPage.frame_id].page_id = p
        /\ pages'[FindFreshPage.frame_id].pin_count = FindFreshPage.page.pin_count + 1
        /\ \A g \in Frames \ {FindFreshPage.frame_id} : pages'[g] = pages[g]
    BY <1>2, <1>T, <2>2 DEF FetchPgMiss, TypeOK
  <2>6. FindFreshPage.page.pin_count = pages[FindFreshPage.frame_id].pin_count
    BY <2>1, FreshFacts DEF PinInv
  <2>7. free_list' = FindFreshPage.free_list
        /\ wait_list' = Pin(FindFreshPage.wait_list, FindFreshPage.frame_id)
    BY <1>2 DEF FetchPgMiss
  <2>8. /\ Injective(FindFreshPage.wait_list)
        /\ FindFreshPage.frame_id \notin Range(FindFreshPage.wait_list)
    BY <2>1, PinFresh
  <2>9. wait_list' = FindFreshPage.wait_list
    BY <2>7, <2>8 DEF Pin, IsInReplacer
  <2> QED BY <1>T, <2>1, <2>4, <2>5, <2>6, <2>7, <2>8, <2>9, InstallPinned DEF TypeOK
<1>3. ASSUME NEW c \in Clients, NEW p \in PageIds, FetchPgHit(c, p)
      PROVE  FramePartition' /\ PinsAccounted'
  BY <1>3, <1>T, FetchPgHitPins
<1>4. ASSUME NEW c \in Clients, NEW b \in BOOLEAN, UnpinPg(c, b)
      PROVE  FramePartition' /\ PinsAccounted'
  BY <1>4, UnpinPgPins
<1>5. ASSUME NEW c \in Clients, NEW b \in BOOLEAN, UnpinPgFails(c, b) PROVE FALSE
  <2>1. FindPage(handle[c].page) \in Frames /\ pages[FindPage(handle[c].page)].pin_count # 0
    BY <1>5, HeldResident DEF UnpinPgFails, MayUnpin
  <2> QED BY <1>5, <2>1, PoolAssumption DEF UnpinPgFails, NoFrame, Frames
<1>6. ASSUME NEW c \in Clients, NEW d \in Data, Write(c, d)
      PROVE  FramePartition' /\ PinsAccounted'
  <2>1. handle[c].frame \in Frames /\ handle[c] \in Handle /\ handle[c] # NoHandle
    BY <1>6, <1>T DEF Write, TypeOK, Handle
  <2>2. /\ pages' = [pages EXCEPT ![handle[c].frame].data = d]
        /\ handle' = [handle EXCEPT ![c].dirty = TRUE]
        /\ UNCHANGED <<free_list, wait_list>>
    BY <1>6 DEF Write
  <2>3. \A f \in Frames : pages'[f].page_id = pages[f].page_id
                          /\ pages'[f].pin_count = pages[f].pin_count
    BY <1>T, <2>1, <2>2 DEF TypeOK, Page
  <2>4. \A e \in Clients : /\ handle'[e].frame = handle[e].frame
                           /\ handle'[e].page = handle[e].page
                           /\ handle'[e] # NoHandle => handle[e] # NoHandle
    BY <1>T, <2>1, <2>2 DEF TypeOK, Handle, NoHandle
  <2> QED BY <2>2, <2>3, <2>4, SamePins
<1>7. ASSUME NEW p \in PageIds, FlushPage(p) \/ FlushAllStep(p)
      PROVE  FramePartition' /\ PinsAccounted'
  <2>1. UNCHANGED <<free_list, wait_list, handle>> /\ FlushEffect(p)
    BY <1>7 DEF FlushPage, FlushAllStep
  <2>2. \A f \in Frames : pages'[f].page_id = pages[f].page_id
                          /\ pages'[f].pin_count = pages[f].pin_count
    BY <2>1, FlushEffectTable DEF PinInv
  <2> QED BY <2>1, <2>2, SamePins
<1>8. ASSUME NEW c \in Clients, NewPgFails(c) \/ \E p \in PageIds : FetchPgFails(c, p)
      PROVE  FramePartition' /\ PinsAccounted'
  <2>1. UNCHANGED <<free_list, wait_list, handle, pages>>
    BY <1>8 DEF NewPgFails, FetchPgFails, pool
  <2> QED BY <2>1, SamePins
<1>9. CASE FlushAllBegin \/ FlushAllEnd \/ UNCHANGED vars
  <2>1. UNCHANGED <<free_list, wait_list, handle, pages>>
    BY <1>9 DEF FlushAllBegin, FlushAllEnd, pool, vars
  <2> QED BY <2>1, <1>0, SamePins DEF PinInv
<1>10. ASSUME NEW p \in PageIds PROVE ~ DeletePg(p) /\ ~ DeletePgFails(p)
  BY DEF DeletePg, DeletePgFails
<1>11. \A p \in Allocated : p \in PageIds
  BY DEF Allocated
<1> QED BY <1>0, <1>1, <1>2, <1>3, <1>4, <1>5, <1>6, <1>7, <1>8, <1>9, <1>10, <1>11
        DEF Next, PinInv

\* Clients that never delete pages: every frame is free, evictable or pinned,
\* and in one of these states only.
THEOREM FramesPartitioned ==
  ASSUME "DeletePage" \notin Ops
  PROVE  Spec => []FramePartition
PROOF
<1>1. PinInv => FramePartition
  BY DEF PinInv
<1>2. PinInv /\ [Next]_vars => PinInv'
  BY PinStep
<1> QED BY PinInit, <1>1, <1>2, PTL DEF Spec

\* Clients that never delete pages: a pinned page stays in its frame, and
\* pin_count_ is the number of pins.  FindFreshPage never evicts a page
\* somebody uses, however many clients share pins on it.
THEOREM PinnedPagesStay ==
  ASSUME "DeletePage" \notin Ops
  PROVE  Spec => []PinsAccounted
PROOF
<1>1. PinInv => PinsAccounted
  BY DEF PinInv
<1>2. PinInv /\ [Next]_vars => PinInv'
  BY PinStep
<1> QED BY PinInit, <1>1, <1>2, PTL DEF Spec

\* Clients that never delete pages: NewPage and FetchPage return nullptr only
\* when some client pins every frame.
THEOREM NullMeansAllPinned ==
  ASSUME "DeletePage" \notin Ops
  PROVE  Spec => []NullOnlyWhenAllPinned
PROOF
<1>1. Init => PinInv /\ NullOnlyWhenAllPinned
  BY PinInit DEF Init, NullOnlyWhenAllPinned
<1>2. PinInv /\ NullOnlyWhenAllPinned /\ [Next]_vars => (PinInv /\ NullOnlyWhenAllPinned)'
  <2> SUFFICES ASSUME PinInv, NullOnlyWhenAllPinned, [Next]_vars
               PROVE  PinInv' /\ NullOnlyWhenAllPinned'
    OBVIOUS
  <2>1. PinInv'
    BY PinStep
  <2>2. ASSUME NEW c \in Clients, NewPgFails(c) \/ \E p \in PageIds : FetchPgFails(c, p)
        PROVE  NullOnlyWhenAllPinned'
    <3>1. NoFreshPage /\ handle' = handle
      BY <2>2 DEF NewPgFails, FetchPgFails
    <3>2. Range(free_list) = {} /\ Range(wait_list) = {}
      BY <3>1 DEF NoFreshPage, Range
    <3>3. \A f \in Frames : Holders(f) # {}
      BY <3>2, Unheld DEF PinInv, TableInv, FramePartition
    <3>4. \A f \in Frames : Holders(f)' = Holders(f)
      BY <3>1 DEF Holders
    <3> QED BY <3>3, <3>4 DEF NullOnlyWhenAllPinned, Holders
  <2>3. ASSUME ret'.op \in {"NewPage", "FetchPage"} => ret'.ok PROVE NullOnlyWhenAllPinned'
    BY <2>3 DEF NullOnlyWhenAllPinned
  <2>4. ASSUME UNCHANGED <<ret, handle>> PROVE NullOnlyWhenAllPinned'
    BY <2>4 DEF NullOnlyWhenAllPinned, Holders
  <2>5. ASSUME NEW c \in Clients,
               \/ NewPg(c)
               \/ \E p \in PageIds : FetchPgHit(c, p) \/ FetchPgMiss(c, p)
               \/ \E d \in Data : Write(c, d)
               \/ \E b \in BOOLEAN : UnpinPg(c, b) \/ UnpinPgFails(c, b)
        PROVE  ret'.op \in {"NewPage", "FetchPage"} => ret'.ok
    <3>1. CASE NewPg(c)
      BY <3>1 DEF NewPg, Return
    <3>2. ASSUME NEW p \in PageIds, FetchPgHit(c, p) \/ FetchPgMiss(c, p) PROVE ret'.ok
      BY <3>2 DEF FetchPgHit, FetchPgMiss, Return
    <3>3. ASSUME NEW d \in Data, Write(c, d) PROVE ret'.op = "write"
      BY <3>3 DEF Write, Return
    <3>4. ASSUME NEW b \in BOOLEAN, UnpinPg(c, b) \/ UnpinPgFails(c, b)
          PROVE  ret'.op = "UnpinPage"
      BY <3>4 DEF UnpinPg, UnpinPgFails, Return
    <3> QED BY <2>5, <3>1, <3>2, <3>3, <3>4
  <2>6. ASSUME NEW p \in Allocated, FlushPage(p) \/ DeletePg(p) \/ DeletePgFails(p)
        PROVE  ret'.op \in {"NewPage", "FetchPage"} => ret'.ok
    BY <2>6 DEF FlushPage, DeletePg, DeletePgFails, Return
  <2>7. ASSUME \/ \E p \in Allocated : FlushAllStep(p)
               \/ FlushAllBegin \/ FlushAllEnd \/ UNCHANGED vars
        PROVE  UNCHANGED <<ret, handle>>
    BY <2>7 DEF FlushAllStep, FlushAllBegin, FlushAllEnd, vars
  <2> QED BY <2>1, <2>2, <2>3, <2>4, <2>5, <2>6, <2>7 DEF Next
<1> QED BY <1>1, <1>2, PTL DEF Spec

-----------------------------------------------------------------------------
(***************************************************************************)
(* What clients that work alone on a page and unpin what they changed as     *)
(* dirty can rely on: nothing they wrote is lost, and the pool is a page     *)
(* store.  (With other clients neither holds: see the run bp_lost_write.)    *)
(***************************************************************************)

\* Clients unpin a page they changed or created as dirty, and change a page
\* only while nobody else pins it.
Discipline == "DeletePage" \notin Ops /\ ~ WriteShared /\ ~ CleanNew

-----------------------------------------------------------------------------
(***************************************************************************)
(* The inductive invariant: a resident page's frame holds what was last      *)
(* written, and so does the file unless a client is changing the page, which *)
(* it then pins alone.                                                      *)
(***************************************************************************)
SavedIn(file, p) == p < Len(file) /\ file[p + 1] = content[p]

Changing(p) == \E c \in Clients : handle[c].page = p /\ handle[c].dirty

FramesHoldContent ==
  \A p \in DOMAIN page_table : pages[page_table[p]].data = content[p]

FileHoldsContent == \A p \in Allocated : ~ Changing(p) => SavedIn(disk, p)

ChangedAlone ==
  \A c, e \in Clients : handle[c].dirty /\ handle[e].page = handle[c].page => e = c

IdsOfInstance ==
  /\ next_page_id % num_instances = instance_index
  /\ DOMAIN page_table \subseteq Allocated

DataInv ==
  PinInv /\ FramesHoldContent /\ FileHoldsContent /\ ChangedAlone /\ IdsOfInstance

\* DiskManager::WritePage changes one page and never shortens the file.
LEMMA WriteFacts ==
  ASSUME NEW file \in Seq(Data), NEW p \in Nat, NEW d \in Data
  PROVE  LET g == WritePage(file, p, d)
         IN  /\ g \in Seq(Data) /\ Len(g) >= Len(file) /\ p < Len(g)
             /\ g[p + 1] = d
             /\ \A i \in 1 .. Len(file) : i # p + 1 => g[i] = file[i]
PROOF
<1> DEFINE n == IF p + 1 > Len(file) THEN p + 1 ELSE Len(file)
           g == [i \in 1 .. n |->
                   IF i = p + 1 THEN d ELSE IF i <= Len(file) THEN file[i] ELSE Zero]
<1>1. WritePage(file, p, d) = g
  BY DEF WritePage
<1>2. g \in Seq(Data)
  BY <1>1, WriteType
<1>3. n \in Nat /\ n >= Len(file) /\ n > p /\ Len(file) \in Nat
  OBVIOUS
<1>4. Len(g) = n
  <2> HIDE DEF n
  <2> QED BY <1>3
<1>5. g[p + 1] = d /\ \A i \in 1 .. Len(file) : i # p + 1 => g[i] = file[i]
  <2> HIDE DEF n
  <2> QED BY <1>3
<1> HIDE DEF g, n
<1> QED BY <1>1, <1>2, <1>3, <1>4, <1>5

\* Flushing a frame that holds the content of its page loses nothing.
LEMMA FlushSaves ==
  ASSUME TypeOK, NEW page \in Page, NEW p \in PageIds, page.data = content[p]
  PROVE  LET g == FlushPg(page, p)
         IN  /\ g \in Seq(Data)
             /\ \A q \in PageIds : SavedIn(disk, q) => SavedIn(g, q)
             /\ page.is_dirty => SavedIn(g, p)
PROOF
<1>1. disk \in Seq(Data) /\ p \in Nat /\ page.data \in Data
  BY DEF TypeOK, Page, PageIds
<1>2. CASE ~ page.is_dirty
  BY <1>1, <1>2 DEF FlushPg
<1>3. CASE page.is_dirty
  <2> DEFINE g == WritePage(disk, p, page.data)
  <2>1. /\ g \in Seq(Data) /\ Len(g) >= Len(disk) /\ p < Len(g)
        /\ g[p + 1] = content[p]
        /\ \A i \in 1 .. Len(disk) : i # p + 1 => g[i] = disk[i]
    BY <1>1, WriteFacts
  <2>2. FlushPg(page, p) = g
    BY <1>3 DEF FlushPg
  <2> HIDE DEF g
  <2>3. SavedIn(g, p)
    BY <2>1 DEF SavedIn
  <2>4. ASSUME NEW q \in PageIds, SavedIn(disk, q), q # p PROVE SavedIn(g, q)
    <3>1. q + 1 \in 1 .. Len(disk) /\ q + 1 # p + 1 /\ q < Len(g)
      BY <1>1, <2>1, <2>4 DEF SavedIn, PageIds
    <3> QED BY <2>1, <2>4, <3>1 DEF SavedIn
  <2> QED BY <2>1, <2>2, <2>3, <2>4
<1> QED BY <1>2, <1>3

\* What FindFreshPage writes back.
LEMMA FreshSaves ==
  ASSUME DataInv, ~ NoFreshPage
  PROVE  \A q \in PageIds : SavedIn(disk, q) => SavedIn(FindFreshPage.disk, q)
PROOF
<1>1. CASE free_list # <<>>
  BY <1>1 DEF FindFreshPage, TakeFree
<1>2. CASE free_list = <<>>
  <2> DEFINE f == Victim(wait_list)
             p == pages[f].page_id
  <2>1. f \in Frames
    BY <1>2, VictimFacts DEF NoFreshPage, DataInv, PinInv, TableInv, TypeOK
  <2>2. f \notin Range(free_list)
    BY <1>2 DEF Range
  <2>3. p \in DOMAIN page_table /\ page_table[p] = f /\ p \in PageIds
    BY <2>1, <2>2 DEF DataInv, PinInv, TableInv, PageTableConsistent, TypeOK
  <2>4. pages[f] \in Page /\ pages[f].data = content[p] /\ TypeOK
    BY <2>1, <2>3 DEF DataInv, FramesHoldContent, PinInv, TableInv, TypeOK
  <2>5. FindFreshPage.disk = FlushPg(pages[f], p)
    BY <1>2 DEF FindFreshPage, Evict
  <2> HIDE DEF f, p
  <2> QED BY <2>3, <2>4, <2>5, FlushSaves
<1> QED BY <1>1, <1>2

\* Nobody pins a page that is not resident.
LEMMA NotResidentNotHeld ==
  ASSUME PinInv, NEW p \in PageIds, p \notin DOMAIN page_table, NEW c \in Clients
  PROVE  handle[c].page # p
PROOF
<1>1. CASE handle[c] = NoHandle
  BY <1>1, PoolAssumption DEF NoHandle, PageIds, INVALID_PAGE_ID
<1>2. CASE handle[c] # NoHandle
  BY <1>2, HeldResident
<1> QED BY <1>1, <1>2

\* A page put into the frame FindFreshPage returned, with its content.
LEMMA InstallData ==
  ASSUME DataInv, ~ NoFreshPage, NEW p \in PageIds, p \notin DOMAIN page_table,
         page_table' = Put(FindFreshPage.page_table, p, FindFreshPage.frame_id),
         \A g \in Frames \ {FindFreshPage.frame_id} : pages'[g] = pages[g],
         pages'[FindFreshPage.frame_id].data = content'[p],
         \A q \in PageIds \ {p} : content'[q] = content[q]
  PROVE  FramesHoldContent' /\ DOMAIN page_table' \subseteq DOMAIN page_table \cup {p}
PROOF
<1> DEFINE r == FindFreshPage
           f == r.frame_id
<1>1. /\ f \in Frames
      /\ DOMAIN r.page_table = {q \in DOMAIN page_table : page_table[q] # f}
      /\ \A q \in DOMAIN r.page_table : r.page_table[q] = page_table[q]
  BY FreshFacts DEF DataInv, PinInv
<1>2. page_table' = Put(r.page_table, p, f) /\ pages'[f].data = content'[p]
      /\ \A g \in Frames \ {f} : pages'[g] = pages[g]
  OBVIOUS
<1> HIDE DEF f, r
<1>3. /\ DOMAIN page_table' = {q \in DOMAIN page_table : page_table[q] # f} \cup {p}
      /\ page_table'[p] = f
      /\ \A q \in DOMAIN page_table' : q # p => page_table'[q] = page_table[q]
  BY <1>1, <1>2 DEF Put
<1>4. ASSUME NEW q \in DOMAIN page_table', q # p
      PROVE  pages'[page_table'[q]].data = content'[q]
  <2>1. q \in DOMAIN page_table /\ page_table[q] # f /\ page_table'[q] = page_table[q]
    BY <1>3, <1>4
  <2>2. q \in PageIds /\ page_table[q] \in Frames /\ pages[page_table[q]].data = content[q]
    BY <2>1 DEF DataInv, PinInv, TableInv, TypeOK, FramesHoldContent
  <2> QED BY <1>2, <1>4, <2>1, <2>2
<1> QED BY <1>2, <1>3, <1>4 DEF FramesHoldContent

-----------------------------------------------------------------------------
(* The steps.                                                               *)

\* An empty pool over an empty file satisfies the invariant.
LEMMA DataInit == Init => DataInv
PROOF
<1> SUFFICES ASSUME Init PROVE DataInv
  OBVIOUS
<1>1. PinInv
  BY PinInit
<1>2. page_table = [p \in {} |-> NoFrame] /\ DOMAIN page_table = {}
  BY DEF Init
<1>3. FramesHoldContent
  BY <1>2 DEF FramesHoldContent
<1>4. ChangedAlone
  BY DEF Init, ChangedAlone, NoHandle
<1>5. next_page_id = instance_index /\ instance_index \in Nat /\ instance_index < num_instances
  BY PoolAssumption DEF Init
<1>6. instance_index % num_instances = instance_index
  BY <1>5, PoolAssumption, Z3
<1>7. Allocated = {}
  <2> SUFFICES ASSUME NEW p \in PageIds, p < instance_index, p % num_instances = instance_index
               PROVE  FALSE
    BY <1>5 DEF Allocated
  <2>1. p \in Nat /\ p < num_instances
    BY <1>5, PoolAssumption DEF PageIds
  <2>2. p % num_instances = p
    BY <2>1, PoolAssumption, Z3
  <2> QED BY <1>5, <2>1, <2>2
<1> QED BY <1>1, <1>2, <1>3, <1>4, <1>5, <1>6, <1>7 DEF DataInv, FileHoldsContent, IdsOfInstance

\* AllocatePage allocates one page.
LEMMA AllocateOne ==
  ASSUME TypeOK, IdsOfInstance, next_page_id \in PageIds,
         next_page_id' = next_page_id + num_instances
  PROVE  /\ Allocated' = Allocated \cup {next_page_id}
         /\ next_page_id \notin Allocated
         /\ next_page_id' % num_instances = instance_index
PROOF
<1>1. next_page_id \in Nat /\ num_instances \in Nat \ {0}
      /\ next_page_id % num_instances = instance_index
  BY PoolAssumption DEF TypeOK, IdsOfInstance
<1>2. next_page_id' % num_instances = instance_index
  BY <1>1, NextSameInstance
<1>3. Allocated' = {p \in PageIds : p < next_page_id' /\ p % num_instances = instance_index}
  BY DEF Allocated
<1>4. ASSUME NEW p \in PageIds, p < next_page_id', p % num_instances = instance_index,
             ~ (p < next_page_id)
      PROVE  p = next_page_id
  <2>1. p \in Nat /\ next_page_id <= p /\ p < next_page_id + num_instances
    BY <1>1, <1>4, PoolAssumption DEF PageIds
  <2> QED BY <1>1, <1>4, <2>1, NoneBetween
<1>5. \A p \in PageIds : p < next_page_id => p < next_page_id'
  BY <1>1, PoolAssumption DEF PageIds
<1>6. next_page_id < next_page_id' /\ ~ (next_page_id < next_page_id)
  BY <1>1
<1> QED BY <1>1, <1>2, <1>3, <1>4, <1>5, <1>6 DEF Allocated

\* NewPage: the victim's contents are safe before its frame is zeroed for the new
\* page.
LEMMA NewPgData ==
  ASSUME Discipline, DataInv, NEW c \in Clients, NewPg(c), PinInv'
  PROVE  DataInv'
PROOF
<1> DEFINE p == next_page_id
           f == FindFreshPage.frame_id
<1>1. PinInv /\ TypeOK /\ ~ NoFreshPage /\ p \in PageIds /\ handle[c] = NoHandle
  <2>1. PinInv /\ TypeOK
    BY DEF DataInv, PinInv, TableInv
  <2>2. ~ NoFreshPage /\ p <= MaxPageId /\ handle[c] = NoHandle
    BY DEF NewPg
  <2> QED BY <2>1, <2>2, PoolAssumption DEF TypeOK, PageIds
<1>2. p \notin DOMAIN page_table
  BY <1>1 DEF PinInv, TableInv, PageTableBounded, TypeOK
<1>3. f \in Frames
  BY <1>1, FreshFacts DEF PinInv
<1>4. /\ page_table' = Put(FindFreshPage.page_table, p, f)
      /\ disk' = FindFreshPage.disk
      /\ next_page_id' = next_page_id + num_instances
      /\ content' = [content EXCEPT ![p] = Zero]
      /\ handle' = [handle EXCEPT ![c] = [page |-> p, frame |-> f, dirty |-> ~ CleanNew]]
      /\ pages' = [pages EXCEPT ![f] =
                    [page_id |-> p, pin_count |-> FindFreshPage.page.pin_count + 1,
                     is_dirty |-> FindFreshPage.page.is_dirty, data |-> Zero]]
  BY DEF NewPg
<1>5. /\ \A g \in Frames \ {f} : pages'[g] = pages[g]
      /\ pages'[f].data = Zero /\ content'[p] = Zero
      /\ \A q \in PageIds \ {p} : content'[q] = content[q]
      /\ \A e \in Clients \ {c} : handle'[e] = handle[e]
      /\ handle'[c].page = p /\ handle'[c].dirty = TRUE
  BY <1>1, <1>3, <1>4 DEF TypeOK, Discipline
<1>6. FramesHoldContent' /\ DOMAIN page_table' \subseteq DOMAIN page_table \cup {p}
  BY <1>1, <1>2, <1>4, <1>5, InstallData
<1>7. /\ Allocated' = Allocated \cup {p} /\ p \notin Allocated
      /\ next_page_id' % num_instances = instance_index
  BY <1>1, <1>4, AllocateOne DEF DataInv
<1>8. IdsOfInstance'
  BY <1>6, <1>7 DEF DataInv, IdsOfInstance
<1>9. \A e \in Clients : handle[e].page # p
  BY <1>1, <1>2, NotResidentNotHeld
<1>10. ChangedAlone'
  BY <1>5, <1>9 DEF DataInv, ChangedAlone
<1>11. FileHoldsContent'
  <2> SUFFICES ASSUME NEW q \in Allocated', ~ Changing(q)' PROVE SavedIn(disk, q)'
    BY DEF FileHoldsContent
  <2>1. q # p
    BY <1>5 DEF Changing
  <2>2. q \in Allocated /\ q \in PageIds
    BY <1>7, <2>1 DEF Allocated
  <2>3. ~ Changing(q)
    BY <1>1, <1>5 DEF Changing, NoHandle
  <2>4. SavedIn(disk, q)
    BY <2>2, <2>3 DEF DataInv, FileHoldsContent
  <2>5. SavedIn(FindFreshPage.disk, q)
    BY <1>1, <2>2, <2>4, FreshSaves
  <2> QED BY <1>4, <1>5, <2>1, <2>2, <2>5 DEF SavedIn
<1> QED BY <1>6, <1>8, <1>10, <1>11 DEF DataInv

\* FetchPage of a page that is not resident: the file has its contents, and the
\* frame gets them.
LEMMA FetchPgMissData ==
  ASSUME Discipline, DataInv, NEW c \in Clients, NEW p \in PageIds, FetchPgMiss(c, p), PinInv'
  PROVE  DataInv'
PROOF
<1> DEFINE f == FindFreshPage.frame_id
<1>1. PinInv /\ TypeOK /\ ~ NoFreshPage /\ handle[c] = NoHandle /\ p \in Allocated
  BY DEF FetchPgMiss, MayFetch, DataInv, PinInv, TableInv
<1>2. p \notin DOMAIN page_table
  BY <1>1, FindPageFacts DEF FetchPgMiss, PinInv
<1>3. f \in Frames /\ FindFreshPage.disk \in Seq(Data)
  BY <1>1, FreshFacts DEF PinInv
<1>4. /\ page_table' = Put(FindFreshPage.page_table, p, f)
      /\ disk' = FindFreshPage.disk
      /\ next_page_id' = next_page_id /\ content' = content
      /\ handle' = [handle EXCEPT ![c] = [page |-> p, frame |-> f, dirty |-> FALSE]]
      /\ pages' = [pages EXCEPT ![f] =
                    [page_id |-> p, pin_count |-> FindFreshPage.page.pin_count + 1,
                     is_dirty |-> FALSE,
                     data |-> ReadPage(FindFreshPage.disk, p, FindFreshPage.page.data)]]
  BY DEF FetchPgMiss
<1>5. \A e \in Clients : handle[e].page # p
  BY <1>1, <1>2, NotResidentNotHeld
<1>6. SavedIn(disk, p)
  BY <1>1, <1>5 DEF DataInv, FileHoldsContent, Changing
<1>7. SavedIn(FindFreshPage.disk, p)
  BY <1>1, <1>6, FreshSaves
<1>8. ReadPage(FindFreshPage.disk, p, FindFreshPage.page.data) = content[p]
  BY <1>3, <1>7, PoolAssumption DEF ReadPage, SavedIn, PageIds
<1>9. /\ \A g \in Frames \ {f} : pages'[g] = pages[g]
      /\ pages'[f].data = content'[p]
      /\ \A e \in Clients \ {c} : handle'[e] = handle[e]
      /\ handle'[c].page = p /\ handle'[c].dirty = FALSE
  BY <1>1, <1>3, <1>4, <1>8 DEF TypeOK
<1>10. FramesHoldContent' /\ DOMAIN page_table' \subseteq DOMAIN page_table \cup {p}
  BY <1>1, <1>2, <1>4, <1>9, InstallData
<1>11. Allocated' = Allocated
  BY <1>4 DEF Allocated
<1>12. IdsOfInstance'
  BY <1>1, <1>4, <1>10, <1>11 DEF DataInv, IdsOfInstance
<1>13. ChangedAlone'
  BY <1>5, <1>9 DEF DataInv, ChangedAlone
<1>14. FileHoldsContent'
  <2> SUFFICES ASSUME NEW q \in Allocated, ~ Changing(q)' PROVE SavedIn(disk, q)'
    BY <1>11 DEF FileHoldsContent
  <2>1. q \in PageIds /\ ~ Changing(q)
    BY <1>1, <1>9 DEF Changing, NoHandle, Allocated
  <2>2. SavedIn(FindFreshPage.disk, q)
    BY <1>1, <2>1, FreshSaves DEF DataInv, FileHoldsContent
  <2> QED BY <1>4, <2>2 DEF SavedIn
<1> QED BY <1>10, <1>12, <1>13, <1>14 DEF DataInv

\* FetchPage of a resident page: the new pin sees what the others see.
LEMMA FetchPgHitData ==
  ASSUME Discipline, DataInv, NEW c \in Clients, NEW p \in PageIds, FetchPgHit(c, p), PinInv'
  PROVE  DataInv'
PROOF
<1>1. TypeOK /\ TableInv /\ FindPage(p) # NoFrame /\ handle[c] = NoHandle
      /\ \A e \in Clients : handle[e].page = p => ~ handle[e].dirty
  BY DEF FetchPgHit, MayFetch, DataInv, PinInv, TableInv, Discipline
<1>2. PICK f \in Frames : f = FindPage(p)
  BY <1>1, FindPageFacts
<1>3. /\ pages' = [pages EXCEPT ![f] =
                    [page_id |-> p, pin_count |-> pages[f].pin_count + 1,
                     is_dirty |-> TRUE, data |-> pages[f].data]]
      /\ handle' = [handle EXCEPT ![c] = [page |-> p, frame |-> f, dirty |-> FALSE]]
      /\ UNCHANGED <<page_table, next_page_id, disk, content>>
  BY <1>2 DEF FetchPgHit
<1>4. \A g \in Frames : pages'[g].data = pages[g].data
  BY <1>1, <1>3 DEF TypeOK
<1>5. /\ \A e \in Clients \ {c} : handle'[e] = handle[e]
      /\ handle'[c].page = p /\ handle'[c].dirty = FALSE
  BY <1>1, <1>3 DEF TypeOK
<1>6. FramesHoldContent'
  BY <1>1, <1>3, <1>4 DEF DataInv, FramesHoldContent, TypeOK
<1>7. ChangedAlone'
  BY <1>1, <1>5 DEF DataInv, ChangedAlone
<1>8. \A q : Changing(q) => Changing(q)'
  BY <1>1, <1>5 DEF Changing, NoHandle
<1>9. Allocated' = Allocated /\ \A q : SavedIn(disk, q)' <=> SavedIn(disk, q)
  BY <1>3 DEF Allocated, SavedIn
<1>10. FileHoldsContent' /\ IdsOfInstance'
  BY <1>3, <1>8, <1>9 DEF DataInv, FileHoldsContent, IdsOfInstance
<1> QED BY <1>6, <1>7, <1>10 DEF DataInv

\* A write through the only pin of a page: nobody else sees an old frame.
LEMMA WriteData ==
  ASSUME Discipline, DataInv, NEW c \in Clients, NEW d \in Data, Write(c, d), PinInv'
  PROVE  DataInv'
PROOF
<1>1. TypeOK /\ PinInv /\ handle[c] # NoHandle
      /\ \A e \in Clients \ {c} : handle[e].page # handle[c].page
  BY DEF Write, DataInv, PinInv, TableInv, Discipline
<1>2. PICK f \in Frames, p \in PageIds : f = handle[c].frame /\ p = handle[c].page
  BY <1>1 DEF TypeOK, Handle
<1>3. FindPage(p) = f /\ p \in DOMAIN page_table
  BY <1>1, <1>2, HeldResident
<1>4. page_table[p] = f /\ \A q \in DOMAIN page_table : page_table[q] = f => q = p
  BY <1>1, <1>3 DEF FindPage, PinInv, TableInv, PageTableConsistent
<1>5. /\ pages' = [pages EXCEPT ![f].data = d]
      /\ content' = [content EXCEPT ![p] = d]
      /\ handle' = [handle EXCEPT ![c].dirty = TRUE]
      /\ UNCHANGED <<page_table, next_page_id, disk>>
  BY <1>2 DEF Write
<1>6. /\ pages'[f].data = d /\ \A g \in Frames \ {f} : pages'[g] = pages[g]
      /\ content'[p] = d /\ \A q \in PageIds \ {p} : content'[q] = content[q]
      /\ \A e \in Clients : handle'[e].page = handle[e].page
      /\ \A e \in Clients \ {c} : handle'[e] = handle[e]
      /\ handle'[c].dirty = TRUE
  BY <1>1, <1>5 DEF TypeOK, Page, Handle, NoHandle
<1>7. FramesHoldContent'
  <2> SUFFICES ASSUME NEW q \in DOMAIN page_table PROVE pages'[page_table[q]].data = content'[q]
    BY <1>5 DEF FramesHoldContent
  <2>1. q \in PageIds /\ page_table[q] \in Frames /\ pages[page_table[q]].data = content[q]
    BY <1>1 DEF TypeOK, DataInv, FramesHoldContent
  <2> QED BY <1>4, <1>6, <2>1
<1>8. ChangedAlone'
  BY <1>1, <1>6 DEF DataInv, ChangedAlone
<1>9. Allocated' = Allocated
  BY <1>5 DEF Allocated
<1>10. FileHoldsContent'
  <2> SUFFICES ASSUME NEW q \in Allocated, ~ Changing(q)' PROVE SavedIn(disk, q)'
    BY <1>9 DEF FileHoldsContent
  <2>1. q # p /\ q \in PageIds /\ ~ Changing(q)
    BY <1>2, <1>6 DEF Changing, Allocated
  <2> QED BY <1>5, <1>6, <2>1 DEF DataInv, FileHoldsContent, SavedIn
<1>11. IdsOfInstance'
  BY <1>5, <1>9 DEF DataInv, IdsOfInstance
<1> QED BY <1>7, <1>8, <1>10, <1>11 DEF DataInv

\* UnpinPage: a writer says dirty, and the page is written to the file.
LEMMA UnpinPgData ==
  ASSUME Discipline, DataInv, NEW c \in Clients, NEW b \in BOOLEAN, UnpinPg(c, b), PinInv'
  PROVE  DataInv'
PROOF
<1>1. TypeOK /\ PinInv /\ handle[c] # NoHandle /\ (handle[c].dirty => b)
  BY DEF UnpinPg, MayUnpin, DataInv, PinInv, TableInv
<1>2. PICK f \in Frames, p \in PageIds : f = handle[c].frame /\ p = handle[c].page
  BY <1>1 DEF TypeOK, Handle
<1>3. FindPage(p) = f /\ p \in DOMAIN page_table /\ page_table[p] = f /\ pages[f].page_id = p
  BY <1>1, <1>2, HeldResident DEF FindPage, PinInv, TableInv, PageTableConsistent
<1> DEFINE page == [page_id |-> p, pin_count |-> pages[f].pin_count - 1,
                    is_dirty |-> b, data |-> pages[f].data]
<1>4. /\ pages' = [pages EXCEPT ![f] = page]
      /\ disk' = IF page.pin_count = 0 THEN FlushPg(page, p) ELSE disk
      /\ handle' = [handle EXCEPT ![c] = NoHandle]
      /\ pages[f].pin_count # 0
      /\ UNCHANGED <<page_table, next_page_id, content>>
  BY <1>2, <1>3 DEF UnpinPg
<1>5. page \in Page /\ page.data = content[p] /\ page.is_dirty = b
      /\ page.pin_count = pages[f].pin_count - 1 /\ page.data = pages[f].data
  BY <1>1, <1>3, <1>4 DEF DataInv, FramesHoldContent, TypeOK, Page
<1> HIDE DEF page
<1>6. /\ \A q \in PageIds : SavedIn(disk, q) => SavedIn(disk', q)
      /\ b /\ page.pin_count = 0 => SavedIn(disk', p)
  BY <1>1, <1>4, <1>5, FlushSaves
<1>7. \A g \in Frames : pages'[g].data = pages[g].data
  <2>1. pages \in [Frames -> Page]
    BY <1>1 DEF TypeOK
  <2>2. \A g \in Frames : pages'[g] = IF g = f THEN page ELSE pages[g]
    BY <1>4, <2>1
  <2> QED BY <1>5, <2>2
<1>8. FramesHoldContent'
  BY <1>1, <1>4, <1>7 DEF DataInv, FramesHoldContent, TypeOK
<1>9. \A e \in Clients : handle'[e] = IF e = c THEN NoHandle ELSE handle[e]
  BY <1>1, <1>4 DEF TypeOK
<1>10. ChangedAlone'
  <2> SUFFICES ASSUME NEW d \in Clients, NEW e \in Clients,
                      handle'[d].dirty, handle'[e].page = handle'[d].page
               PROVE  e = d
    BY DEF ChangedAlone
  <2>1. d # c /\ handle'[d] = handle[d] /\ handle[d] # NoHandle
    BY <1>9 DEF NoHandle
  <2>2. handle[d].page \in PageIds
    BY <1>1, <2>1 DEF TypeOK, Handle
  <2>3. e # c
    BY <1>9, <2>1, <2>2, PoolAssumption DEF NoHandle, PageIds, INVALID_PAGE_ID
  <2> QED BY <1>9, <2>1, <2>3 DEF DataInv, ChangedAlone
<1>11. Allocated' = Allocated
  BY <1>4 DEF Allocated
<1>12. handle[c].dirty => page.pin_count = 0
  <2> SUFFICES ASSUME handle[c].dirty PROVE page.pin_count = 0
    OBVIOUS
  <2>1. Holders(f) = {c}
    <3>1. ASSUME NEW e \in Clients, handle[e].frame = f PROVE e = c
      <4>1. handle[e] # NoHandle
        BY <3>1, PoolAssumption DEF NoHandle, NoFrame, Frames
      <4>2. handle[e].page = p
        BY <1>1, <1>3, <3>1, <4>1 DEF PinInv, PinsAccounted
      <4> QED BY <1>2, <4>2 DEF DataInv, ChangedAlone
    <3> QED BY <1>2, <3>1 DEF Holders
  <2>2. Cardinality(Holders(f)) = 1
    BY <2>1, FS_Singleton
  <2> QED BY <1>1, <1>5, <2>2 DEF PinInv, PinsAccounted
<1>13. FileHoldsContent'
  <2> SUFFICES ASSUME NEW q \in Allocated, ~ Changing(q)' PROVE SavedIn(disk', q)
    BY <1>4, <1>11 DEF FileHoldsContent, SavedIn
  <2>1. q \in PageIds
    BY DEF Allocated
  <2>2. CASE q = p /\ handle[c].dirty
    BY <1>1, <1>6, <1>12, <2>2
  <2>3. CASE ~ (q = p /\ handle[c].dirty)
    <3>1. ~ Changing(q)
      BY <1>2, <1>9, <2>3 DEF Changing
    <3> QED BY <1>6, <2>1, <3>1 DEF DataInv, FileHoldsContent
  <2> QED BY <2>2, <2>3
<1>14. IdsOfInstance'
  BY <1>4, <1>11 DEF DataInv, IdsOfInstance
<1> QED BY <1>8, <1>10, <1>13, <1>14 DEF DataInv

\* FlushPage, alone or as a step of FlushAllPages, writes what the frame holds.
LEMMA FlushData ==
  ASSUME DataInv, NEW p \in PageIds, FlushEffect(p), PinInv',
         UNCHANGED <<page_table, next_page_id, handle, content>>
  PROVE  DataInv'
PROOF
<1>1. TypeOK /\ TableInv
  BY DEF DataInv, PinInv, TableInv
<1>2. \A g \in Frames : pages'[g].data = pages[g].data
  BY <1>1, FlushEffectTable
<1>3. FramesHoldContent'
  BY <1>1, <1>2 DEF DataInv, FramesHoldContent, TypeOK
<1>4. \A q \in PageIds : SavedIn(disk, q) => SavedIn(disk', q)
  <2>1. CASE FindPage(p) = NoFrame
    BY <2>1 DEF FlushEffect
  <2>2. CASE FindPage(p) # NoFrame
    <3>1. PICK f \in Frames : f = FindPage(p) /\ f = page_table[p] /\ p \in DOMAIN page_table
      BY <1>1, <2>2, FindPageFacts
    <3>2. pages[f] \in Page /\ pages[f].data = content[p]
      BY <1>1, <3>1 DEF TypeOK, DataInv, FramesHoldContent
    <3>3. disk' = FlushPg(pages[f], p)
      BY <2>2, <3>1 DEF FlushEffect
    <3> QED BY <1>1, <3>2, <3>3, FlushSaves
  <2> QED BY <2>1, <2>2
<1>5. Allocated' = Allocated /\ \A q : Changing(q)' <=> Changing(q)
  BY DEF Allocated, Changing
<1>6. FileHoldsContent'
  <2> SUFFICES ASSUME NEW q \in Allocated, ~ Changing(q) PROVE SavedIn(disk', q)
    BY <1>5 DEF FileHoldsContent, SavedIn
  <2> QED BY <1>4 DEF DataInv, FileHoldsContent, Allocated
<1>7. ChangedAlone' /\ IdsOfInstance'
  BY <1>5 DEF DataInv, ChangedAlone, IdsOfInstance
<1> QED BY <1>3, <1>6, <1>7 DEF DataInv

\* Steps that leave the pages, the file and the handles alone.
LEMMA QuietData ==
  ASSUME DataInv, PinInv', UNCHANGED <<pages, page_table, next_page_id, disk, handle, content>>
  PROVE  DataInv'
BY DEF DataInv, FramesHoldContent, FileHoldsContent, ChangedAlone, IdsOfInstance,
       Allocated, Changing, SavedIn

\* Every step preserves the invariant.
LEMMA DataStep ==
  ASSUME Discipline, DataInv, [Next]_vars
  PROVE  DataInv'
PROOF
<1>0. PinInv /\ PinInv'
  BY PinStep DEF Discipline, DataInv
<1>1. ASSUME NEW c \in Clients, NEW b \in BOOLEAN, UnpinPgFails(c, b) PROVE FALSE
  <2>1. FindPage(handle[c].page) \in Frames /\ pages[FindPage(handle[c].page)].pin_count # 0
    BY <1>0, <1>1, HeldResident DEF UnpinPgFails, MayUnpin
  <2> QED BY <1>1, <2>1, PoolAssumption DEF UnpinPgFails, NoFrame, Frames
<1>2. ASSUME NEW p \in Allocated, FlushPage(p) \/ FlushAllStep(p) PROVE DataInv'
  BY <1>0, <1>2, FlushData DEF FlushPage, FlushAllStep, Allocated
<1>3. ASSUME NEW p \in Allocated PROVE ~ DeletePg(p) /\ ~ DeletePgFails(p)
  BY DEF Discipline, DeletePg, DeletePgFails
<1>4. CASE \/ \E c \in Clients : NewPgFails(c) \/ \E p \in PageIds : FetchPgFails(c, p)
           \/ FlushAllBegin \/ FlushAllEnd \/ UNCHANGED vars
  BY <1>0, <1>4, QuietData DEF NewPgFails, FetchPgFails, FlushAllBegin, FlushAllEnd, pool, vars
<1> QED BY <1>0, <1>1, <1>2, <1>3, <1>4, NewPgData, FetchPgMissData, FetchPgHitData,
           WriteData, UnpinPgData DEF Next

\* The invariant holds always.
LEMMA DataAlways ==
  ASSUME Discipline
  PROVE  Spec => []DataInv
PROOF
<1>1. DataInv /\ [Next]_vars => DataInv'
  BY DataStep
<1> QED BY <1>1, DataInit, PTL DEF Spec

-----------------------------------------------------------------------------
(* The theorems.                                                            *)

\* A page that no client pins has its last written content in the file, however
\* many frames, pages and clients there are: UnpinPage and the eviction write
\* back whatever was changed.
THEOREM UnpinnedPagesDurable ==
  ASSUME Discipline
  PROVE  Spec => []UnpinnedIsDurable
PROOF
<1>1. ASSUME DataInv PROVE UnpinnedIsDurable
  <2> SUFFICES ASSUME NEW p \in Allocated, \A c \in Clients : handle[c].page # p
               PROVE  content[p] = OnDisk(p)
    BY DEF UnpinnedIsDurable
  <2>1. SavedIn(disk, p)
    BY <1>1 DEF DataInv, FileHoldsContent, Changing
  <2> QED BY <2>1 DEF SavedIn, OnDisk
<1> QED BY <1>1, DataAlways, PTL

\* A client that pins a page sees what was last written to it, wherever the page
\* was evicted to in between.
THEOREM PinnedPagesCoherent ==
  ASSUME Discipline
  PROVE  Spec => []PinnedPageCoherent
PROOF
<1>1. ASSUME DataInv PROVE PinnedPageCoherent
  <2> SUFFICES ASSUME NEW c \in Clients, handle[c] # NoHandle
               PROVE  pages[handle[c].frame].data = content[handle[c].page]
    BY DEF PinnedPageCoherent
  <2>1. handle[c].page \in DOMAIN page_table /\ FindPage(handle[c].page) = handle[c].frame
    BY <1>1, HeldResident DEF DataInv
  <2> QED BY <1>1, <2>1 DEF FindPage, DataInv, FramesHoldContent
<1> QED BY <1>1, DataAlways, PTL

-----------------------------------------------------------------------------
(* Refinement.                                                             *)

\* What clients see of the pages, in terms of what they wrote.
Contents == [p \in PageIds |-> IF p \in Allocated THEN content[p] ELSE INVALID_PAGE_ID]
Seen == [p \in PageIds |-> IF p \in Allocated THEN Visible(p) ELSE INVALID_PAGE_ID]
HeldPages == [c \in Clients |-> handle[c].page]

\* What clients see of a page is what was last written to it.
LEMMA SeenIsWritten ==
  ASSUME DataInv
  PROVE  Seen = Contents
PROOF
<1> SUFFICES ASSUME NEW p \in Allocated PROVE Visible(p) = content[p]
  BY DEF Seen, Contents
<1>1. CASE p \in DOMAIN page_table
  BY <1>1 DEF Visible, DataInv, FramesHoldContent
<1>2. CASE p \notin DOMAIN page_table
  <2>1. ~ Changing(p)
    BY <1>2, NotResidentNotHeld DEF Changing, DataInv, Allocated
  <2> QED BY <1>2, <2>1 DEF DataInv, FileHoldsContent, SavedIn, Visible, OnDisk
<1> QED BY <1>1, <1>2

\* Steps that change neither what clients wrote nor what they hold.
LEMMA SameContents ==
  ASSUME UNCHANGED <<next_page_id, content>>
  PROVE  Contents' = Contents
PROOF
<1>1. Allocated' = Allocated
  BY DEF Allocated
<1> QED BY <1>1 DEF Contents

\* How a client's new handle shows in the refinement mapping.
LEMMA HeldAfter ==
  ASSUME TypeOK, NEW c \in Clients, NEW p, NEW f, NEW b,
         handle' = [handle EXCEPT ![c] = [page |-> p, frame |-> f, dirty |-> b]]
  PROVE  HeldPages' = [HeldPages EXCEPT ![c] = p]
BY DEF TypeOK, HeldPages

\* A step of the pool is a step of the page store, or is invisible.
LEMMA StoreStep ==
  ASSUME Discipline, INVALID_PAGE_ID \notin Data, DataInv, [Next]_vars,
         Seen = Contents, Seen' = Contents'
  PROVE  Store!Next \/ (Seen' = Seen /\ HeldPages' = HeldPages)
PROOF
<1>1. TypeOK /\ PinInv
  BY DEF DataInv, PinInv, TableInv
<1>2. ASSUME NEW c \in Clients, handle[c] = NoHandle PROVE HeldPages[c] = INVALID_PAGE_ID
  BY <1>2 DEF HeldPages, NoHandle
<1>3. ASSUME NEW p \in Allocated PROVE Seen[p] # INVALID_PAGE_ID /\ p \in PageIds
  <2>1. p \in PageIds /\ content[p] \in Data
    BY <1>1 DEF Allocated, TypeOK
  <2> QED BY <2>1 DEF Contents
<1>4. ASSUME NEW c \in Clients, NewPg(c)
      PROVE  \E p \in PageIds : Store!Create(c, p)
  <2>1. PICK p \in PageIds : p = next_page_id
    BY <1>1, <1>4 DEF NewPg, PageIds, TypeOK
  <2>2. Allocated' = Allocated \cup {p} /\ p \notin Allocated
    BY <1>1, <1>4, <2>1, AllocateOne DEF NewPg, DataInv
  <2>3. content' = [content EXCEPT ![p] = Zero]
    BY <1>4, <2>1 DEF NewPg
  <2>4. Contents' = [Contents EXCEPT ![p] = Zero]
    BY <1>1, <2>1, <2>2, <2>3 DEF Contents, TypeOK
  <2>5. Seen[p] = INVALID_PAGE_ID
    BY <2>1, <2>2 DEF Contents
  <2>6. HeldPages' = [HeldPages EXCEPT ![c] = p] /\ handle[c] = NoHandle
    <3>1. /\ handle' = [handle EXCEPT ![c] = [page |-> p,
                          frame |-> FindFreshPage.frame_id, dirty |-> ~ CleanNew]]
          /\ handle[c] = NoHandle
      BY <1>4, <2>1 DEF NewPg
    <3> QED BY <1>1, <3>1, HeldAfter
  <2> QED BY <1>2, <2>1, <2>4, <2>5, <2>6 DEF Store!Create, Seen, HeldPages
<1>5. ASSUME NEW c \in Clients, NEW p \in PageIds, FetchPgHit(c, p) \/ FetchPgMiss(c, p)
      PROVE  Store!Acquire(c, p)
  <2>1. p \in Allocated /\ handle[c] = NoHandle
    BY <1>5 DEF FetchPgHit, FetchPgMiss, MayFetch
  <2>2. Seen' = Seen
    BY <1>5, SameContents DEF FetchPgHit, FetchPgMiss
  <2>3. HeldPages' = [HeldPages EXCEPT ![c] = p]
    <3>1. PICK f : handle' = [handle EXCEPT ![c] = [page |-> p, frame |-> f, dirty |-> FALSE]]
      BY <1>5 DEF FetchPgHit, FetchPgMiss
    <3> QED BY <1>1, <3>1, HeldAfter
  <2> QED BY <1>2, <1>3, <2>1, <2>2, <2>3 DEF Store!Acquire, Seen, HeldPages
<1>6. ASSUME NEW c \in Clients, handle[c] # NoHandle
      PROVE  HeldPages[c] = handle[c].page /\ handle[c].page \in Allocated
             /\ handle[c].page # INVALID_PAGE_ID
  <2>1. handle[c].page \in Allocated
    BY <1>1, <1>6, HeldResident DEF DataInv, IdsOfInstance
  <2> QED BY <2>1, PoolAssumption DEF HeldPages, Allocated, PageIds, INVALID_PAGE_ID
<1>7. ASSUME NEW c \in Clients, NEW d \in Data, Write(c, d) PROVE Store!Write(c, d)
  <2>1. handle[c] # NoHandle /\ content' = [content EXCEPT ![handle[c].page] = d]
    BY <1>7 DEF Write
  <2>2. HeldPages[c] \in Allocated /\ HeldPages[c] # INVALID_PAGE_ID
        /\ HeldPages[c] = handle[c].page
    BY <1>6, <2>1
  <2>3. Allocated' = Allocated
    BY <1>7 DEF Write, Allocated
  <2>4. Contents' = [Contents EXCEPT ![HeldPages[c]] = d]
    BY <1>1, <2>1, <2>2, <2>3 DEF Contents, TypeOK
  <2>5. \A e \in Clients : handle'[e].page = handle[e].page
    BY <1>1, <1>7 DEF Write, TypeOK, Handle, NoHandle
  <2>6. HeldPages' = HeldPages
    BY <2>5 DEF HeldPages
  <2> QED BY <2>2, <2>4, <2>6 DEF Store!Write, Seen, HeldPages
<1>8. ASSUME NEW c \in Clients, NEW b \in BOOLEAN, UnpinPg(c, b) PROVE Store!Release(c)
  <2>1. handle[c] # NoHandle /\ handle' = [handle EXCEPT ![c] = NoHandle]
    BY <1>8 DEF UnpinPg, MayUnpin
  <2>2. Seen' = Seen
    BY <1>8, SameContents DEF UnpinPg
  <2>3. HeldPages' = [HeldPages EXCEPT ![c] = INVALID_PAGE_ID]
    BY <1>1, <2>1, HeldAfter DEF NoHandle
  <2> QED BY <1>6, <2>1, <2>2, <2>3 DEF Store!Release, Seen, HeldPages
<1>9. ASSUME NEW c \in Clients, NEW b \in BOOLEAN, UnpinPgFails(c, b) PROVE FALSE
  <2>1. FindPage(handle[c].page) \in Frames /\ pages[FindPage(handle[c].page)].pin_count # 0
    BY <1>1, <1>9, HeldResident DEF UnpinPgFails, MayUnpin
  <2> QED BY <1>9, <2>1, PoolAssumption DEF UnpinPgFails, NoFrame, Frames
<1>10. ASSUME UNCHANGED <<handle, next_page_id, content>>
       PROVE  Seen' = Seen /\ HeldPages' = HeldPages
  BY <1>10, SameContents DEF HeldPages
<1>11. ASSUME NEW p \in Allocated PROVE ~ DeletePg(p) /\ ~ DeletePgFails(p)
  BY DEF Discipline, DeletePg, DeletePgFails
<1>12. CASE \/ \E c \in Clients : NewPgFails(c) \/ \E p \in PageIds : FetchPgFails(c, p)
            \/ \E p \in Allocated : FlushPage(p) \/ FlushAllStep(p)
            \/ FlushAllBegin \/ FlushAllEnd \/ UNCHANGED vars
  BY <1>10, <1>12 DEF NewPgFails, FetchPgFails, FlushPage, FlushAllStep,
                      FlushAllBegin, FlushAllEnd, pool, vars
<1>13. CASE \E c \in Clients :
              \/ NewPg(c)
              \/ \E p \in PageIds : FetchPgHit(c, p) \/ FetchPgMiss(c, p)
              \/ \E d \in Data : Write(c, d)
              \/ \E b \in BOOLEAN : UnpinPg(c, b)
  <2>1. PICK c \in Clients :
          \/ NewPg(c)
          \/ \E p \in PageIds : FetchPgHit(c, p) \/ FetchPgMiss(c, p)
          \/ \E d \in Data : Write(c, d)
          \/ \E b \in BOOLEAN : UnpinPg(c, b)
    BY <1>13
  <2>2. \/ \E p \in PageIds : Store!Create(c, p) \/ Store!Acquire(c, p)
        \/ \E d \in Data : Store!Write(c, d)
        \/ Store!Release(c)
    <3>1. CASE NewPg(c)
      BY <1>4, <3>1
    <3>2. CASE \E p \in PageIds : FetchPgHit(c, p) \/ FetchPgMiss(c, p)
      BY <1>5, <3>2
    <3>3. CASE \E d \in Data : Write(c, d)
      BY <1>7, <3>3
    <3>4. CASE \E b \in BOOLEAN : UnpinPg(c, b)
      BY <1>8, <3>4
    <3> QED BY <2>1, <3>1, <3>2, <3>3, <3>4
  <2> QED BY <2>2 DEF Store!Next
<1> QED BY <1>9, <1>11, <1>12, <1>13 DEF Next

\* The pool implements the page store for every number of frames, pages and
\* clients: whatever FindFreshPage evicts and FetchPage reads back, a page
\* changes only when a client that holds it writes to it.
THEOREM PoolImplementsStore ==
  ASSUME Discipline, INVALID_PAGE_ID \notin Data
  PROVE  Spec => ImplementsPageStore
PROOF
<1>1. Init => Store!Init
  <2> SUFFICES ASSUME Init PROVE Store!Init
    OBVIOUS
  <2>1. Allocated = {}
    <3>1. ASSUME NEW p \in PageIds, p < instance_index PROVE p % num_instances # instance_index
      <4>1. p \in Nat /\ instance_index \in Nat /\ num_instances \in Nat \ {0}
            /\ p < num_instances
        BY <3>1, PoolAssumption DEF PageIds
      <4>2. p % num_instances = p
        BY <4>1, Z3
      <4> QED BY <3>1, <4>1, <4>2
    <3> QED BY <3>1 DEF Init, Allocated
  <2>2. \A c \in Clients : handle[c].page = INVALID_PAGE_ID
    BY DEF Init, NoHandle
  <2> QED BY <2>1, <2>2 DEF Store!Init
<1>2. DataInv => Seen = Contents
  BY SeenIsWritten
<1>3. DataInv /\ [Next]_vars /\ (Seen = Contents) /\ (Seen = Contents)'
      => [Store!Next]_<<Seen, HeldPages>>
  BY StoreStep
<1>4. Store!vars = <<Seen, HeldPages>>
  BY DEF Store!vars, Seen, HeldPages
<1> QED BY <1>1, <1>2, <1>3, DataAlways, PTL DEF Spec, ImplementsPageStore, Store!Spec, Store!vars, Seen, HeldPages
=============================================================================
