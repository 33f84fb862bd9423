----------------------------- MODULE BufferPool -----------------------------
(***************************************************************************)
(* BufferPoolManagerInstance, its LRUReplacer and the part of DiskManager   *)
(* they use (src/buffer/buffer_pool_manager_instance.cpp,                   *)
(* src/buffer/lru_replacer.cpp, src/storage/disk/disk_manager.cpp).         *)
(*                                                                         *)
(* Every public operation of the instance runs under latch_ from its first  *)
(* to its last statement, so each one is one action.  The exception is      *)
(* FlushAllPgsImp, which walks page_table_ without the latch and takes it   *)
(* once per page: it is a begin, a step and an end.                         *)
(*                                                                         *)
(* A client stands for one pin that some thread holds: it got a Page* from  *)
(* NewPage or FetchPage, may write through it, and gives it back by         *)
(* UnpinPage.  How clients behave is chosen by three constants, so that a   *)
(* run can say under which discipline a property holds.                     *)
(***************************************************************************)
EXTENDS Integers, Sequences, FiniteSets, Functions

CONSTANTS
  pool_size,        \* frames of this instance
  num_instances,    \* instances of the pool this one is part of
  instance_index,   \* index of this one among them
  MaxPageId,        \* bound: no page id above it is allocated
  Data,             \* page contents
  Zero,             \* the content of a zeroed page
  Clients,          \* pins that can be held at the same time
  Ops,              \* the optional operations clients use
  WriteShared,      \* may a client write a page that others pin as well?
  CleanNew          \* may a client unpin a page it created as not dirty?

ASSUME PoolAssumption ==
  /\ pool_size \in Nat \ {0}
  /\ num_instances \in Nat \ {0}
  /\ instance_index \in 0 .. (num_instances - 1)
  /\ MaxPageId \in Nat
  /\ Zero \in Data
  /\ IsFiniteSet(Clients)
  /\ Ops \subseteq {"FlushPage", "FlushAllPages", "DeletePage"}
  /\ WriteShared \in BOOLEAN
  /\ CleanNew \in BOOLEAN

VARIABLES
  pages,         \* pages_: metadata and data of every frame
  page_table,    \* page_table_: page id -> frame, a finite partial function
  free_list,     \* free_list_: frames, front first
  wait_list,     \* LRUReplacer::wait_list_: frames, most recent first
  next_page_id,  \* next_page_id_
  disk,          \* the database file: page p is disk[p + 1]
  handle,        \* what each client holds
  content,       \* ghost: what the last write through any pin left in a page
  ret,           \* the last call's operation, page and result
  flush          \* the walk of FlushAllPgsImp over page_table_

pool == <<pages, page_table, free_list, wait_list, next_page_id, disk>>
vars == <<pool, handle, content, ret, flush>>

INVALID_PAGE_ID == -1
NoFrame == -1

Frames == 0 .. (pool_size - 1)
PageIds == 0 .. MaxPageId
Allocated == {p \in PageIds : p < next_page_id
                              /\ p % num_instances = instance_index}

Page == [page_id : PageIds \cup {INVALID_PAGE_ID}, pin_count : Nat,
         is_dirty : BOOLEAN, data : Data]

NoHandle == [page |-> INVALID_PAGE_ID, frame |-> NoFrame, dirty |-> FALSE]
Handle == [page : PageIds, frame : Frames, dirty : BOOLEAN]

Calls == {"none", "NewPage", "FetchPage", "write", "UnpinPage", "FlushPage", "DeletePage"}

Idle == [on |-> FALSE, visited |-> {}, raced |-> FALSE]

-----------------------------------------------------------------------------
(* DiskManager: WritePage extends the file, leaving zeros in a hole;        *)
(* ReadPage beyond the end of the file leaves the buffer as it was.         *)

\* Mutant: writing a page cuts the file off behind it.
WritePageTruncates(file, p, data) ==
  [i \in 1 .. (p + 1) |->
     IF i = p + 1 THEN data ELSE IF i <= Len(file) THEN file[i] ELSE Zero]

WritePage(file, p, data) ==
  [i \in 1 .. (IF p + 1 > Len(file) THEN p + 1 ELSE Len(file)) |->
     IF i = p + 1 THEN data ELSE IF i <= Len(file) THEN file[i] ELSE Zero]

\* Mutant: the read is forgotten.
ReadPageKeepsBuffer(file, p, buffer) == buffer

ReadPage(file, p, buffer) ==
  IF p > Len(file) THEN buffer
  ELSE IF p = Len(file) THEN Zero ELSE file[p + 1]

-----------------------------------------------------------------------------
(* LRUReplacer.  page2iter_ is the membership test of wait_list.            *)

IsInReplacer(list, f) == f \in Range(list)

\* Mutant: a pinned frame stays a candidate.
PinKeepsFrame(list, f) == list

Pin(list, f) ==
  IF ~ IsInReplacer(list, f) THEN list
  ELSE LET k == CHOOSE j \in 1 .. Len(list) : list[j] = f
       IN [j \in 1 .. (Len(list) - 1) |-> IF j < k THEN list[j] ELSE list[j + 1]]

Unpin(list, f) ==
  IF IsInReplacer(list, f) THEN list ELSE <<f>> \o list

Victim(list) == list[Len(list)]

\* Mutant: the victim is not removed from the list.
AfterVictimKeeps(list) == list

AfterVictim(list) == [j \in 1 .. (Len(list) - 1) |-> list[j]]

-----------------------------------------------------------------------------
(* Helpers of the instance.                                                *)

FindPage(p) == IF p \in DOMAIN page_table THEN page_table[p] ELSE NoFrame

\* Mutant: the evicted or deleted page keeps its entry.
EraseNothing(table, p) == table

Erase(table, p) == [q \in DOMAIN table \ {p} |-> table[q]]
Put(table, p, f) ==
  [q \in DOMAIN table \cup {p} |-> IF q = p THEN f ELSE table[q]]

\* Mutant: the dirty test is inverted.
FlushPgWhenClean(page, p) ==
  IF page.is_dirty THEN disk ELSE WritePage(disk, p, page.data)

FlushPg(page, p) ==
  IF page.is_dirty THEN WritePage(disk, p, page.data) ELSE disk

\* What FindFreshPage leaves behind: the frame it returns, that frame's Page
\* and the structures it changed.
TakeFree ==
  LET f == Head(free_list)
  IN [frame_id |-> f, page |-> pages[f], free_list |-> Tail(free_list),
      wait_list |-> wait_list, page_table |-> page_table, disk |-> disk]

\* The victim's page is in page_table, so FlushPg finds the victim's own frame.
\* (After DeletePage it may be a frame without a page: FlushPg then reads the
\* flag of pages_[-1], and whatever that is, a write at page -1 fails.)
Evict ==
  LET f == Victim(wait_list)
      p == pages[f].page_id
  IN [frame_id |-> f, page |-> [pages[f] EXCEPT !.is_dirty = FALSE],
      free_list |-> free_list, wait_list |-> AfterVictim(wait_list),
      page_table |-> Erase(page_table, p), disk |-> FlushPg(pages[f], p)]

\* Mutant: the replacer is not asked for a victim.
NoFreeFrame == free_list = <<>>

NoFreshPage == free_list = <<>> /\ wait_list = <<>>
FindFreshPage == IF free_list # <<>> THEN TakeFree ELSE Evict

-----------------------------------------------------------------------------
\* Mutant: the constructor numbers the free frames from 1.
InitFromOne ==
  /\ pages = [f \in Frames |-> [page_id |-> INVALID_PAGE_ID, pin_count |-> 0,
                                is_dirty |-> FALSE, data |-> Zero]]
  /\ page_table = [p \in {} |-> NoFrame]
  /\ free_list = [i \in 1 .. pool_size |-> i]
  /\ wait_list = <<>>
  /\ next_page_id = instance_index
  /\ disk = <<>>
  /\ handle = [c \in Clients |-> NoHandle]
  /\ content = [p \in PageIds |-> Zero]
  /\ ret = [op |-> "none", page |-> INVALID_PAGE_ID, ok |-> TRUE]
  /\ flush = Idle

Init ==
  /\ pages = [f \in Frames |-> [page_id |-> INVALID_PAGE_ID, pin_count |-> 0,
                                is_dirty |-> FALSE, data |-> Zero]]
  /\ page_table = [p \in {} |-> NoFrame]
  /\ free_list = [i \in 1 .. pool_size |-> i - 1]
  /\ wait_list = <<>>
  /\ next_page_id = instance_index
  /\ disk = <<>>
  /\ handle = [c \in Clients |-> NoHandle]
  /\ content = [p \in PageIds |-> Zero]
  /\ ret = [op |-> "none", page |-> INVALID_PAGE_ID, ok |-> TRUE]
  /\ flush = Idle

Return(op, p, ok) == ret' = [op |-> op, page |-> p, ok |-> ok]

\* A change of page_table_ while FlushAllPgsImp iterates over it.
MayRace ==
  flush' = IF flush.on /\ page_table' # page_table
           THEN [flush EXCEPT !.raced = TRUE] ELSE flush

-----------------------------------------------------------------------------
(* NewPgImp and FetchPgImp.                                                *)

NewPgFails(c) ==
  /\ handle[c] = NoHandle
  /\ NoFreshPage
  /\ Return("NewPage", INVALID_PAGE_ID, FALSE)
  /\ UNCHANGED <<pool, handle, content, flush>>

NewPg(c) ==
  LET fresh == FindFreshPage
      f == fresh.frame_id
      p == next_page_id
  IN /\ handle[c] = NoHandle
     /\ p <= MaxPageId
     /\ ~ NoFreshPage
     /\ pages' = [pages EXCEPT ![f] =
                    [page_id |-> p, pin_count |-> fresh.page.pin_count + 1,
                     is_dirty |-> fresh.page.is_dirty, data |-> Zero]]
     /\ next_page_id' = next_page_id + num_instances
     /\ page_table' = Put(fresh.page_table, p, f)
     /\ free_list' = fresh.free_list
     /\ wait_list' = fresh.wait_list
     /\ disk' = fresh.disk
     /\ handle' = [handle EXCEPT ![c] = [page |-> p, frame |-> f, dirty |-> ~ CleanNew]]
     /\ content' = [content EXCEPT ![p] = Zero]
     /\ Return("NewPage", p, TRUE)
     /\ MayRace

\* A client asks for pages that were created.  Unless pages are written while
\* they are shared, it does not ask for one that its holder has changed.
MayFetch(c, p) ==
  /\ handle[c] = NoHandle
  /\ p \in Allocated
  /\ WriteShared \/ \A d \in Clients : handle[d].page = p => ~ handle[d].dirty

FetchPgHit(c, p) ==
  LET f == FindPage(p)
  IN /\ MayFetch(c, p)
     /\ f # NoFrame
     /\ wait_list' = Pin(wait_list, f)
     /\ pages' = [pages EXCEPT ![f] =
                    [page_id |-> p, pin_count |-> pages[f].pin_count + 1,
                     is_dirty |-> TRUE, data |-> pages[f].data]]
     /\ handle' = [handle EXCEPT ![c] = [page |-> p, frame |-> f, dirty |-> FALSE]]
     /\ Return("FetchPage", p, TRUE)
     /\ UNCHANGED <<page_table, free_list, next_page_id, disk, content, flush>>

FetchPgMiss(c, p) ==
  LET fresh == FindFreshPage
      f == fresh.frame_id
  IN /\ MayFetch(c, p)
     /\ FindPage(p) = NoFrame
     /\ ~ NoFreshPage
     /\ page_table' = Put(fresh.page_table, p, f)
     /\ wait_list' = Pin(fresh.wait_list, f)
     /\ free_list' = fresh.free_list
     /\ disk' = fresh.disk
     /\ pages' = [pages EXCEPT ![f] =
                    [page_id |-> p, pin_count |-> fresh.page.pin_count + 1,
                     is_dirty |-> FALSE,
                     data |-> ReadPage(fresh.disk, p, fresh.page.data)]]
     /\ handle' = [handle EXCEPT ![c] = [page |-> p, frame |-> f, dirty |-> FALSE]]
     /\ Return("FetchPage", p, TRUE)
     /\ UNCHANGED <<next_page_id, content>>
     /\ MayRace

FetchPgFails(c, p) ==
  /\ MayFetch(c, p)
  /\ FindPage(p) = NoFrame
  /\ NoFreshPage
  /\ Return("FetchPage", p, FALSE)
  /\ UNCHANGED <<pool, handle, content, flush>>

-----------------------------------------------------------------------------
(* A client writes through its Page*, whatever the frame holds by then.     *)

Write(c, d) ==
  /\ handle[c] # NoHandle
  /\ WriteShared \/ \A e \in Clients \ {c} : handle[e].page # handle[c].page
  /\ pages' = [pages EXCEPT ![handle[c].frame].data = d]
  /\ content' = [content EXCEPT ![handle[c].page] = d]
  /\ handle' = [handle EXCEPT ![c].dirty = TRUE]
  /\ Return("write", handle[c].page, TRUE)
  /\ UNCHANGED <<page_table, free_list, wait_list, next_page_id, disk, flush>>

-----------------------------------------------------------------------------
(* UnpinPgImp.  A client that wrote says so.                                *)

MayUnpin(c, is_dirty) ==
  /\ handle[c] # NoHandle
  /\ handle[c].dirty => is_dirty

UnpinPgFails(c, is_dirty) ==
  LET f == FindPage(handle[c].page)
  IN /\ MayUnpin(c, is_dirty)
     /\ IF f = NoFrame THEN TRUE ELSE pages[f].pin_count = 0
     /\ handle' = [handle EXCEPT ![c] = NoHandle]
     /\ Return("UnpinPage", handle[c].page, FALSE)
     /\ UNCHANGED <<pool, content, flush>>

UnpinPg(c, is_dirty) ==
  LET p == handle[c].page
      f == FindPage(p)
      page == [page_id |-> p, pin_count |-> pages[f].pin_count - 1,
               is_dirty |-> is_dirty, data |-> pages[f].data]
  IN /\ MayUnpin(c, is_dirty)
     /\ f # NoFrame
     /\ pages[f].pin_count # 0
     /\ pages' = [pages EXCEPT ![f] = page]
     /\ wait_list' = IF page.pin_count = 0 THEN Unpin(wait_list, f) ELSE wait_list
     /\ disk' = IF page.pin_count = 0 THEN FlushPg(page, p) ELSE disk
     /\ handle' = [handle EXCEPT ![c] = NoHandle]
     /\ Return("UnpinPage", p, TRUE)
     /\ UNCHANGED <<page_table, free_list, next_page_id, content, flush>>

-----------------------------------------------------------------------------
(* FlushPgImp, FlushAllPgsImp and DeletePgImp.                              *)

FlushEffect(p) ==
  LET f == FindPage(p)
  IN IF f = NoFrame THEN UNCHANGED <<pages, disk>>
     ELSE /\ disk' = FlushPg(pages[f], p)
          /\ pages' = [pages EXCEPT ![f].is_dirty = FALSE]

FlushPage(p) ==
  /\ "FlushPage" \in Ops
  /\ FlushEffect(p)
  /\ Return("FlushPage", p, FindPage(p) # NoFrame)
  /\ UNCHANGED <<page_table, free_list, wait_list, next_page_id, handle, content, flush>>

FlushAllBegin ==
  /\ "FlushAllPages" \in Ops
  /\ ~ flush.on
  /\ flush' = [on |-> TRUE, visited |-> {}, raced |-> FALSE]
  /\ UNCHANGED <<pool, handle, content, ret>>

\* Once the map changed under the iterator, the walk may go anywhere.
FlushAllStep(p) ==
  /\ flush.on
  /\ flush.raced \/ p \in DOMAIN page_table \ flush.visited
  /\ FlushEffect(p)
  /\ flush' = [flush EXCEPT !.visited = @ \cup {p}]
  /\ UNCHANGED <<page_table, free_list, wait_list, next_page_id, handle, content, ret>>

FlushAllEnd ==
  /\ flush.on
  /\ flush.raced \/ DOMAIN page_table \subseteq flush.visited
  /\ flush' = Idle
  /\ UNCHANGED <<pool, handle, content, ret>>

DeletePgFails(p) ==
  LET f == FindPage(p)
  IN /\ "DeletePage" \in Ops
     /\ f # NoFrame
     /\ pages[f].pin_count # 0
     /\ Return("DeletePage", p, FALSE)
     /\ UNCHANGED <<pool, handle, content, flush>>

DeletePg(p) ==
  LET f == FindPage(p)
  IN /\ "DeletePage" \in Ops
     /\ IF f = NoFrame
        THEN UNCHANGED <<pages, page_table, free_list>>
        ELSE /\ pages[f].pin_count = 0
             /\ page_table' = Erase(page_table, p)
             /\ pages' = [pages EXCEPT ![f] =
                            [page_id |-> INVALID_PAGE_ID, pin_count |-> 0,
                             is_dirty |-> FALSE, data |-> Zero]]
             /\ free_list' = Append(free_list, f)
     /\ Return("DeletePage", p, TRUE)
     /\ UNCHANGED <<wait_list, next_page_id, disk, handle, content>>
     /\ MayRace

-----------------------------------------------------------------------------
Next ==
  \/ \E c \in Clients :
       \/ NewPg(c) \/ NewPgFails(c)
       \/ \E p \in PageIds : FetchPgHit(c, p) \/ FetchPgMiss(c, p) \/ FetchPgFails(c, p)
       \/ \E d \in Data : Write(c, d)
       \/ \E b \in BOOLEAN : UnpinPg(c, b) \/ UnpinPgFails(c, b)
  \/ \E p \in Allocated : FlushPage(p) \/ FlushAllStep(p) \/ DeletePg(p) \/ DeletePgFails(p)
  \/ FlushAllBegin \/ FlushAllEnd

Spec == Init /\ [][Next]_vars

-----------------------------------------------------------------------------
(* Properties.                                                             *)

Holders(f) == {c \in Clients : handle[c].frame = f}

\* The types of the variables.
TypeOK ==
  /\ pages \in [Frames -> Page]
  /\ DOMAIN page_table \subseteq PageIds
  /\ page_table \in [DOMAIN page_table -> Frames]
  /\ free_list \in Seq(Frames)
  /\ wait_list \in Seq(Frames)
  /\ next_page_id \in Nat
  /\ disk \in Seq(Data)
  /\ handle \in [Clients -> Handle \cup {NoHandle}]
  /\ content \in [PageIds -> Data]
  /\ ret \in [op : Calls, page : PageIds \cup {INVALID_PAGE_ID}, ok : BOOLEAN]
  /\ flush \in [on : BOOLEAN, visited : SUBSET PageIds, raced : BOOLEAN]

\* page_table_ and the page_id_ fields of the frames are inverse to each other
\* on the resident pages, and a frame waits in free_list_ at most once, and
\* only while it holds no page.  Whatever operations clients use (DeletePage
\* included), no page is mapped to a frame that holds another one.
PageTableConsistent ==
  /\ \A p \in DOMAIN page_table : pages[page_table[p]].page_id = p
  /\ \A f \in Frames : pages[f].page_id # INVALID_PAGE_ID =>
       pages[f].page_id \in DOMAIN page_table /\ page_table[pages[f].page_id] = f
  /\ \A i, j \in 1 .. Len(free_list) : free_list[i] = free_list[j] => i = j
  /\ \A f \in Frames : f \in Range(free_list) <=> pages[f].page_id = INVALID_PAGE_ID

\* Without DeletePage every frame is in exactly one place: in free_list_, in
\* the replacer because nobody pins it, or pinned.
FramePartition ==
  /\ \A i, j \in 1 .. Len(wait_list) : wait_list[i] = wait_list[j] => i = j
  /\ \A f \in Frames :
       f \in Range(wait_list) <=> pages[f].pin_count = 0 /\ f \notin Range(free_list)
  /\ \A f \in Range(free_list) : pages[f].pin_count = 0

\* pin_count_ counts the pins clients hold on that frame, and the frame still
\* holds the page each of them asked for: a pinned page is never evicted.
PinsAccounted ==
  /\ \A f \in Frames : pages[f].pin_count = Cardinality(Holders(f))
  /\ \A c \in Clients : handle[c] # NoHandle =>
       pages[handle[c].frame].page_id = handle[c].page

\* NewPage and FetchPage return nullptr only when clients pin every frame.
NullOnlyWhenAllPinned ==
  ret.op \in {"NewPage", "FetchPage"} /\ ~ ret.ok =>
    \A f \in Frames : Holders(f) # {}

OnDisk(p) == IF p < Len(disk) THEN disk[p + 1] ELSE Zero

\* A page that is not resident has its last written content in the file.
NoLostWrite == \A p \in Allocated \ DOMAIN page_table : content[p] = OnDisk(p)

\* A page that no client pins has its last written content in the file, even
\* while it is resident: a crash loses only what somebody was working on.
UnpinnedIsDurable ==
  \A p \in Allocated : (\A c \in Clients : handle[c].page # p) => content[p] = OnDisk(p)

\* A client that pins a page sees what was last written to that page.
PinnedPageCoherent ==
  \A c \in Clients : handle[c] # NoHandle =>
    pages[handle[c].frame].data = content[handle[c].page]

(* The pool implements the page store: residency, eviction and the file are *)
(* invisible to clients that write pages alone and unpin new pages dirty.   *)
Visible(p) ==
  IF p \in DOMAIN page_table THEN pages[page_table[p]].data
  ELSE OnDisk(p)

Store == INSTANCE PageStore WITH
  PageId <- PageIds, Client <- Clients, None <- INVALID_PAGE_ID,
  store <- [p \in PageIds |-> IF p \in Allocated THEN Visible(p) ELSE INVALID_PAGE_ID],
  held <- [c \in Clients |-> handle[c].page]

\* Every behaviour of the pool, seen through Visible and the pages clients
\* hold, is a behaviour of the page store: only a client's own write changes
\* what a page contains.
ImplementsPageStore == Store!Spec
=============================================================================
