# A TLA+ model of BusTub

BusTub is a teaching database system: a disk-oriented storage manager with a
buffer pool, an extendible hash index, a lock manager with wound-wait, and an
iterator-style execution engine.  This directory holds TLA+ specifications of
its storage, concurrency, types and execution, translated from the code under `src/`, the TLC configurations that
check them and TLAPS proofs of the main invariants.  All paths below are
relative to `src/` of the repository (the code proper is in `src/src/`, its
tests in `src/test/`).

## Inventory

| Component | State | Operations | Interacts with |
|---|---|---|---|
| Buffer pool instance (`buffer/buffer_pool_manager_instance.cpp`) | `pages_`, `page_table_`, `free_list_`, `next_page_id_`, one mutex | NewPage, FetchPage, UnpinPage, FlushPage, FlushAllPages, DeletePage | calls the replacer and the disk manager under its mutex; hands out `Page*` that callers read and write without it |
| LRU replacer (`buffer/lru_replacer.cpp`) | `wait_list_`, `page2iter_` | Victim, Pin, Unpin, Size | called by the pool only |
| Disk manager (`storage/disk/disk_manager.cpp`) | database file, log file | ReadPage, WritePage, WriteLog, ReadLog | called by the pool; nobody calls the log functions |
| Parallel pool (`buffer/parallel_buffer_pool_manager.cpp`) | instances, `last_alloc_index_` (unprotected) | the pool's operations, routed by page id; NewPage round robin | calls the instances |
| Reader-writer latch (`include/common/rwlatch.h`) | `reader_count_`, `writer_entered_`, two condition variables | RLock, RUnlock, WLock, WUnlock | every page, the hash table, the transaction manager |
| Lock manager (`concurrency/lock_manager.cpp`) | `lock_table_` of request queues with counters | LockShared, LockExclusive, LockUpgrade, Unlock | sets the state of other transactions (wound); called by the transaction manager and the tests: no executor takes a lock |
| Transaction manager (`concurrency/transaction_manager.cpp`) | `txn_map`, next id, global latch; per transaction: state, lock sets, write sets | Begin, Commit, Abort, BlockAllTransactions | table heap and indexes for roll back, lock manager to release |
| Extendible hash table (`container/hash/extendible_hash_table.cpp`, directory and bucket pages) | directory, buckets, `table_latch_` | GetValue, Insert, SplitInsert, Remove, Merge | pages from the pool, page latches |
| Table heap (`storage/table`, `storage/page/table_page.cpp`) | chain of slotted pages | InsertTuple, MarkDelete, UpdateTuple, ApplyDelete, RollbackDelete, GetTuple, iterator | pool, page latches, write sets |
| Executors (`execution/`), plans, expressions | per-operator cursors and hash tables; the engine's one tuple | constructor, Init, Next; Execute drives them | table heap, catalog, indexes, values |
| Catalog, schemas, index wrappers (`include/catalog`, `storage/index`) | name/oid maps | CreateTable, CreateIndex, lookups | table heap, hash table |
| Type system (`type/`) | none | arithmetic, comparison, casts (implemented twice), serialisation, hashing | used by expressions, tuples and index keys |
| Header page, clock replacer, matrix primer | small local state | | tests only |
| Logging, recovery, checkpoints, B+ tree | | | stubs with empty bodies |

What is hard in it: the pool's pages are shared by threads that hold pins and
not the pool's latch; the latch is built from condition variables; the lock
manager takes locks back from running transactions; the hash table releases
its latch between finding that a split or merge is needed and doing it; the
parallel pool has an unprotected shared index.  In the sequential half it is the
boundaries: NULL is the least number of a type and equals nothing, integers of
four widths meet in one operation, a statement changes the table it scans, and
all calls of Next share one tuple.  Nothing is logged, so there is
no crash recovery to verify; durability means "written to the file when the
last pin is gone" (`UnpinnedIsDurable`).

What correctness means, by component: the pool behaves as a store of pages,
residency and eviction invisible, and never evicts a pinned page; the latch is
a reader-writer lock without lost wake-ups; lock queues, lock sets and counters
agree, locking is two-phase, exclusive locks are exclusive, nobody waits in a
circle; the parallel pool finds each page in one instance and refuses only when
all do; the hash table is a set of pairs with atomic calls and its directory
passes the code's own `VerifyIntegrity` (which the code keeps, and the runs show,
only until a bucket that more than two directory entries share is split); slotted
pages keep their tuples in place and Abort restores what was committed; arithmetic,
comparison and casts give what the numbers give, up to the rounding of doubles, or
are refused; a tuple reads back what was written; a plan returns, or leaves in the
tables, what its relational meaning says, and the indexes follow the tables.  Where
the code falls short of this the properties say so, and the disagreements are listed
below.

## Modules

| Module | What it is |
|---|---|
| `PageStore` | abstract: pages with contents, held by clients |
| `BufferPool`, `MCBufferPool` | the pool instance with its replacer and the database file |
| `BufferPoolProofs` | TLAPS proofs about `BufferPool`: its structures, and its contents with the refinement of `PageStore` |
| `BufferPoolArithmetic` | lemmas on remainders, for the pool and the parallel pool |
| `RWLock` | abstract: a set of readers or one writer |
| `RWLatch`, `MCRWLatch` | the latch, wait by wait |
| `RWLatchProofs` | TLAPS proofs about `RWLatch`, the refinement of `RWLock` included |
| `LockManager`, `MCLockManager` | lock manager and the lock release of Commit and Abort |
| `LockManagerProofs` | TLAPS proofs about `LockManager` |
| `ParallelBufferPool`, `MCParallelBufferPool` | routing and the NewPage walk over instances that behave as `BufferPool` proves |
| `ParallelBufferPoolProofs` | TLAPS proofs about `ParallelBufferPool` |
| `Multimap` | abstract: a set of key-value pairs with atomic calls |
| `ExtendibleHash`, `MCExtendibleHash` | hash table, directory page and bucket pages |
| `TableHeap`, `MCTableHeap` | table heap, slotted pages, iterator and the write sets of transactions |
| `TableHeapProofs` | TLAPS proofs about `TableHeap` |
| `Values` | the types: constructors, casts, comparisons, arithmetic, ValueFactory, hashing (operators) |
| `Tuples` | schemas, the byte layout of a tuple, index keys (operators, over `Values`) |
| `ValueOps`, `MCValueOps` | values at work: rows are built and read, operations chained |
| `ValueOpsProofs` | TLAPS proofs about `ValueOps`, and with it about `Values` and `Tuples` |
| `Plans` | plan nodes and expressions (operators, over `Values`) |
| `Executors`, `MCExecutors` | the executors under the engine's loop, catalog and indexes; the reference answers of plans |
| `ExecutorsProofs` | TLAPS proof that indexes follow tables |

**BufferPool.** Each operation holds `latch_` from start to end, so it is one
action; early returns are actions of their own (`NewPgFails`, `FetchPgFails`,
`UnpinPgFails`, `DeletePgFails`).  `FlushAllPgsImp` does not take the latch
around its loop: it is `FlushAllBegin`, one `FlushAllStep` per page and
`FlushAllEnd`; once another thread changed the map under its iterator
(`flush.raced`) the code is undefined and the walk may flush any page or end at
any time.  A *client* is one pin: it holds a frame, writes to it whatever the
frame contains by then (`Write`), and unpins, saying "dirty" if it wrote.  The
file is a sequence; writing behind its end fills the hole with zeros, reading
behind it leaves the buffer alone, as `DiskManager` does.  `content` is a ghost:
what was last written through any pin.  `WriteShared` and `CleanNew` select the
clients' discipline: with both FALSE a client writes a page only while it is
the only one to pin it and unpins a page it created as dirty, as the table heap
and hash table do for the pages they fill (the constructor of the hash table unpins
its two empty buckets as not dirty, `extendible_hash_table.cpp:47`).

**RWLatch.** A thread is idle, waiting in `RLock`, waiting to enter in `WLock`,
draining readers in `WLock`, reading or writing.  `awake` are the threads in
`wait()` that were notified (or woke spuriously) and have not yet got the mutex.

**LockManager.** A call up to its `cv_.wait` is one action, what follows the
wait another (`Wake`).  `MustWait` is the test before the wait, `KeepsWaiting`
the negated predicate of the wait: they differ once `sharing_count_` is
negative, which wounds make possible.  `wounds` is a ghost that records whether
`DeadlockPrevent` ever found a victim.  Commit and Abort take the latch once per
lock, so `ReleaseLock` is one action per lock.

**ParallelBufferPool.** An instance is reduced to what `BufferPool` promises
(`NullOnlyWhenAllPinned`).  `NewPgImp` is split at every access to
`last_alloc_index_`, the read and the write of its increment included.  `disturbed`
is a ghost: the threads under whose walk another thread wrote that field.

**ExtendibleHash.** GetValue, Insert and Remove hold the table latch for reading
and one bucket latch: one action each.  SplitInsert and Merge hold it for
writing; one round of their loops is one action.  Slots keep the difference
between *removed* and *never used*, because scans stop at the latter.  Pages
that no directory entry names any more are reused as new pages (the code never
deletes them).  `wide` is a ghost that turns true when a bucket that more than two
entries share is split: the code redirects two of them
(`extendible_hash_table.cpp:168-176`) and leaves the others on the old page at the
old depth.  From there on the directory is broken: the assertions of the code's
`VerifyIntegrity` (`hash_table_directory_page.cpp:83-124`) fail, pairs are no longer
found under their keys, and the table is no multimap.  A behaviour is followed up to
that step, and the properties are stated up to it.

**TableHeap.** What a call does to one page, under that page's latch, is one
action: InsertTuple goes from page to page (`InsertGoOn`) until it inserts, or
appends a page, or is refused one.  A page is its slot array, its free space
pointer and its bytes; `memmove` and `memcpy` are applied to the bytes as the code
applies them, and only the bytes of the free space, which nothing reads, are
blanked.  Commit and Abort work the write set off from its end, one record per
action.  Logging is off, so the heap takes no locks: as the lock manager would
see to, a transaction does not touch a record another one has written.
`Checked` says whether clients look at a record before they change it,
`MayShrink` whether updates may shorten tuples.  A scan is Begin page by page,
the iterator's construction, and operator++ page by page; `scan.must` is what it
has to return yet.  Begin unpins a page before it reads the page's next id from the
frame (`table_heap.cpp:183-187`), so `BeginNextPage` has three outcomes: the frame
still holds the page, it holds another page of the table (the scan goes on at any
page of the table), or something else (the scan is astray).  In the last two the scan
owes nothing any more, and `ScanSeesAll` says so.  FetchPage is taken to succeed, so
the paths on which it returns nullptr (of UpdateTuple in Abort, for one) are left
out.  `committed` is a ghost: the tuple each record id held when it
was last committed.

**Values, Tuples, ValueOps.** A value is its type and its payload; NULL is derived
from the payload as the constructors derive it.  The widths of the integer types
are constants, so that TLC covers them to their limits; results wrap in the type
C++ computes in.  A double is a whole number of units that the constant `Double`
leaves as it is.  `Double` stands for rounding to the nearest double, and
`DoubleAssumption` says what is used of it: it keeps the order, is the same on both
sides of zero, leaves doubles as they are, and every int32_t is one, while INT64_MAX
is rounded to 2^63.  Integers are rounded when they are converted (a BIGINT compared
with a DECIMAL, `decimal_type.cpp:31`), and results of operations on doubles are
rounded.  An exception is the result of the operation that
threw it.  `IntegerArithmeticOf`, `CastInteger`, `CompareNumber` and `FactoryCast`
are what the macros and the nearly identical methods of the integer types share;
each type instantiates them with what differs.  A tuple is the list of writes its
constructor makes, with place and length, so that a size or an offset that is
wrong shows as an overwritten column or a write outside the tuple.  `ValueOps`
chains the operations: what one returns is an operand of the next.

**Plans, Executors.** One transaction executes statements, one after the other, as
`ExecutionEngine::Execute` does: `Execute` is the constructor and Init, then every
action is one call of the executor's Next, or one turn of the loop inside it.  The
rows of tables are sequences of values; record ids are positions, and a deleted
row stays as a marked slot.  A scan holds the record its iterator has read ahead.
Where the code reads a bool from a NULL both outcomes are possible.  The engine's
tuple is a variable of its own, because HashJoin reads it back.  A modification
may be refused by the heap at any row (no room, no frame); then Next returns false
and Execute returns true.  A NULL group key reads past the end of a vector: status
"crashed".  An exception in a constructor is outside the engine's try: status
"uncaught".  The second half of the module is a reference: what each plan means
over the tables as they were when the statement started (`before`).  `QueryAnswer`
asks less than the documentation promises in four cases, named in its comments: a
refused modification (nothing is asked of the value returned), DISTINCT over rows with
a NULL, aggregation over a NULL group key or with a SUM that overflows, and a hash
join in which a right row meets two left rows.  An INSERT ... SELECT into the table
that it scans is left out by `PlansAssumption`, since it need not end.

## Runs

| Run | Expectation | What it shows |
|---|---|---|
| `bp_store` | pass | instance 1 of 2, two frames, three pages, three pins: structures consistent, pinned pages stay, `nullptr` only when all frames are pinned, unpinned pages durable, the pool implements `PageStore` |
| `bp_delete` | pass | with DeletePage and FlushAllPages the page table and free list stay consistent |
| `bp_lost_write` | violation | a reader's `UnpinPage(p, false)` clears the writer's dirty mark; the write is lost |
| `rw_latch` | pass | exclusion, bookkeeping, no lost wake-up, refinement of `RWLock`, writers proceed, waiters are served |
| `lm_locks` | pass | queues match lock sets, two-phase locking for all three isolation levels, and, until the first wound, counters, exclusion and notifications |
| `lm_deadlock` | violation | a younger transaction is granted a shared lock beside a reader, past an older writer that waits, and then waits for that writer: a wait cycle nobody breaks |
| `pbp_pool` | pass | two threads that both create and fetch pages: routing; `nullptr` only after all instances refused, unless the other thread moved `last_alloc_index_` under the walk; some call of NewPage always gets to its end |
| `eht_table` | pass | two threads, four keys with one value each, up to eight directory entries: until a bucket shared by more than two entries is split, the directory is intact, every pair reachable, nothing unlinked, the table implements `Multimap`, the loops end |
| `heap_table` | pass | two transactions and a scan: slotted pages in order, records nobody is writing are as last committed, Commit and Abort find what they apply, scans miss nothing that stays, unless Begin read the next page id from a reused frame |
| `val_types` | pass | integer arithmetic exact or refused for all pairs of widths, comparisons and Min/Max in the order of the numbers (exact unless a BIGINT is rounded to a double), casts exact and the same in both implementations, tuples read back and stay in their bytes |
| `exec_plans` | pass | every executor returns or leaves what its plan means, but for the exceptions above, indexes follow tables also after a statement that ended early, Execute returns |
| `exec_hash_join` | violation | a right row that meets two left rows: the second output row has other right columns |

**Bounds.** `MaxPageId` bounds page ids: three pages and two frames make
eviction, refetch and a full pool happen; three clients cover two sharers plus
a competitor.  `bp_delete` needs no contents (one datum) since it is about the
structures.  Three threads cover a holder, a draining writer and a waiter.
`MAX_READERS` is 3, as many as there are threads: no reader ever waits at the limit
in this run.  In the code the limit is 2^32 - 1, beyond any number of threads; with
more readers than `MAX_READERS` `NoLostWakeup` would not hold, since the latch wakes
one reader per release.  Three transactions, one per isolation level, and two
records are enough for wounds, upgrade conflicts and overtaking.  Two instances with
one frame each make NewPage walk, wrap around and be refused, while the other thread
does the same.  `MaxDepth` bounds the directory: 3 in `eht_table` (eight entries, the
directory grows and shrinks); `Room` keeps clients from inserting more colliding
keys than the deepest bucket can hold, where the code would overrun its array, so the
overflow of a bucket at the greatest depth does not happen.  Keys 1 and 5 separate
only at depth 3 and keys 0 and 2 at depth 2; a bucket has two slots, each key one
value.  With them a bucket comes to be shared by four entries and is split, where
`wide` ends the behaviour (hence `CHECK_DEADLOCK FALSE`).

`heap_table` has pages with room for two tuples, tuples of one and two bytes and
one that fits in no page (header and slot entry count one byte each), two pages
and four writing calls: enough for a second page, a refused page, slot reuse, and
an update or removal that moves a neighbour.

`val_types` has widths 2^2, 2^3, 2^6 and 2^7 (halves; two SMALLINTs multiply within
an INTEGER as in the code, an INTEGER times an INTEGER does not fit a BIGINT), the
limits, zero and NULL of every type and small numbers as literals, doubles that are
coarser than the BIGINTs near 2^7 with literals on both sides of a rounded one, and rows of three
columns, so that a text lies before and behind another column.  Chains of operations
need no bound: values repeat.

`exec_plans` has two tables with up to three rows: empty ones, a key twice, NULL keys
and values, a BIGINT joined with an INTEGER, and sums that overflow (INTEGER is
-16 .. 15).  `MaxStatements` is two: a modification followed by a query or another
modification, with CreateTable and CreateIndex before, between and after.

**Fairness.** `rw_latch`: weak fairness of a notified thread getting the mutex
and of holders releasing; `WaitersServed` is further conditioned on no new
requests, because the mutex promises no order.  `pbp_pool` and `eht_table`:
weak fairness of the thread inside the call, which needs nothing but the
processor.  Under it a single call of NewPage need not return in `pbp_pool`: when the
other thread moves `last_alloc_index_` each time the walk is about to end, the walk
goes on for ever, so `SomeCallReturns` says that this call or another one ends.  `exec_plans`: weak fairness of the engine's loop, which runs on the
caller's thread and waits for nobody.  No fairness elsewhere; `CHECK_DEADLOCK FALSE` is set where all
transactions may be done, the page ids are used up, the statements executed, or the
hash table came to a wide split.

## Proofs

The theorems hold for every value of the constants: any number of frames, pages,
instances, threads, transactions, records, any page size, any tables and plans, any
widths of the number types.
What they assume is named: the `ASSUME`s of the component modules
(`PoolAssumption`, `LatchAssumption`, `LockAssumption`, `ParallelAssumption`,
`HeapAssumption`, `PlansAssumption`, `WidthAssumption`, `DoubleAssumption`,
`OperandsAssumption`, `WordsAssumption`), which TLC evaluates on every run, and the hypotheses that stand
in the theorems and are named below.

| Module | Theorems | Inductive invariant |
|---|---|---|
| `BufferPoolProofs` | `TypeCorrect`, `PageTableAlwaysConsistent`, `FramesPartitioned`, `PinnedPagesStay`, `NullMeansAllPinned`, `UnpinnedPagesDurable`, `PinnedPagesCoherent`, `PoolImplementsStore` | `TableInv`, `PinInv`, `DataInv` over `PinInv` |
| `BufferPoolArithmetic` | lemmas on remainders and multiples | |
| `RWLatchProofs` | `TypeCorrect`, `WriterIsAlone`, `FieldsDescribeHolders`, `WakeupsNotLost`, `LatchImplementsLock` | `LatchInv` |
| `LockManagerProofs` | `TypeCorrect`, `QueuesMatchSets`, `CountersExact`, `ExclusiveLocksExclude`, `NoSleeperForgotten`, `LocksAreTwoPhase` | `LockInv` |
| `ParallelBufferPoolProofs` | `PagesHaveOneHome`, `NullAfterFullWalk` | `RoutingInv`, `WalkInv` |
| `TableHeapProofs` | `PagesStayLaidOut`, `ScansSeeAll`, `DeletedTuplesAreThere`, `CommittedTuplesStay` | `HeapInv`, `ScanInv`, `ClaimInv`, `ViewInv` over `ClaimInv` |
| `ValueOpsProofs` | `ValuesAreTyped`, `ArithmeticIsExact`, `ComparisonsKeepOrder`, `CastsAreExact`, `TuplesReadBack` | `ValuesInv` |
| `ExecutorsProofs` | `IndexesFollowTables` | `IndexInv` |

*BufferPoolProofs.* `TypeCorrect` and `PageTableAlwaysConsistent` hold for all
operations.  `PageTableConsistent` is proved together with the type invariant:
that a frame is in the free list exactly when it holds no page is needed to know
that the frame NewPage takes from it is not mapped, and that the free list has
no duplicates to know that the rest of it is not affected.  `FramesPartitioned`,
`PinnedPagesStay` and `NullMeansAllPinned` assume that DeletePage is not among
the operations, as they must: DeletePage leaves the frame in the replacer (see
below).  The inductive
invariant `PinInv` adds to the page-table part: the replacer has no duplicates
and holds exactly the unpinned resident frames, and the pin count of a frame is
the number of handles on it, each of which still names the frame's page.
Counting is done by lemmas on `Holders(f)`, one each for taking and returning a
handle.

The theorems on contents are proved under `Discipline`: no DeletePage, no two
clients that write one page at a time, and new pages unpinned as dirty.  Each part
is needed (the first and second are disagreements listed below, the third is the
unwritten new page), and the table heap and hash table keep to it for the pages they
fill.  `DataInv` says, page by page, where the last written contents are: in the
frame of a resident page, and in the file unless some pin holder has written since.
The evicted frame is the step that needs both halves: the victim is unpinned, hence
on disk, hence may be overwritten.  The file is a sequence that grows with holes of
zeros, so lemmas say what a page of it is after a write inside it and behind its
end.  `PoolImplementsStore` maps contents to what a client would see and handles to
the pages held; eviction, flushing and misses are stuttering steps.  It also
assumes that INVALID_PAGE_ID is not among the contents `Data`, because the mapping
uses it for the contents of a page that does not exist yet.

*RWLatchProofs.* `LatchInv` joins types, exclusion and `FieldsAccounted`;
exclusion alone is not inductive, since it is `writer_entered_` that keeps
readers out while the writer drains, and `reader_count_ = 0` that lets it in.
`LatchImplementsLock` maps readers and writers to the threads at those places;
draining and waiting are stuttering steps.  `WakeupsNotLost` needs fewer threads
than `MAX_READERS`, which in the code is 2^32 - 1.

*LockManagerProofs.* `LockInv` describes the queue of a record by three sets of
transactions (`Matches`: the sharers, the writers, the waiters, one request each),
and each operation on a queue by what it does to these sets.  It says further how
the phase of a call and the state of a transaction go together (`StateOK`), and,
as long as there was no wound, that counters and flags describe the sets and
that nobody sleeps whose predicate is true (`Calm`).  A lock call is proved in the
pieces the code has: the request, `DeadlockPrevent` over the queue with its wounds,
the test before the wait, and the settling of the request, which the wake-up
shares.  `CountersExact`, `ExclusiveLocksExclude` and `NoSleeperForgotten` are about
behaviours up to the first wound because the code keeps them no longer (see below);
`QueuesMatchSets` and `LocksAreTwoPhase` hold throughout.

*ParallelBufferPoolProofs.* `PagesHaveOneHome`: the ids an instance has handed out,
and its next one, have the instance's index as remainder, since ids grow by the
number of instances.  It holds for any number of creating threads.
So does `NullAfterFullWalk`, which is about the walks no other thread disturbed:
`WalkInv` says that such a walk has asked the instances from where it started up to
where it is, round the end, and that `last_alloc_index_` is still where it left it, so
that being back at it means all.  A disturbed walk may end early (see below).

*TableHeapProofs.* `HeapInv` states the layout of each page slot by slot (`Inside`,
`Apart`, `Covered`), the chain of the pages, that a call under way is on a page of
the table and that write records name slots that exist.  Insertion is a tuple below
the free space pointer; update and removal are one lemma (`ShiftedOK`): one tuple
changes its length and the tuples below it move by the difference.  The proof needs
that the header is not larger than a page (in `HeapAssumption`).  `ScanInv` says
that what a scan must still return is live and ahead of the iterator; slots never
move between pages and pages are chained in the order of their creation, so nothing
that stays can get behind it.  When Begin follows the next id of a reused frame the
scan may start anywhere in the table, and `ScansSeeAll` claims nothing of what it
returns.  `DeletedTuplesAreThere` assumes `Checked`: the code of
MarkDelete does not look whether the record is already marked.  `ClaimInv` is why
Commit and Abort find their tuples: a transaction *answers for* the records in its
write set (while committing, for its deletions only), these have tuples, no two
transactions answer for one, deletions are marked and the last write to their
record, insertions the first.

`CommittedTuplesStay` is about bytes, and assumes `Checked` and that no update makes a
tuple shorter: without either it is false (see below).  `ViewInv` says that a
record for which no transaction answers reads as committed, and that for the others
the first write record of the transaction to it remembers what was committed:
nothing before an insertion, the saved tuple of an update, the bytes below the mark
of a deletion.  It also says that a saved tuple is never longer than what is in the
slot, which is what Abort needs in order to put it back and why updates may only
lengthen a tuple.  The steps rest on lemmas on the bytes of a tuple through the
`memmove` of its neighbours, from the layout that `HeapInv` provides.

*ExecutorsProofs.* `IndexFollowsTable` holds at every step, also between the rows of
a modification and after one that was refused.  `IndexInv` adds that slots are rows
with a mark, that every index is on a table of the catalog, and that the
tables of the plan under way exist.  `PlansAssumption`
says of the plans that the child scan of an Update or Delete outputs the key columns
of the table's indexes at their own places, because the executors compute the old
key from the child's row; the plans of the tests do.  (Its last conjunct, on INSERT,
is for `Terminates`; the proof does not use it.)

*ValueOpsProofs.* Values need an invariant although their operations are pure: that
arithmetic is exact of `acc` is known only if `acc` is a number of its type, so
`ValuesInv` says that whatever was loaded or computed is one (`WellTyped`), and every
operation is shown to return such a value or to throw.  `ArithmeticIsExact` goes through the
templates of `IntegerParentType`: what is computed in the promoted type is either
exact there, and then surviving the cast back means fitting, or has wrapped, and then
the sign test (the division, for a product) detects it; that is where the widths
matter (`WidthAssumption`: two SMALLINTs multiply within an INTEGER, as 16 and 32 bits
do).  `ComparisonsKeepOrder` holds for every rounding that `DoubleAssumption` allows:
two numbers are compared either as they are or both rounded, since a DECIMAL is its
own double, and rounding keeps the order, so a comparison may find two numbers equal
that rounding made one, and never reverses them.  `CastsAreExact` uses that a double
between the limits of BIGINT as doubles is between the limits, or one of -2^63 and
2^63, both of which become NULL.  It compares the two implementations of a cast case by case and
shows that a numeral reads back through VARCHAR.  `TuplesReadBack` holds for rows of
any number of columns: the offsets of columns and texts are running sums, so each
write lies behind those before it, in the fixed part or behind it; the functions that
`Tuples` defines by recursion are shown to exist and to be these sums by taking the
least column at which they would not be.  `OperandsAssumption` says that literals and
stored values are values that the constructors make; `WordsAssumption` only that the
words have a length, since the provers do not look into strings.

*Only model-checked:*

- the liveness properties `WaitersServed`, `SomeCallReturns`, `LatchReleased` and
  `Terminates`, since fairness is outside the reach of the proof system;
- ExtendibleHash: `VerifyIntegrity` holds up to a wide split only, and so do
  `PairsReachable` and the refinement of `Multimap`, which rest on it; no theorem
  is stated about them;
- `QueryAnswer` of Executors, whose reference answers are folds over the rows, hence
  induction over data.

## Where the code and its documentation disagree

Three are shown by runs and listed under `findings`: the dirty mark
(`bp_lost_write`), the wait cycle (`lm_deadlock`) and the right columns of a hash
join (`exec_hash_join`).

TLC shows these too, with the constants given, though no run is kept for them:

- DeletePage leaves the frame in the replacer; NewPage takes it from the free list
  without Pin, and a later Victim returns it while it is pinned (`PinsAccounted` with
  "DeletePage" in `Ops` of `bp_store.cfg`).
- A victim wounded twice, or that unlocks after its wound, clears `is_writing_` of
  the new owner: two transactions own a record (`ExclusiveUntilWound` is stated up to
  the first wound for this reason).
- SplitInsert redirects two of the entries of a bucket that four or more share
  (`extendible_hash_table.cpp:168-176`), so the code fails the assertions of its own
  `VerifyIntegrity` (`hash_table_directory_page.cpp:83-86`, 106 and 124), and with it
  the table is no set of pairs any more.  `eht_table` reaches such splits with
  `MaxDepth = 3`; without `wide` in them, `VerifyIntegrity`, `PairsReachable` and
  `ImplementsMultimap` are violated.
- The end of a NewPage walk is compared with `last_alloc_index_`, which other threads
  bump: the walk may end early, with `nullptr` although an instance has room, or go on
  for ever while others keep moving its end (`AllAskedBeforeNull` without `disturbed`,
  and that every call returns, are violated in `pbp_pool`).
- INSERT ... SELECT into the table it scans (`insert_executor.cpp:43`): the scan goes on
  to the rows that were inserted, and once a second row follows the first that it keeps
  the statement does not end (`Terminates`, with such a plan).
- With `MayShrink = TRUE`, `heap_table.cfg` violates `CommittedView` (Abort cannot put
  the longer tuple back); with `Checked = FALSE`, `CommittedView` and
  `ApplyFindsTuple` (a record deleted twice).

Met while modelling, and described rather than ruled out by the properties: an
aborted upgrade leaves `upgrading_` set; a transaction can be wounded after it set
COMMITTED; SplitInsert marks the directory page dirty only when the directory grew;
a new page that was never unpinned dirty and is fetched back after eviction shows
what its frame contained before; a NULL text makes a tuple one byte too short; an
exact result that equals the NULL number becomes NULL; the DECIMALs -2^63 and 2^63
pass the check for BIGINT and become NULL; a BIGINT compares equal to the doubles it is rounded
to; a text compares with a number differently on the left and on the right; Begin may
follow the next page id of another page than the one it left; Abort does not take
index entries back.  Against a documented promise:

- `execution_engine.h:49` says that Execute returns "`true` if execution of the query
  plan succeeds, `false` otherwise".  A modification that the table refuses ends the
  statement and returns true; a SUM that overflows in the constructor of the
  aggregation leaves Execute as an exception; a NULL group key reads outside a vector.
- `distinct_executor.h:59` says that DISTINCT "removes duplicate rows"; rows with a
  NULL are returned every time.

## Not modelled, and the plan

Not modelled, with reasons in `PROJECT.json`: clock replacer, header page and matrix
primer (used by their tests only), logging, recovery, B+ tree and index scans
(stubs without behaviour), the table generator.  Of modelled parts: TIMESTAMP (the
table of types has no entry for it, so no operation reaches it), rounding beyond the
greatest double (infinities), names and oids of the catalog as different things, plans deeper than a
node over scans, executors of concurrent transactions (they take no locks, so their
interleavings are those of `TableHeap`).

The map covers about a third of the code lines under `src/src`: most of the
buffer, concurrency, hash table, table heap, type and execution code.  The rest is
mostly B+ tree pages, headers without behaviour, the table generator and the stubs.

Plan:

1. Proofs: nothing that a run checks as an invariant is left but `QueryAnswer` and what
   is built on `VerifyIntegrity`, which stay with TLC for the reasons above.
2. Composition of `TableHeap`'s page latches with `RWLatch` (operator++ takes a
   latch it holds), and of `ExtendibleHash` with `BufferPool`: what its unpin flags do.
3. Small parts: clock replacer, header page, matrix primer.
