--------------------------- MODULE ExtendibleHash ---------------------------
(***************************************************************************)
(* ExtendibleHashTable (src/container/hash/extendible_hash_table.cpp) with  *)
(* its directory page and its bucket pages (src/storage/page/               *)
(* hash_table_directory_page.cpp, hash_table_bucket_page.cpp).              *)
(*                                                                         *)
(* GetValue, Insert and Remove hold table_latch_ for reading and latch the  *)
(* one bucket they use, so each of them is one action.  SplitInsert and     *)
(* Merge, to which Insert and Remove hand over after they gave the latch    *)
(* up, hold table_latch_ for writing: nothing else runs meanwhile, and one  *)
(* turn of their loop is one action.  Pages are those of module PageStore:  *)
(* the pool has a frame for every page the table uses.                     *)
(***************************************************************************)
EXTENDS Integers, FiniteSets

CONSTANTS
  Keys, Values,
  Hash,               \* the 32-bit hash of every key
  BUCKET_ARRAY_SIZE,  \* pairs a bucket page has room for
  MaxDepth,           \* bound: DIRECTORY_ARRAY_SIZE is 2^MaxDepth (2^9 in the code)
  Threads, NoThread

ASSUME HashAssumption ==
  /\ Hash \in [Keys -> Nat]
  /\ BUCKET_ARRAY_SIZE \in Nat \ {0}
  /\ MaxDepth \in Nat \ {0}
  /\ NoThread \notin Threads

VARIABLES
  dir,     \* the directory page
  bucket,  \* the bucket pages
  latch,   \* the thread that holds table_latch_ for writing
  call,    \* what each thread is doing
  ret,     \* what the last step returned, and to which thread
  wide     \* a bucket shared by more than two directory entries was split

\* wide is a ghost: only a bound reads it.
vars == <<dir, bucket, latch, call, ret, wide>>

\* One page more than the directory can name, so that a fresh one exists.
Pages == 0 .. 2 ^ MaxDepth
Slots == 1 .. BUCKET_ARRAY_SIZE

\* A slot holds a pair (readable), held one (occupied), or never did.
Never == <<>>
Removed == <<"removed">>
EmptyBucket == [i \in Slots |-> Never]

Idle == [at |-> "idle"]

Init ==
  /\ dir = [global_depth |-> 1,
            local_depths |-> [i \in 0 .. 1 |-> 1],
            bucket_page_ids |-> [i \in 0 .. 1 |-> i]]
  /\ bucket = [p \in Pages |-> EmptyBucket]
  /\ latch = NoThread
  /\ call = [t \in Threads |-> Idle]
  /\ ret = <<>>
  /\ wide = FALSE

-----------------------------------------------------------------------------
(* HashTableBucketPage.                                                    *)

Readable(b) == {i \in Slots : b[i] \notin {Never, Removed}}
NumReadable(b) == Cardinality(Readable(b))
IsFull(b) == NumReadable(b) = BUCKET_ARRAY_SIZE

\* Mutant: a bucket with one pair passes for empty.
IsAlmostEmpty(b) == NumReadable(b) <= 1

IsEmpty(b) == NumReadable(b) = 0

\* The scan stops at the first slot that was never used.
Scanned(b) == {i \in Readable(b) : \A j \in 1 .. i : b[j] # Never}
ValuesIn(b, k) == {b[i][2] : i \in {j \in Scanned(b) : b[j][1] = k}}

\* Insert succeeds on a bucket with room unless it finds the pair.
CanInsert(b, k, v) == v \notin ValuesIn(b, k)

InsertInto(b, k, v) ==
  LET free == Slots \ Readable(b)
  IN [b EXCEPT ![CHOOSE i \in free : \A j \in free : i <= j] = <<k, v>>]

CanRemove(b, k, v) == \E i \in Readable(b) : b[i] = <<k, v>>

\* Mutant: the readable bit stays set.
RemoveFromKeeps(b, k, v) == b

RemoveFrom(b, k, v) ==
  LET at == {i \in Readable(b) : b[i] = <<k, v>>}
  IN [b EXCEPT ![CHOOSE i \in at : \A j \in at : i <= j] = Removed]

-----------------------------------------------------------------------------
(* HashTableDirectoryPage.  The arrays are kept up to Size(): growing        *)
(* writes every entry it adds, so nothing beyond is read.                  *)

Size(d) == 2 ^ d.global_depth
Entries(d) == 0 .. (Size(d) - 1)
KeyToDirectoryIndex(d, k) == Hash[k] % Size(d)
KeyToPageId(d, k) == d.bucket_page_ids[KeyToDirectoryIndex(d, k)]

\* The index that differs in the highest of the local depth's bits.
GetSplitImageIndex(i, local_depth) == (i + 2 ^ (local_depth - 1)) % (2 ^ local_depth)

CanShrink(d) == \A i \in Entries(d) : d.local_depths[i] # d.global_depth

Linked(d) == {d.bucket_page_ids[i] : i \in 0 .. (Size(d) - 1)}

\* The entries that lead to page p.
Pointers(p) == {i \in Entries(dir) : dir.bucket_page_ids[i] = p}

\* Page ids that nothing refers to any more stand for new ones; the entry the
\* page is for names it when it can, so that fewer of them are told apart.
FreshPage(i, image) ==
  LET free == Pages \ Linked(dir)
  IN IF image \in free THEN image
     ELSE IF i \in free THEN i ELSE CHOOSE p \in free : TRUE

-----------------------------------------------------------------------------
(* GetValue, Insert and Remove.                                            *)

MayCall(t) == call[t].at = "idle" /\ latch = NoThread

Return(t, what, result) == ret' = <<t, what, result>>
Quiet == ret' = <<>>

GetValue(t, k) ==
  /\ MayCall(t)
  /\ Return(t, <<"GetValue", k>>, ValuesIn(bucket[KeyToPageId(dir, k)], k))
  /\ UNCHANGED <<dir, bucket, latch, call, wide>>

Contents == UNION {{bucket[p][i] : i \in Readable(bucket[p])} : p \in Linked(dir)}
Inserting == {t \in Threads : call[t].at \in {"split", "splitting"}}

\* Bound: SplitInsert needs no directory beyond 2^MaxDepth entries, because even
\* the deepest bucket has room for k.
Room(k) ==
  LET Collides(j) == Hash[j] % (2 ^ MaxDepth) = Hash[k] % (2 ^ MaxDepth)
  IN Cardinality({x \in Contents : Collides(x[1])})
       + Cardinality({t \in Inserting : Collides(call[t].key)}) < BUCKET_ARRAY_SIZE

Insert(t, k, v) ==
  LET p == KeyToPageId(dir, k)
  IN /\ MayCall(t) /\ Room(k)
     /\ IF IsFull(bucket[p])
        THEN /\ call' = [call EXCEPT ![t] = [at |-> "split", key |-> k, value |-> v]]
             /\ Quiet
             /\ UNCHANGED bucket
        ELSE /\ bucket' = IF CanInsert(bucket[p], k, v)
                          THEN [bucket EXCEPT ![p] = InsertInto(@, k, v)] ELSE bucket
             /\ Return(t, <<"Insert", k, v>>, CanInsert(bucket[p], k, v))
             /\ UNCHANGED call
     /\ UNCHANGED <<dir, latch, wide>>

Remove(t, k, v) ==
  LET p == KeyToPageId(dir, k)
      success == CanRemove(bucket[p], k, v)
      b == IF success THEN RemoveFrom(bucket[p], k, v) ELSE bucket[p]
  IN /\ MayCall(t)
     /\ bucket' = [bucket EXCEPT ![p] = b]
     /\ call' = [call EXCEPT ![t] = IF success /\ IsEmpty(b) THEN [at |-> "merge"] ELSE @]
     /\ Return(t, <<"Remove", k, v>>, success)
     /\ UNCHANGED <<dir, latch, wide>>

-----------------------------------------------------------------------------
(* SplitInsert.                                                            *)

SplitInsertBegin(t) ==
  /\ call[t].at = "split" /\ latch = NoThread
  /\ latch' = t
  /\ call' = [call EXCEPT ![t].at = "splitting"]
  /\ Quiet
  /\ UNCHANGED <<dir, bucket, wide>>

\* Mutant: the image's local depth is not set.
SplitDirectoryOneDepth(i, image, p) ==
  LET depth == dir.local_depths[i] + 1
      grown == IF depth > dir.global_depth THEN depth ELSE dir.global_depth
      Old(e) == e % Size(dir)
  IN [global_depth |-> grown,
      local_depths |-> [e \in 0 .. (2 ^ grown - 1) |->
        IF e = i THEN depth ELSE dir.local_depths[Old(e)]],
      bucket_page_ids |-> [e \in 0 .. (2 ^ grown - 1) |->
        IF e = image THEN p ELSE dir.bucket_page_ids[Old(e)]]]

\* The directory after bucket i was split and its image put on page p: the
\* entries it grows by are redirected, and when it does not grow only i and
\* image change, whatever other entries share the bucket.
SplitDirectory(i, image, p) ==
  LET depth == dir.local_depths[i] + 1
      grown == IF depth > dir.global_depth THEN depth ELSE dir.global_depth
      Old(e) == e % Size(dir)
  IN [global_depth |-> grown,
      local_depths |-> [e \in 0 .. (2 ^ grown - 1) |->
        IF Old(e) = i \/ e = image THEN depth ELSE dir.local_depths[Old(e)]],
      bucket_page_ids |-> [e \in 0 .. (2 ^ grown - 1) |->
        IF e = image THEN p ELSE dir.bucket_page_ids[Old(e)]]]

\* Mutant: the hash is masked with the old local depth.
MovingByOldDepth(i, b) ==
  LET depth == dir.local_depths[i]
  IN {s \in Readable(b) : Hash[b[s][1]] % (2 ^ depth) = GetSplitImageIndex(i, depth + 1)}

\* The slots of a full bucket whose keys belong to the image.
Moving(i, b) ==
  LET depth == dir.local_depths[i] + 1
  IN {s \in Readable(b) : Hash[b[s][1]] % (2 ^ depth) = GetSplitImageIndex(i, depth)}

\* The pairs of those slots, inserted one by one into an empty bucket.
Packed(b, moving) ==
  [s \in Slots |->
     IF s > Cardinality(moving) THEN Never
     ELSE b[CHOOSE m \in moving : Cardinality({x \in moving : x <= m}) = s]]

SplitStep(t) ==
  LET i == KeyToDirectoryIndex(dir, call[t].key)
      p == dir.bucket_page_ids[i]
      image == GetSplitImageIndex(i, dir.local_depths[i] + 1)
      fresh == FreshPage(i, image)
      moving == Moving(i, bucket[p])
  IN /\ call[t].at = "splitting"
     /\ IsFull(bucket[p])
     /\ dir.local_depths[i] < MaxDepth
     /\ dir' = SplitDirectory(i, image, fresh)
     /\ bucket' = [bucket EXCEPT
          ![fresh] = Packed(bucket[p], moving),
          ![p] = [s \in Slots |-> IF s \in moving THEN Removed ELSE bucket[p][s]]]
     /\ wide' = (wide \/ Cardinality(Pointers(p)) > 2)
     /\ Quiet
     /\ UNCHANGED <<latch, call>>

SplitInsertEnd(t) ==
  LET k == call[t].key
      v == call[t].value
      p == KeyToPageId(dir, k)
  IN /\ call[t].at = "splitting"
     /\ ~ IsFull(bucket[p])
     /\ bucket' = IF CanInsert(bucket[p], k, v)
                  THEN [bucket EXCEPT ![p] = InsertInto(@, k, v)] ELSE bucket
     /\ Return(t, <<"Insert", k, v>>, CanInsert(bucket[p], k, v))
     /\ call' = [call EXCEPT ![t] = Idle]
     /\ latch' = NoThread
     /\ UNCHANGED <<dir, wide>>

-----------------------------------------------------------------------------
(* Merge: a walk over the directory, which may shrink on the way.          *)

MergeBegin(t) ==
  /\ call[t].at = "merge" /\ latch = NoThread
  /\ latch' = t
  /\ call' = [call EXCEPT ![t] = [at |-> "merging", i |-> 0]]
  /\ Quiet
  /\ UNCHANGED <<dir, bucket, wide>>

\* The directory after entry i was merged with its image.
MergeDirectory(d, i) ==
  LET image == GetSplitImageIndex(i, d.local_depths[i])
      gone == d.bucket_page_ids[i]
      kept == d.bucket_page_ids[image]
      depth == d.local_depths[i] - 1
      same == {e \in Entries(d) : d.bucket_page_ids[e] \in {gone, kept}} \cup {i, image}
  IN IF d.local_depths[image] # d.local_depths[i] THEN d
     ELSE [d EXCEPT !.local_depths = [e \in Entries(d) |-> IF e \in same THEN depth ELSE @[e]],
                    !.bucket_page_ids = [e \in Entries(d) |-> IF e \in same THEN kept ELSE @[e]]]

Shrink(d) ==
  LET half == 0 .. (Size(d) \div 2 - 1)
  IN IF ~ CanShrink(d) THEN d
     ELSE [global_depth |-> d.global_depth - 1,
           local_depths |-> [e \in half |-> d.local_depths[e]],
           bucket_page_ids |-> [e \in half |-> d.bucket_page_ids[e]]]

\* Mutant: the walk does not advance.
MergeStepStays(t) ==
  /\ call[t].at = "merging"
  /\ LET i == call[t].i
     IN /\ i < Size(dir)
        /\ dir' = IF dir.local_depths[i] > 1 /\ IsEmpty(bucket[dir.bucket_page_ids[i]])
                  THEN Shrink(MergeDirectory(dir, i)) ELSE dir
  /\ bucket' = [p \in Pages |-> IF p \in Linked(dir)' THEN bucket[p] ELSE EmptyBucket]
  /\ Quiet
  /\ UNCHANGED <<latch, call, wide>>

MergeStep(t) ==
  /\ call[t].at = "merging"
  /\ LET i == call[t].i
     IN /\ i < Size(dir)
        /\ dir' = IF dir.local_depths[i] > 1 /\ IsEmpty(bucket[dir.bucket_page_ids[i]])
                  THEN Shrink(MergeDirectory(dir, i)) ELSE dir
  /\ bucket' = [p \in Pages |-> IF p \in Linked(dir)' THEN bucket[p] ELSE EmptyBucket]
  /\ call' = [call EXCEPT ![t].i = @ + 1]
  /\ Quiet
  /\ UNCHANGED <<latch, wide>>

MergeEnd(t) ==
  /\ call[t].at = "merging"
  /\ call[t].i >= Size(dir)
  /\ call' = [call EXCEPT ![t] = Idle]
  /\ latch' = NoThread
  /\ Quiet
  /\ UNCHANGED <<dir, bucket, wide>>

-----------------------------------------------------------------------------
Loop(t) == ~ wide /\ (SplitStep(t) \/ SplitInsertEnd(t) \/ MergeStep(t) \/ MergeEnd(t))

\* Bound: a behaviour is followed up to its first wide split, which breaks the
\* directory for good.
Next ==
  ~ wide /\ \E t \in Threads :
    \/ \E k \in Keys : GetValue(t, k) \/ \E v \in Values : Insert(t, k, v) \/ Remove(t, k, v)
    \/ SplitInsertBegin(t) \/ SplitStep(t) \/ SplitInsertEnd(t)
    \/ MergeBegin(t) \/ MergeStep(t) \/ MergeEnd(t)

\* The thread that holds table_latch_ keeps running.
Spec == Init /\ [][Next]_vars /\ \A t \in Threads : WF_vars(Loop(t))

-----------------------------------------------------------------------------
(* Properties.  SplitInsert redirects the entry it came from and its image,  *)
(* also when more entries share the bucket (a wide split): the others keep   *)
(* the old page and the old depth.  The table is broken from then on, so     *)
(* what is said of the directory and of the pairs is said up to that split. *)

\* The code's VerifyIntegrity: until a wide split, a bucket has 2^(GD - LD)
\* entries and they all record the same local depth; and no local depth ever
\* exceeds the global one.
VerifyIntegrity ==
  \A i \in Entries(dir) :
    LET local_depth == dir.local_depths[i]
        pointers == Pointers(dir.bucket_page_ids[i])
    IN /\ local_depth <= dir.global_depth
       /\ \/ wide
          \/ /\ Cardinality(pointers) = 2 ^ (dir.global_depth - local_depth)
             /\ \A j \in pointers : dir.local_depths[j] = local_depth

\* Until a wide split, every pair lies in the bucket its key leads to, once,
\* and GetValue's scan does not stop before it.
PairsReachable ==
  ~ wide =>
    \A p \in Linked(dir) : \A i \in Readable(bucket[p]) :
      /\ KeyToPageId(dir, bucket[p][i][1]) = p
      /\ i \in Scanned(bucket[p])
      /\ \A j \in Readable(bucket[p]) : bucket[p][i] = bucket[p][j] => i = j

\* No step of a split or a merge takes a bucket with pairs out of the directory.
NothingUnlinked ==
  [][\A p \in Linked(dir) \ Linked(dir)' : Readable(bucket[p]) = {}]_vars

\* Whoever gets table_latch_ for writing gives it back: the loops of
\* SplitInsert and Merge end, or SplitInsert comes to a wide split.
LatchReleased == \A t \in Threads : latch = t ~> (latch # t \/ wide)

Index == INSTANCE Multimap WITH
  Key <- Keys, Value <- Values, Thread <- Threads,
  pairs <- {x \in Keys \X Values : x[2] \in ValuesIn(bucket[KeyToPageId(dir, x[1])], x[1])}

\* Until a wide split, the table implements the multimap: whatever the splits
\* and merges between them, calls behave as if each took effect at once on a
\* set of pairs.
ImplementsMultimap == Index!Init /\ [][Index!Next \/ wide']_(Index!vars)
=============================================================================
