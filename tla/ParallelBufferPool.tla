------------------------- MODULE ParallelBufferPool -------------------------
(***************************************************************************)
(* ParallelBufferPoolManager (src/buffer/parallel_buffer_pool_manager.cpp): *)
(* page operations are routed to the instance page_id mod num_instances,    *)
(* NewPage walks the instances from last_alloc_index_, a field no latch     *)
(* protects.                                                               *)
(*                                                                         *)
(* An instance is what module BufferPool promises: NewPage and an unpinned  *)
(* page's FetchPage fail exactly when clients pin a different page in every *)
(* frame.  Each of its calls is atomic; the walk of NewPage is not.         *)
(***************************************************************************)
EXTENDS Integers, FiniteSets

CONSTANTS
  num_instances,
  pool_size,     \* frames of one instance
  Threads,
  Creators,      \* the threads that call NewPage
  MaxPageId      \* bound on the page ids that are allocated

ASSUME ParallelAssumption ==
  /\ num_instances \in Nat \ {0}
  /\ pool_size \in Nat \ {0}
  /\ Creators \subseteq Threads
  /\ MaxPageId \in Nat

VARIABLES
  next_page_id,      \* next_page_id_ of every instance
  created,           \* the pages every instance handed out
  pins,              \* for every instance, who pins what in it
  last_alloc_index,  \* last_alloc_index_
  pc,                \* where a thread is in NewPgImp
  start_index,       \* its local start_index
  seen,              \* the value of last_alloc_index_ it read for its update
  asked,             \* ghost: the instances its current call has asked
  disturbed,         \* ghost: threads during whose walk another one moved the index
  result             \* what its last call returned

vars == <<next_page_id, created, pins, last_alloc_index, pc, start_index, seen, asked, disturbed, result>>

Instances == 0 .. (num_instances - 1)
Pages == 0 .. MaxPageId

Pinned(i) == {pin[2] : pin \in pins[i]}
Full(i) == Cardinality(Pinned(i)) >= pool_size
PinsOf(t) == UNION {{pin \in pins[i] : pin[1] = t} : i \in Instances}

Init ==
  /\ next_page_id = [i \in Instances |-> i]
  /\ created = [i \in Instances |-> {}]
  /\ pins = [i \in Instances |-> {}]
  /\ last_alloc_index = 0
  /\ pc = [t \in Threads |-> "idle"]
  /\ start_index = [t \in Threads |-> 0]
  /\ seen = [t \in Threads |-> 0]
  /\ asked = [t \in Threads |-> {}]
  /\ disturbed = {}
  /\ result = [t \in Threads |-> "none"]

Goto(t, s) == pc' = [pc EXCEPT ![t] = s]

-----------------------------------------------------------------------------
(* NewPgImp.                                                               *)

\* Bound: every call under way, this one too, can get a page id.
IdsLeft ==
  LET calls == Cardinality({t \in Threads : pc[t] \in {"ask", "test"}})
  IN \A i \in Instances : next_page_id[i] + calls * num_instances <= MaxPageId

NewPg(t) ==
  /\ t \in Creators /\ pc[t] = "idle" /\ IdsLeft
  /\ start_index' = [start_index EXCEPT ![t] = last_alloc_index]
  /\ asked' = [asked EXCEPT ![t] = {}]
  /\ disturbed' = disturbed \ {t}
  /\ result' = [result EXCEPT ![t] = "none"]
  /\ Goto(t, "ask")
  /\ UNCHANGED <<next_page_id, created, pins, last_alloc_index, seen>>

\* Mutant: page ids are allocated one by one.
AllocatePageNext(i) == next_page_id[i] + 1

\* BufferPoolManagerInstance::AllocatePage.
AllocatePage(i) == next_page_id[i] + num_instances

NewPgSucceeds(t) ==
  LET i == start_index[t] % num_instances
      p == next_page_id[i]
  IN /\ pc[t] = "ask"
     /\ ~ Full(i)
     /\ next_page_id' = [next_page_id EXCEPT ![i] = AllocatePage(i)]
     /\ created' = [created EXCEPT ![i] = @ \cup {p}]
     /\ pins' = [pins EXCEPT ![i] = @ \cup {<<t, p>>}]
     /\ result' = [result EXCEPT ![t] = "page"]
     /\ Goto(t, "bump")
     /\ UNCHANGED <<last_alloc_index, start_index, seen, asked, disturbed>>

NewPgNextInstance(t) ==
  LET i == start_index[t] % num_instances
  IN /\ pc[t] = "ask"
     /\ Full(i)
     /\ start_index' = [start_index EXCEPT ![t] = (@ + 1) % num_instances]
     /\ asked' = [asked EXCEPT ![t] = @ \cup {i}]
     /\ Goto(t, "test")
     /\ UNCHANGED <<next_page_id, created, pins, last_alloc_index, seen, disturbed, result>>

\* Mutants: the loop stops one instance early; the wrapped index is compared
\* with the number of instances.
LoopEndsEarly(t) == (start_index[t] + 1) % num_instances = last_alloc_index
LoopEndsAtSize(t) == start_index[t] = num_instances

\* The condition of the do-while loop reads last_alloc_index_ again.
LoopEnds(t) == start_index[t] = last_alloc_index

NewPgTest(t) ==
  /\ pc[t] = "test"
  /\ IF LoopEnds(t)
     THEN Goto(t, "bump") /\ result' = [result EXCEPT ![t] = "nullptr"]
     ELSE Goto(t, "ask") /\ UNCHANGED result
  /\ UNCHANGED <<next_page_id, created, pins, last_alloc_index, start_index, seen, asked, disturbed>>

\* last_alloc_index_ = (last_alloc_index_ + 1) % size, a read and a write.
NewPgBumpRead(t) ==
  /\ pc[t] = "bump"
  /\ seen' = [seen EXCEPT ![t] = last_alloc_index]
  /\ Goto(t, "write")
  /\ UNCHANGED <<next_page_id, created, pins, last_alloc_index, start_index, asked, disturbed, result>>

\* The locals end with the call.
NewPgReturn(t) ==
  /\ pc[t] = "write"
  /\ last_alloc_index' = (seen[t] + 1) % num_instances
  /\ disturbed' = IF last_alloc_index' = last_alloc_index THEN disturbed
                  ELSE disturbed \cup {u \in Threads : pc[u] \in {"ask", "test"}}
  /\ start_index' = [start_index EXCEPT ![t] = 0]
  /\ seen' = [seen EXCEPT ![t] = 0]
  /\ Goto(t, "idle")
  /\ UNCHANGED <<next_page_id, created, pins, asked, result>>

-----------------------------------------------------------------------------
(* FetchPgImp and UnpinPgImp.  A thread fetches pages that exist and that it *)
(* does not pin, and unpins what it pins.                                   *)

GetBufferPoolManager(p) == p % num_instances

FetchPg(t, p) ==
  LET i == GetBufferPoolManager(p)
  IN /\ pc[t] = "idle"
     /\ p \in UNION {created[j] : j \in Instances}
     /\ p \notin {pin[2] : pin \in PinsOf(t)}
     /\ IF p \in Pinned(i) \/ ~ Full(i)
        THEN /\ pins' = [pins EXCEPT ![i] = @ \cup {<<t, p>>}]
             /\ result' = [result EXCEPT ![t] = "page"]
        ELSE /\ result' = [result EXCEPT ![t] = "fetchFailed"]
             /\ UNCHANGED pins
     /\ UNCHANGED <<next_page_id, created, last_alloc_index, pc, start_index, seen, asked, disturbed>>

UnpinPg(t, p) ==
  LET i == GetBufferPoolManager(p)
  IN /\ pc[t] = "idle"
     /\ p \in {pin[2] : pin \in PinsOf(t)}
     /\ pins' = [pins EXCEPT ![i] = @ \ {<<t, p>>}]
     /\ result' = [result EXCEPT ![t] = IF p \in Pinned(i) THEN "unpinned" ELSE "unpinFailed"]
     /\ UNCHANGED <<next_page_id, created, last_alloc_index, pc, start_index, seen, asked, disturbed>>

-----------------------------------------------------------------------------
Step(t) == \/ NewPgSucceeds(t) \/ NewPgNextInstance(t) \/ NewPgTest(t)
           \/ NewPgBumpRead(t) \/ NewPgReturn(t)

Next ==
  \E t \in Threads :
    \/ NewPg(t)
    \/ NewPgSucceeds(t) \/ NewPgNextInstance(t) \/ NewPgTest(t)
    \/ NewPgBumpRead(t) \/ NewPgReturn(t)
    \/ \E p \in Pages : FetchPg(t, p) \/ UnpinPg(t, p)

Spec == Init /\ [][Next]_vars

\* A thread inside NewPgImp keeps running.
FairSpec == Spec /\ \A t \in Threads : WF_vars(Step(t))

-----------------------------------------------------------------------------
(* Properties.                                                             *)

\* A page lives in the instance its id is routed to, and in no other: no two
\* instances hand out the same id, cache the same page, or miss an unpin.
OneHomePerPage ==
  /\ \A i \in Instances : \A p \in created[i] \cup Pinned(i) : p % num_instances = i
  /\ \A t \in Threads : result[t] # "unpinFailed"

\* NewPage returns nullptr only after every instance refused it, for any number
\* of threads that create pages, unless another thread moved last_alloc_index_
\* while it walked: the end of the walk is compared with that field, which no
\* latch protects.  (In that case the walk may end after the first instance,
\* although the next one has room.)
AllAskedBeforeNull ==
  \A t \in Threads : result[t] = "nullptr" => asked[t] = Instances \/ t \in disturbed

\* NewPage makes progress: while a thread is in its walk, that one or another
\* comes to the end of NewPage.  No more is true: a walk whose end is moved by
\* the calls of others, each time it is about to reach it, goes on for ever.
SomeCallReturns ==
  (\E t \in Threads : pc[t] = "ask") ~> (\E t \in Threads : pc[t] = "write")
=============================================================================
