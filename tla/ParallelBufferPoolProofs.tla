---------------------- MODULE ParallelBufferPoolProofs ----------------------
(***************************************************************************)
(* Proofs about ParallelBufferPool, for every number of instances, frames    *)
(* and threads.  Routing is right whatever threads do; that NewPage asks     *)
(* every instance is shown for one creating thread, since last_alloc_index_  *)
(* is read and written without a latch.                                     *)
(***************************************************************************)
EXTENDS ParallelBufferPool, BufferPoolArithmetic, TLAPS

PCs == {"idle", "ask", "test", "bump", "write"}
Results == {"none", "page", "nullptr", "fetchFailed", "unpinned"}

\* The cursors stay inside the vector of instances.
CursorsInRange ==
  /\ last_alloc_index \in Instances
  /\ start_index \in [Threads -> Instances]
  /\ seen \in [Threads -> Instances]
  /\ pc \in [Threads -> PCs]
  /\ asked \in [Threads -> SUBSET Instances]
  /\ result \in [Threads -> Results]

\* Every id an instance will hand out, has handed out or has pinned is congruent
\* to its index.
IdsOfInstances ==
  /\ next_page_id \in [Instances -> Nat]
  /\ created \in [Instances -> SUBSET Nat]
  /\ pins \in [Instances -> SUBSET (Threads \X Nat)]
  /\ \A i \in Instances :
       /\ next_page_id[i] % num_instances = i
       /\ \A p \in created[i] : p % num_instances = i
       /\ \A pin \in pins[i] : pin[2] % num_instances = i

RoutingInv == CursorsInRange /\ IdsOfInstances

-----------------------------------------------------------------------------

\* The instances are the remainders modulo their number.
LEMMA InstancesFacts ==
  /\ num_instances \in Nat \ {0} /\ 0 \in Instances
  /\ \A i \in Instances : i \in Nat /\ i < num_instances /\ i % num_instances = i
  /\ \A n \in Nat : n % num_instances \in Instances
PROOF
<1>1. num_instances \in Nat \ {0}
  BY ParallelAssumption
<1>2. ASSUME NEW n \in Nat PROVE n % num_instances \in Instances
  BY <1>1, DivMod DEF Instances
<1>3. ASSUME NEW i \in Instances PROVE i \in Nat /\ i < num_instances /\ i % num_instances = i
  <2>1. i \in Nat /\ i < num_instances
    BY <1>1, <1>3 DEF Instances
  <2> QED BY <1>1, <2>1, SmallRemainder
<1> QED BY <1>1, <1>2, <1>3 DEF Instances

\* No page yet.
LEMMA RoutingInit == Init => RoutingInv
BY InstancesFacts DEF Init, RoutingInv, CursorsInRange, IdsOfInstances, PCs, Results

\* The steps of NewPgImp: an instance hands out ids of its own remainder.
LEMMA NewPgRouting ==
  ASSUME RoutingInv, NEW t \in Threads,
         NewPg(t) \/ NewPgNextInstance(t) \/ NewPgTest(t) \/ NewPgBumpRead(t) \/ NewPgReturn(t)
  PROVE  RoutingInv'
PROOF
<1>1. IdsOfInstances'
  BY DEF RoutingInv, IdsOfInstances, NewPg, NewPgNextInstance, NewPgTest, NewPgBumpRead, NewPgReturn
<1>2. CASE NewPg(t)
  BY <1>1, <1>2 DEF NewPg, Goto, RoutingInv, CursorsInRange, PCs, Results
<1>3. CASE NewPgNextInstance(t)
  <2> DEFINE i == start_index[t] % num_instances
             j == (start_index[t] + 1) % num_instances
  <2>1. i \in Instances /\ j \in Instances
    BY InstancesFacts DEF RoutingInv, CursorsInRange
  <2> HIDE DEF i, j
  <2>2. start_index' = [start_index EXCEPT ![t] = j]
    BY <1>3 DEF NewPgNextInstance, j, RoutingInv, CursorsInRange
  <2>3. asked' = [asked EXCEPT ![t] = asked[t] \cup {i}]
    BY <1>3 DEF NewPgNextInstance, i, RoutingInv, CursorsInRange
  <2> QED BY <1>1, <1>3, <2>1, <2>2, <2>3 DEF NewPgNextInstance, Goto, RoutingInv, CursorsInRange, PCs
<1>4. CASE NewPgTest(t)
  BY <1>1, <1>4 DEF NewPgTest, Goto, RoutingInv, CursorsInRange, PCs, Results
<1>5. CASE NewPgBumpRead(t)
  BY <1>1, <1>5 DEF NewPgBumpRead, Goto, RoutingInv, CursorsInRange, PCs
<1>6. CASE NewPgReturn(t)
  <2>1. (seen[t] + 1) % num_instances \in Instances
    BY InstancesFacts DEF RoutingInv, CursorsInRange
  <2>2. 0 \in Instances
    BY InstancesFacts DEF Instances
  <2> QED BY <1>1, <1>6, <2>1, <2>2 DEF NewPgReturn, Goto, RoutingInv, CursorsInRange, PCs
<1> QED BY <1>2, <1>3, <1>4, <1>5, <1>6

\* AllocatePage keeps the residue of the instance that allocates.
LEMMA NewPgSucceedsRouting ==
  ASSUME RoutingInv, NEW t \in Threads, NewPgSucceeds(t)
  PROVE  RoutingInv'
PROOF
<1> DEFINE i == start_index[t] % num_instances
           p == next_page_id[i]
<1>1. i \in Instances /\ num_instances \in Nat \ {0}
  BY InstancesFacts DEF RoutingInv, CursorsInRange
<1>2. /\ next_page_id' = [next_page_id EXCEPT ![i] = p + num_instances]
      /\ created' = [created EXCEPT ![i] = created[i] \cup {p}]
      /\ pins' = [pins EXCEPT ![i] = pins[i] \cup {<<t, p>>}]
      /\ result' = [result EXCEPT ![t] = "page"] /\ Goto(t, "bump")
      /\ UNCHANGED <<last_alloc_index, start_index, seen, asked>>
  BY <1>1 DEF NewPgSucceeds, AllocatePage, RoutingInv, IdsOfInstances
<1> HIDE DEF i
<1>3. p \in Nat /\ p % num_instances = i
  BY <1>1 DEF RoutingInv, IdsOfInstances
<1> HIDE DEF p
<1>4. p + num_instances \in Nat /\ (p + num_instances) % num_instances = i
  <2>1. p + num_instances \in Nat
    BY <1>1, <1>3
  <2>2. (p + num_instances) % num_instances = p % num_instances
    BY <1>1, <1>3, NextSameInstance
  <2> QED BY <1>3, <2>1, <2>2, Zenon
<1>5. CursorsInRange'
  BY <1>2 DEF Goto, RoutingInv, CursorsInRange, PCs, Results
<1>6. <<t, p>> \in Threads \X Nat /\ <<t, p>>[2] = p
  BY <1>3
<1>7. /\ next_page_id' \in [Instances -> Nat]
      /\ created' \in [Instances -> SUBSET Nat]
      /\ pins' \in [Instances -> SUBSET (Threads \X Nat)]
  BY <1>1, <1>2, <1>3, <1>4, <1>6 DEF RoutingInv, IdsOfInstances
<1>8. ASSUME NEW j \in Instances
      PROVE  /\ next_page_id'[j] % num_instances = j
             /\ \A q \in created'[j] : q % num_instances = j
             /\ \A pin \in pins'[j] : pin[2] % num_instances = j
  <2>1. /\ next_page_id'[j] = IF j = i THEN p + num_instances ELSE next_page_id[j]
        /\ created'[j] = IF j = i THEN created[j] \cup {p} ELSE created[j]
        /\ pins'[j] = IF j = i THEN pins[j] \cup {<<t, p>>} ELSE pins[j]
    BY <1>1, <1>2 DEF RoutingInv, IdsOfInstances
  <2>2. /\ next_page_id[j] % num_instances = j
        /\ \A q \in created[j] : q % num_instances = j
        /\ \A pin \in pins[j] : pin[2] % num_instances = j
    BY DEF RoutingInv, IdsOfInstances
  <2> QED BY <1>3, <1>4, <1>6, <2>1, <2>2
<1>9. IdsOfInstances'
  BY <1>7, <1>8 DEF IdsOfInstances
<1> QED BY <1>5, <1>9 DEF RoutingInv

\* A page is fetched from the instance of its remainder.
LEMMA FetchRouting ==
  ASSUME RoutingInv, NEW t \in Threads, NEW p \in Pages, FetchPg(t, p)
  PROVE  RoutingInv'
PROOF
<1> DEFINE i == p % num_instances
<1>1. p \in Nat /\ i \in Instances
  BY InstancesFacts, ParallelAssumption DEF Pages
<1>2. pins' = pins \/ pins' = [pins EXCEPT ![i] = pins[i] \cup {<<t, p>>}]
  BY <1>1 DEF FetchPg, GetBufferPoolManager, RoutingInv, IdsOfInstances
<1>3. CursorsInRange'
  BY DEF FetchPg, RoutingInv, CursorsInRange, Results
<1>4. UNCHANGED <<next_page_id, created>>
  BY DEF FetchPg
<1>5. <<t, p>> \in Threads \X Nat /\ <<t, p>>[2] = p
  BY <1>1
<1>6. p % num_instances = i
  OBVIOUS
<1> HIDE DEF i
<1>7. /\ pins' \in [Instances -> SUBSET (Threads \X Nat)]
      /\ \A j \in Instances : \A pin \in pins'[j] : pin \in pins[j] \/ (j = i /\ pin = <<t, p>>)
  BY <1>1, <1>2, <1>5 DEF RoutingInv, IdsOfInstances
<1>8. ASSUME NEW j \in Instances, NEW pin \in pins'[j] PROVE pin[2] % num_instances = j
  BY <1>5, <1>6, <1>7 DEF RoutingInv, IdsOfInstances
<1>9. IdsOfInstances'
  BY <1>4, <1>7, <1>8 DEF RoutingInv, IdsOfInstances
<1> QED BY <1>3, <1>9 DEF RoutingInv

\* UnpinPage finds the page: the instance that cached it is the one it is sent to.
LEMMA UnpinRouting ==
  ASSUME RoutingInv, NEW t \in Threads, NEW p \in Pages, UnpinPg(t, p)
  PROVE  RoutingInv'
PROOF
<1> DEFINE i == p % num_instances
<1>1. PICK j \in Instances : \E pin \in pins[j] : pin[2] = p
  BY DEF UnpinPg, PinsOf
<1>2. j = i
  BY <1>1 DEF RoutingInv, IdsOfInstances
<1>3. p \in Pinned(i)
  BY <1>1, <1>2 DEF Pinned
<1>4. result' = [result EXCEPT ![t] = "unpinned"]
  BY <1>3 DEF UnpinPg, GetBufferPoolManager
<1>5. CursorsInRange'
  BY <1>4 DEF UnpinPg, RoutingInv, CursorsInRange, Results
<1>6. pins' = [pins EXCEPT ![i] = pins[i] \ {<<t, p>>}] /\ UNCHANGED <<next_page_id, created>>
  BY <1>1, <1>2 DEF UnpinPg, GetBufferPoolManager, RoutingInv, IdsOfInstances
<1> HIDE DEF i
<1>7. /\ pins' \in [Instances -> SUBSET (Threads \X Nat)]
      /\ \A k \in Instances : pins'[k] \subseteq pins[k]
  BY <1>1, <1>2, <1>6 DEF RoutingInv, IdsOfInstances
<1>8. IdsOfInstances'
  BY <1>6, <1>7 DEF RoutingInv, IdsOfInstances
<1> QED BY <1>5, <1>8 DEF RoutingInv

\* Every step preserves the invariant.
LEMMA RoutingStep == RoutingInv /\ [Next]_vars => RoutingInv'
PROOF
<1>1. ASSUME RoutingInv, UNCHANGED vars PROVE RoutingInv'
  BY <1>1 DEF vars, RoutingInv, CursorsInRange, IdsOfInstances
<1> QED BY <1>1, NewPgRouting, NewPgSucceedsRouting, FetchRouting, UnpinRouting DEF Next

\* However many threads create, fetch and unpin pages at the same time, a page id
\* is handed out, cached and found by one instance only.
THEOREM PagesHaveOneHome == Spec => []OneHomePerPage
PROOF
<1>1. ASSUME RoutingInv PROVE OneHomePerPage
  BY <1>1 DEF RoutingInv, IdsOfInstances, CursorsInRange, Results, OneHomePerPage, Pinned
<1> QED BY <1>1, RoutingInit, RoutingStep, PTL DEF Spec

-----------------------------------------------------------------------------
(***************************************************************************)
(* The walk of NewPgImp.  While no other thread moves it, last_alloc_index_  *)
(* is where the walk began, and the instances it asked are the ones from     *)
(* there up to its start_index, wrapping around.                            *)
(***************************************************************************)
Walked(from, to) ==
  {i \in Instances : IF from <= to THEN from <= i /\ i < to ELSE from <= i \/ i < to}

WalkOf(t) ==
  /\ pc[t] = "ask" /\ t \notin disturbed =>
       asked[t] = Walked(last_alloc_index, start_index[t])
  /\ pc[t] = "test" /\ t \notin disturbed =>
       asked[t] = IF start_index[t] = last_alloc_index THEN Instances
                  ELSE Walked(last_alloc_index, start_index[t])
  /\ result[t] = "nullptr" => asked[t] = Instances \/ t \in disturbed

WalkInv == RoutingInv /\ \A t \in Threads : WalkOf(t)

\* The next instance of the round.
LEMMA Wraps ==
  ASSUME NEW n \in Instances
  PROVE  (n + 1) % num_instances = IF n + 1 = num_instances THEN 0 ELSE n + 1
PROOF
<1>1. n \in Nat /\ n < num_instances /\ num_instances \in Nat \ {0}
  BY InstancesFacts
<1>2. CASE n + 1 = num_instances
  <2>1. (0 + num_instances) % num_instances = 0 % num_instances
    BY <1>1, NextSameInstance, 0 \in Nat
  <2>2. 0 % num_instances = 0
    BY <1>1, SmallRemainder, 0 \in Nat
  <2> QED BY <1>1, <1>2, <2>1, <2>2
<1>3. CASE n + 1 # num_instances
  BY <1>1, <1>3, SmallRemainder, n + 1 \in Nat
<1> QED BY <1>2, <1>3

\* One more instance asked.
LEMMA WalkedOn ==
  ASSUME NEW a \in Instances, NEW n \in Instances
  PROVE  Walked(a, n) \cup {n} =
           IF (n + 1) % num_instances = a THEN Instances
           ELSE Walked(a, (n + 1) % num_instances)
PROOF
<1> DEFINE m == (n + 1) % num_instances
<1>1. m = (IF n + 1 = num_instances THEN 0 ELSE n + 1) /\ num_instances \in Nat \ {0}
  BY Wraps, InstancesFacts
<1> HIDE DEF m
<1>2. CASE m = a
  BY <1>1, <1>2 DEF Walked, Instances
<1>3. CASE m # a
  BY <1>1, <1>3 DEF Walked, Instances
<1> QED BY <1>2, <1>3 DEF m

\* No walk yet.
LEMMA WalkInit == Init => WalkInv
BY RoutingInit DEF Init, WalkInv, WalkOf

\* A step of one thread changes its own walk only, and last_alloc_index_ when
\* it returns: the walks of the others are disturbed then.
LEMMA WalkStep ==
  ASSUME WalkInv, [Next]_vars
  PROVE  WalkInv'
PROOF
<1>1. RoutingInv /\ RoutingInv'
  BY RoutingStep DEF WalkInv
<1>2. CASE UNCHANGED vars
  BY <1>1, <1>2 DEF vars, WalkInv, WalkOf
<1>3. CASE Next
  <2>1. PICK t \in Threads :
          \/ NewPg(t)
          \/ NewPgSucceeds(t) \/ NewPgNextInstance(t) \/ NewPgTest(t)
          \/ NewPgBumpRead(t) \/ NewPgReturn(t)
          \/ \E p \in Pages : FetchPg(t, p) \/ UnpinPg(t, p)
    BY <1>3 DEF Next
  <2>2. ASSUME NEW s \in Threads, s # t PROVE WalkOf(s)'
    <3>1. /\ pc'[s] = pc[s] /\ start_index'[s] = start_index[s]
          /\ asked'[s] = asked[s] /\ result'[s] = result[s]
      BY <1>1, <2>1, <2>2 DEF RoutingInv, CursorsInRange, Goto, NewPg, NewPgSucceeds,
           NewPgNextInstance, NewPgTest, NewPgBumpRead, NewPgReturn, FetchPg, UnpinPg
    <3>2. WalkOf(s)
      BY DEF WalkInv
    <3>3. CASE last_alloc_index' = last_alloc_index
      <4>1. s \in disturbed' <=> s \in disturbed
        BY <2>1, <2>2, <3>3 DEF NewPg, NewPgSucceeds, NewPgNextInstance, NewPgTest,
             NewPgBumpRead, NewPgReturn, FetchPg, UnpinPg
      <4> QED BY <3>1, <3>2, <3>3, <4>1 DEF WalkOf, Walked
    <3>4. CASE last_alloc_index' # last_alloc_index
      <4>1. disturbed' = disturbed \cup {u \in Threads : pc[u] \in {"ask", "test"}}
        BY <2>1, <3>4 DEF NewPg, NewPgSucceeds, NewPgNextInstance, NewPgTest,
             NewPgBumpRead, NewPgReturn, FetchPg, UnpinPg
      <4> QED BY <3>1, <3>2, <4>1 DEF WalkOf
    <3> QED BY <3>3, <3>4
  <2>3. WalkOf(t)'
    <3>0. WalkOf(t)
      BY DEF WalkInv
    <3>1. CASE NewPg(t)
      <4>1. /\ pc'[t] = "ask" /\ asked'[t] = {} /\ result'[t] = "none"
            /\ start_index'[t] = last_alloc_index /\ last_alloc_index' = last_alloc_index
        BY <1>1, <3>1 DEF NewPg, Goto, RoutingInv, CursorsInRange
      <4>2. Walked(last_alloc_index, last_alloc_index) = {}
        BY <1>1, InstancesFacts DEF RoutingInv, CursorsInRange, Walked
      <4> QED BY <4>1, <4>2 DEF WalkOf
    <3>2. CASE NewPgSucceeds(t)
      <4>1. pc[t] = "ask" /\ pc'[t] = "bump" /\ result'[t] = "page"
        BY <1>1, <3>2 DEF NewPgSucceeds, Goto, RoutingInv, CursorsInRange
      <4> QED BY <3>0, <4>1 DEF WalkOf
    <3>3. CASE NewPgNextInstance(t)
      <4> DEFINE n == start_index[t]
                 a == last_alloc_index
      <4>1. n \in Instances /\ a \in Instances /\ n % num_instances = n
        BY <1>1, InstancesFacts DEF RoutingInv, CursorsInRange
      <4>2. /\ pc[t] = "ask" /\ pc'[t] = "test" /\ asked'[t] = asked[t] \cup {n}
            /\ start_index'[t] = (n + 1) % num_instances
            /\ last_alloc_index' = a /\ result'[t] = result[t] /\ disturbed' = disturbed
        BY <1>1, <3>3, <4>1 DEF NewPgNextInstance, Goto, RoutingInv, CursorsInRange
      <4>3. t \notin disturbed => asked[t] = Walked(a, n)
        BY <3>0, <4>2 DEF WalkOf
      <4>4. result'[t] = "nullptr" => asked'[t] = Instances \/ t \in disturbed
        BY <3>0, <4>1, <4>2 DEF WalkOf
      <4> HIDE DEF n, a
      <4>5. t \notin disturbed =>
              asked'[t] = IF start_index'[t] = a THEN Instances ELSE Walked(a, start_index'[t])
        BY <4>1, <4>2, <4>3, WalkedOn
      <4> QED BY <4>2, <4>3, <4>4, <4>5 DEF WalkOf, Walked
    <3>4. CASE NewPgTest(t)
      <4>1. /\ pc[t] = "test" /\ last_alloc_index' = last_alloc_index
            /\ start_index'[t] = start_index[t] /\ asked'[t] = asked[t]
            /\ disturbed' = disturbed
        BY <3>4 DEF NewPgTest
      <4>2. CASE start_index[t] = last_alloc_index
        <5>1. pc'[t] = "bump"
          BY <1>1, <3>4, <4>2 DEF NewPgTest, LoopEnds, Goto, RoutingInv, CursorsInRange
        <5> QED BY <3>0, <4>1, <4>2, <5>1 DEF WalkOf
      <4>3. CASE start_index[t] # last_alloc_index
        <5>1. pc'[t] = "ask" /\ result'[t] = result[t]
          BY <1>1, <3>4, <4>3 DEF NewPgTest, LoopEnds, Goto, RoutingInv, CursorsInRange
        <5> QED BY <3>0, <4>1, <4>3, <5>1 DEF WalkOf, Walked
      <4> QED BY <4>2, <4>3
    <3>5. CASE NewPgBumpRead(t) \/ NewPgReturn(t)
      <4>1. /\ pc[t] # "idle" /\ pc'[t] \in {"write", "idle"}
            /\ asked'[t] = asked[t] /\ result'[t] = result[t]
            /\ disturbed \subseteq disturbed'
        BY <1>1, <3>5 DEF NewPgBumpRead, NewPgReturn, Goto, RoutingInv, CursorsInRange
      <4> QED BY <3>0, <4>1 DEF WalkOf
    <3>6. CASE \E p \in Pages : FetchPg(t, p) \/ UnpinPg(t, p)
      <4>1. pc[t] = "idle" /\ pc'[t] = "idle" /\ result'[t] # "nullptr"
        BY <1>1, <3>6 DEF FetchPg, UnpinPg, RoutingInv, CursorsInRange
      <4> QED BY <4>1 DEF WalkOf
    <3> QED BY <2>1, <3>1, <3>2, <3>3, <3>4, <3>5, <3>6
  <2> QED BY <1>1, <2>2, <2>3 DEF WalkInv
<1> QED BY <1>2, <1>3

\* However many threads create pages, NewPage gives up only after every instance
\* refused it, wherever the walk started and however often it wrapped around,
\* unless another thread moved last_alloc_index_ under the walk.
THEOREM NullAfterFullWalk == Spec => []AllAskedBeforeNull
PROOF
<1>1. WalkInv => AllAskedBeforeNull
  BY DEF WalkInv, WalkOf, AllAskedBeforeNull
<1>2. WalkInv /\ [Next]_vars => WalkInv'
  BY WalkStep
<1> QED BY <1>1, <1>2, WalkInit, PTL DEF Spec
=============================================================================
