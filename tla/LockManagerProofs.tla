-------------------------- MODULE LockManagerProofs --------------------------
(***************************************************************************)
(* Proofs about LockManager for every set of transactions and records and   *)
(* every assignment of isolation levels.                                    *)
(***************************************************************************)
EXTENDS LockManager, FiniteSetTheorems, SequenceTheorems, TLAPS

(***************************************************************************)
(* Queues.  A queue holds one request per transaction, so that what the     *)
(* operations do to it can be said on the set of its requests.              *)
(***************************************************************************)
Queue == [request_queue : Seq(LockRequest), upgrading : BOOLEAN,
          sharing_count : Int, is_writing : BOOLEAN]

Request(t, mode, granted) == [txn_id |-> t, lock_mode |-> mode, granted |-> granted]

OnePerTxn(q) ==
  \A i, j \in 1 .. Len(q.request_queue) :
    q.request_queue[i].txn_id = q.request_queue[j].txn_id => i = j

\* The requests of a queue other than those of t.
Others(q, t) == {e \in Entries(q) : e.txn_id # t}

\* The fields that count the granted locks are the same.
SameCounts(q, p) ==
  /\ q.upgrading = p.upgrading
  /\ q.sharing_count = p.sharing_count
  /\ q.is_writing = p.is_writing

\* Removing the element k of a sequence moves the later ones down by one.
LEMMA RemoveFacts ==
  ASSUME NEW S, NEW s \in Seq(S), NEW k \in 1 .. Len(s),
         NEW d, d = SubSeq(s, 1, k - 1) \o SubSeq(s, k + 1, Len(s))
  PROVE  /\ d \in Seq(S)
         /\ Len(d) = Len(s) - 1
         /\ \A i \in 1 .. (Len(s) - 1) : d[i] = IF i < k THEN s[i] ELSE s[i + 1]
PROOF
<1>0. Len(s) \in Nat /\ k \in Int
  OBVIOUS
<1> DEFINE a == SubSeq(s, 1, k - 1)
           b == SubSeq(s, k + 1, Len(s))
<1>1. a \in Seq(S) /\ Len(a) = k - 1 /\ \A i \in 1 .. (k - 1) : a[i] = s[i]
  BY <1>0, SubSeqProperties
<1>2. b \in Seq(S) /\ Len(b) = Len(s) - k /\ \A i \in 1 .. (Len(s) - k) : b[i] = s[k + i]
  BY <1>0, SubSeqProperties
<1> HIDE DEF a, b
<1>3. /\ a \o b \in Seq(S) /\ Len(a \o b) = Len(a) + Len(b)
      /\ \A i \in 1 .. Len(a) + Len(b) :
           (a \o b)[i] = IF i <= Len(a) THEN a[i] ELSE b[i - Len(a)]
  BY <1>1, <1>2, ConcatProperties
<1>4. d = a \o b
  BY DEF a, b
<1>5. /\ d \in Seq(S) /\ Len(d) = Len(a) + Len(b)
      /\ \A i \in 1 .. Len(a) + Len(b) : d[i] = IF i <= Len(a) THEN a[i] ELSE b[i - Len(a)]
  BY <1>3, <1>4, Zenon
<1>6. Len(a) + Len(b) = Len(s) - 1
  BY <1>0, <1>1, <1>2
<1>7. \A i \in 1 .. (Len(s) - 1) : d[i] = IF i <= k - 1 THEN a[i] ELSE b[i - (k - 1)]
  BY <1>1, <1>5, <1>6, Zenon
<1>8. ASSUME NEW i \in 1 .. (Len(s) - 1) PROVE d[i] = IF i < k THEN s[i] ELSE s[i + 1]
  <2>1. CASE i < k
    <3>1. i <= k - 1 /\ i \in 1 .. (k - 1)
      BY <2>1, <1>0
    <3> QED BY <2>1, <3>1, <1>1, <1>7, Zenon
  <2>2. CASE ~ (i < k)
    <3>1. /\ i - (k - 1) \in 1 .. (Len(s) - k) /\ k + (i - (k - 1)) = i + 1
          /\ ~ (i <= k - 1)
      BY <2>2, <1>0
    <3>2. d[i] = b[i - (k - 1)]
      BY <3>1, <1>7, Zenon
    <3>3. b[i - (k - 1)] = s[k + (i - (k - 1))]
      BY <3>1, <1>2, Zenon
    <3> QED BY <2>2, <3>1, <3>2, <3>3, Zenon
  <2> QED BY <2>1, <2>2
<1>9. Len(d) = Len(s) - 1
  BY <1>5, <1>6, Zenon
<1> QED BY <1>5, <1>8, <1>9

\* GetIterator finds the only request of t.
LEMMA PositionFacts ==
  ASSUME NEW q \in Queue, OnePerTxn(q), NEW e \in Entries(q)
  PROVE  /\ Position(q, e.txn_id) \in 1 .. Len(q.request_queue)
         /\ q.request_queue[Position(q, e.txn_id)] = e
PROOF
<1>1. PICK i \in 1 .. Len(q.request_queue) : q.request_queue[i] = e
  BY DEF Entries
<1>2. Len(q.request_queue) \in Nat
  BY DEF Queue
<1> DEFINE P(k) == /\ q.request_queue[k].txn_id = e.txn_id
                   /\ \A j \in 1 .. (k - 1) : q.request_queue[j].txn_id # e.txn_id
<1>3. P(i)
  <2>1. \A j \in 1 .. (i - 1) : j \in 1 .. Len(q.request_queue) /\ j # i
    BY <1>1, <1>2
  <2> QED BY <1>1, <2>1 DEF OnePerTxn
<1>4. Position(q, e.txn_id) = CHOOSE k \in 1 .. Len(q.request_queue) : P(k)
  BY DEF Position
<1>5. Position(q, e.txn_id) \in 1 .. Len(q.request_queue) /\ P(Position(q, e.txn_id))
  <2> HIDE DEF P
  <2> QED BY <1>3, <1>4
<1>6. Position(q, e.txn_id) = i
  BY <1>1, <1>5 DEF OnePerTxn
<1> QED BY <1>1, <1>6

\* In a queue with one request per transaction a transaction's request is unique.
LEMMA SameRequest ==
  ASSUME NEW q \in Queue, OnePerTxn(q), NEW e \in Entries(q), NEW f \in Entries(q),
         e.txn_id = f.txn_id
  PROVE  e = f
BY DEF OnePerTxn, Entries

\* A request of a queue and its fields.
LEMMA EntryType ==
  ASSUME NEW q \in Queue, NEW e \in Entries(q)
  PROVE  /\ e.txn_id \in Txns /\ e.lock_mode \in Modes /\ e.granted \in BOOLEAN
         /\ e = Request(e.txn_id, e.lock_mode, e.granted)
PROOF
<1>1. e \in LockRequest
  BY DEF Queue, Entries
<1> QED BY <1>1 DEF LockRequest, Request

\* A new request at the end of the queue.
LEMMA EnqueueFacts ==
  ASSUME NEW q \in Queue, OnePerTxn(q), NEW t \in Txns, NEW mode \in Modes,
         \A e \in Entries(q) : e.txn_id # t
  PROVE  LET p == Enqueue(q, t, mode)
         IN  /\ p \in Queue /\ OnePerTxn(p) /\ SameCounts(p, q)
             /\ Entries(p) = Entries(q) \cup {Request(t, mode, FALSE)}
PROOF
<1> DEFINE p == Enqueue(q, t, mode)
           s == q.request_queue
           x == Request(t, mode, FALSE)
<1>1. s \in Seq(LockRequest) /\ x \in LockRequest
  BY DEF Queue, LockRequest, Request
<1>a. /\ Append(s, x) \in Seq(LockRequest)
      /\ Len(Append(s, x)) = Len(s) + 1 /\ Append(s, x)[Len(s) + 1] = x
      /\ \A i \in 1 .. Len(s) : Append(s, x)[i] = s[i]
  <2> HIDE DEF s, x
  <2> QED BY <1>1, AppendProperties
<1>b. p = [q EXCEPT !.request_queue = Append(s, x)]
  BY DEF Enqueue, Request
<1>2. p.request_queue = Append(s, x) /\ SameCounts(p, q) /\ p \in Queue
  <2> HIDE DEF s, x, p
  <2> QED BY <1>a, <1>b DEF Queue, SameCounts
<1>3. /\ Len(p.request_queue) = Len(s) + 1 /\ p.request_queue[Len(s) + 1] = x
      /\ \A i \in 1 .. Len(s) : p.request_queue[i] = s[i]
  BY <1>a, <1>2, Zenon
<1>4. \A i \in 1 .. Len(s) : s[i].txn_id # t
  BY DEF Entries
<1>5. x.txn_id = t
  BY DEF Request
<1>6. Len(s) \in Nat
  BY <1>1
<1> HIDE DEF p, s, x
<1>7. OnePerTxn(p)
  <2> SUFFICES ASSUME NEW i \in 1 .. (Len(s) + 1), NEW j \in 1 .. (Len(s) + 1),
                      p.request_queue[i].txn_id = p.request_queue[j].txn_id
               PROVE  i = j
    BY <1>3 DEF OnePerTxn
  <2>1. CASE i \in 1 .. Len(s) /\ j \in 1 .. Len(s)
    BY <1>3, <2>1 DEF OnePerTxn, s
  <2>2. CASE i = Len(s) + 1 /\ j \in 1 .. Len(s)
    BY <1>3, <1>4, <1>5, <2>2
  <2>3. CASE j = Len(s) + 1 /\ i \in 1 .. Len(s)
    BY <1>3, <1>4, <1>5, <2>3
  <2>4. CASE i = Len(s) + 1 /\ j = Len(s) + 1
    BY <2>4
  <2> QED BY <1>6, <2>1, <2>2, <2>3, <2>4
<1>8. Entries(p) = Entries(q) \cup {x}
  <2>1. 1 .. (Len(s) + 1) = (1 .. Len(s)) \cup {Len(s) + 1}
    BY <1>6
  <2> QED BY <1>3, <2>1 DEF Entries, s
<1> QED BY <1>2, <1>7, <1>8 DEF p, x

\* A request that leaves the queue.
LEMMA DequeueFacts ==
  ASSUME NEW q \in Queue, OnePerTxn(q), NEW e \in Entries(q)
  PROVE  LET p == Dequeue(q, e.txn_id)
         IN  /\ p \in Queue /\ OnePerTxn(p) /\ SameCounts(p, q)
             /\ Entries(p) = Others(q, e.txn_id)
PROOF
<1> DEFINE p == Dequeue(q, e.txn_id)
           s == q.request_queue
           d == p.request_queue
           k == Position(q, e.txn_id)
<1>1. s \in Seq(LockRequest) /\ Len(s) \in Nat
  BY DEF Queue
<1>2. k \in 1 .. Len(s) /\ s[k] = e
  BY PositionFacts
<1>3. d = SubSeq(s, 1, k - 1) \o SubSeq(s, k + 1, Len(s)) /\ SameCounts(p, q)
  BY DEF Queue, Dequeue, SameCounts
<1>4. /\ d \in Seq(LockRequest) /\ Len(d) = Len(s) - 1
      /\ \A i \in 1 .. (Len(s) - 1) : d[i] = IF i < k THEN s[i] ELSE s[i + 1]
  <2> HIDE DEF d, k, s
  <2> QED BY <1>1, <1>2, <1>3, RemoveFacts, ZenonT(60)
<1>5. p \in Queue
  BY <1>4 DEF Queue, Dequeue
<1>6. \A i, j \in 1 .. Len(s) : s[i].txn_id = s[j].txn_id => i = j
  BY DEF OnePerTxn
<1> HIDE DEF p, s, d, k
<1>7. OnePerTxn(p)
  <2> SUFFICES ASSUME NEW i \in 1 .. (Len(s) - 1), NEW j \in 1 .. (Len(s) - 1),
                      d[i].txn_id = d[j].txn_id
               PROVE  i = j
    BY <1>4 DEF OnePerTxn, d
  <2> DEFINE o(n) == IF n < k THEN n ELSE n + 1
  <2>1. \A n \in 1 .. (Len(s) - 1) : o(n) \in 1 .. Len(s) /\ d[n] = s[o(n)]
    BY <1>1, <1>2, <1>4
  <2>2. o(i) = o(j)
    BY <1>6, <2>1
  <2> QED BY <1>1, <1>2, <2>2
<1>8. Entries(p) = Others(q, e.txn_id)
  <2>1. ASSUME NEW x \in Entries(p) PROVE x \in Others(q, e.txn_id)
    <3>1. PICK n \in 1 .. (Len(s) - 1) : x = d[n]
      BY <1>4 DEF Entries, d
    <3>2. PICK m \in 1 .. Len(s) : x = s[m] /\ m # k
      <4>1. CASE n < k
        BY <1>1, <1>2, <1>4, <3>1, <4>1
      <4>2. CASE ~ (n < k)
        <5>1. n + 1 \in 1 .. Len(s) /\ n + 1 # k /\ x = s[n + 1]
          BY <1>1, <1>2, <1>4, <3>1, <4>2
        <5> QED BY <5>1
      <4> QED BY <4>1, <4>2
    <3> QED BY <1>2, <1>6, <3>2 DEF Others, Entries, s
  <2>2. ASSUME NEW x \in Others(q, e.txn_id) PROVE x \in Entries(p)
    <3>1. PICK m \in 1 .. Len(s) : x = s[m]
      BY DEF Others, Entries, s
    <3>2. m # k
      BY <1>2, <3>1 DEF Others
    <3>3. \E n \in 1 .. (Len(s) - 1) : x = d[n]
      <4>1. CASE m < k
        <5>1. m \in 1 .. (Len(s) - 1) /\ d[m] = x
          BY <1>1, <1>2, <1>4, <3>1, <4>1
        <5> QED BY <5>1
      <4>2. CASE m > k
        <5>1. m - 1 \in 1 .. (Len(s) - 1) /\ ~ (m - 1 < k) /\ (m - 1) + 1 = m
          BY <1>1, <1>2, <4>2
        <5>2. d[m - 1] = x
          BY <1>4, <3>1, <5>1
        <5> QED BY <5>1, <5>2
      <4> QED BY <1>1, <1>2, <3>2, <4>1, <4>2
    <3> QED BY <1>4, <3>3 DEF Entries, d
  <2> QED BY <2>1, <2>2
<1> QED BY <1>3, <1>5, <1>7, <1>8 DEF p

\* A request that is rewritten in place.
LEMMA SetRequestFacts ==
  ASSUME NEW q \in Queue, OnePerTxn(q), NEW e \in Entries(q),
         NEW mode \in Modes, NEW g \in BOOLEAN
  PROVE  LET p == SetRequest(q, e.txn_id, mode, g)
         IN  /\ p \in Queue /\ OnePerTxn(p) /\ SameCounts(p, q)
             /\ Entries(p) = Others(q, e.txn_id) \cup {Request(e.txn_id, mode, g)}
PROOF
<1> DEFINE t == e.txn_id
           p == SetRequest(q, t, mode, g)
           s == q.request_queue
           d == p.request_queue
           k == Position(q, t)
           x == Request(t, mode, g)
<1>1. s \in Seq(LockRequest) /\ Len(s) \in Nat
  BY DEF Queue
<1>2. k \in 1 .. Len(s) /\ s[k] = e
  BY PositionFacts
<1>3. x \in LockRequest /\ x.txn_id = t
  BY EntryType DEF LockRequest, Request
<1>4. d = [s EXCEPT ![k] = x] /\ SameCounts(p, q)
  BY DEF Queue, SetRequest, SameCounts, Request
<1>5. /\ d \in Seq(LockRequest) /\ Len(d) = Len(s)
      /\ \A i \in 1 .. Len(s) : d[i] = IF i = k THEN x ELSE s[i]
  <2> HIDE DEF d, k, s, x
  <2> QED BY <1>1, <1>2, <1>3, <1>4
<1>6. p \in Queue
  BY <1>5 DEF Queue, SetRequest
<1>7. \A i, j \in 1 .. Len(s) : s[i].txn_id = s[j].txn_id => i = j
  BY DEF OnePerTxn
<1> HIDE DEF p, s, d, k, x
<1>8. \A i \in 1 .. Len(s) : d[i].txn_id = s[i].txn_id
  BY <1>2, <1>3, <1>5
<1>9. OnePerTxn(p)
  BY <1>5, <1>7, <1>8 DEF OnePerTxn, d
<1>10. Entries(p) = Others(q, t) \cup {x}
  <2>1. \A i \in 1 .. Len(s) : s[i].txn_id = t <=> i = k
    BY <1>2, <1>7
  <2>2. Entries(p) = {d[i] : i \in 1 .. Len(s)}
    BY <1>5 DEF Entries, d
  <2>3. Others(q, t) = {s[i] : i \in (1 .. Len(s)) \ {k}}
    BY <2>1 DEF Others, Entries, s
  <2> QED BY <1>2, <1>5, <2>2, <2>3
<1> QED BY <1>4, <1>6, <1>9, <1>10 DEF p, x

-----------------------------------------------------------------------------
(***************************************************************************)
(* The inductive invariant.  Every record's queue matches the lock sets and *)
(* the waiting transactions at all times; what the counters of the queue    *)
(* say, and that nobody sleeps without a reason, holds until the first      *)
(* wound.                                                                   *)
(***************************************************************************)
Wants == [rid : Rids, kind : Kinds]

TypeInv ==
  /\ lock_table \in [Rids -> Queue]
  /\ state \in [Txns -> States]
  /\ shared_set \in [Txns -> SUBSET Rids]
  /\ exclusive_set \in [Txns -> SUBSET Rids]
  /\ pc \in [Txns -> {"run", "wait", "failed", "ending", "done"}]
  /\ want \in [Txns -> Wants \cup {NoRequest}]
  /\ \A t \in Txns : pc[t] = "wait" => want[t] \in Wants
  /\ notified \subseteq Txns
  /\ wounds \in BOOLEAN

Sharers(r) == {t \in Txns : r \in shared_set[t]}
Writers(r) == {t \in Txns : r \in exclusive_set[t]}
Upgraders(r) == {t \in Waiters(r) : want[t].kind = "LockUpgrade"}

\* The queue q is that of a record which S share, X own and W wait for.
Matches(q, S, X, W) ==
  /\ OnePerTxn(q)
  /\ \A e \in Entries(q) :
       IF ~ e.granted THEN e.txn_id \in W
       ELSE IF e.lock_mode = "SHARED" THEN e.txn_id \in S ELSE e.txn_id \in X
  /\ \A t \in S : Request(t, "SHARED", TRUE) \in Entries(q)
  /\ \A t \in X : Request(t, "EXCLUSIVE", TRUE) \in Entries(q)
  /\ \A t \in W : \E mode \in Modes : Request(t, mode, FALSE) \in Entries(q)

RecordOK(r) == Matches(lock_table[r], Sharers(r), Writers(r), Waiters(r))

\* A transaction that runs or waits has not ended, and one that waits was
\* growing when it asked.
StateOK ==
  \A t \in Txns :
    /\ pc[t] = "run" => state[t] # "COMMITTED"
    /\ pc[t] = "wait" => state[t] \in {"GROWING", "ABORTED"}

\* The counters of q describe a record which S share and X own.
CountsOK(q, S, X) ==
  /\ IsFiniteSet(S)
  /\ q.sharing_count = Cardinality(S)
  /\ q.is_writing <=> X # {}
  /\ \A t \in X, u \in S \cup X : t = u

CalmRecord(r) ==
  /\ CountsOK(lock_table[r], Sharers(r), Writers(r))
  /\ lock_table[r].upgrading <=> Upgraders(r) # {}
  /\ \A t, u \in Upgraders(r) : t = u
  /\ \A t \in Waiters(r) \ notified : KeepsWaiting(lock_table[r], want[t].kind)

Calm ==
  /\ \A t \in Txns : pc[t] \in {"run", "wait"} => state[t] # "ABORTED"
  /\ \A r \in Rids : CalmRecord(r)

LockInv ==
  /\ TypeInv
  /\ \A r \in Rids : RecordOK(r)
  /\ StateOK
  /\ ~ wounds => Calm

-----------------------------------------------------------------------------
(***************************************************************************)
(* What the operations on a queue do to the set of its requests, read as     *)
(* who shares, owns and waits for the record.                               *)
(***************************************************************************)

\* A transaction has one request, so it shares, owns or waits, never two of them.
LEMMA MatchesDisjoint ==
  ASSUME NEW q \in Queue, NEW S, NEW X, NEW W, Matches(q, S, X, W)
  PROVE  S \cap X = {} /\ S \cap W = {} /\ X \cap W = {}
PROOF
<1>0. OnePerTxn(q)
  BY DEF Matches
<1>1. ASSUME NEW t \in S, t \in X PROVE FALSE
  <2>1. Request(t, "SHARED", TRUE) \in Entries(q) /\ Request(t, "EXCLUSIVE", TRUE) \in Entries(q)
    BY <1>1 DEF Matches
  <2>2. Request(t, "SHARED", TRUE) = Request(t, "EXCLUSIVE", TRUE)
    BY <1>0, <2>1, SameRequest DEF Request
  <2> QED BY <2>2 DEF Request
<1>2. ASSUME NEW t \in W, NEW m \in Modes, Request(t, m, TRUE) \in Entries(q) PROVE FALSE
  <2>1. PICK n \in Modes : Request(t, n, FALSE) \in Entries(q)
    BY DEF Matches
  <2>2. Request(t, m, TRUE) = Request(t, n, FALSE)
    BY <1>0, <1>2, <2>1, SameRequest DEF Request
  <2> QED BY <2>2 DEF Request
<1>3. \A t \in W : t \notin S /\ t \notin X
  BY <1>2 DEF Matches, Modes
<1> QED BY <1>1, <1>3

\* Every transaction that shares, owns or waits for the record has a request.
LEMMA HasRequest ==
  ASSUME NEW q \in Queue, NEW S, NEW X, NEW W, Matches(q, S, X, W), NEW t \in S \cup X \cup W
  PROVE  \E e \in Entries(q) : e.txn_id = t
BY DEF Matches, Request

\* A new request makes its transaction a waiter and nothing else.
LEMMA EnqueueMatches ==
  ASSUME NEW q \in Queue, NEW S, NEW X, NEW W, Matches(q, S, X, W),
         NEW t \in Txns, t \notin S \cup X \cup W, NEW mode \in Modes
  PROVE  LET p == Enqueue(q, t, mode)
         IN  p \in Queue /\ SameCounts(p, q) /\ Matches(p, S, X, W \cup {t})
PROOF
<1>1. OnePerTxn(q) /\ \A e \in Entries(q) : e.txn_id # t
  BY DEF Matches
<1> DEFINE p == Enqueue(q, t, mode)
<1>2. /\ p \in Queue /\ OnePerTxn(p) /\ SameCounts(p, q)
      /\ Entries(p) = Entries(q) \cup {Request(t, mode, FALSE)}
  BY <1>1, EnqueueFacts
<1>3. Request(t, mode, FALSE).txn_id = t /\ ~ Request(t, mode, FALSE).granted
  BY DEF Request
<1> HIDE DEF p
<1>4. Matches(p, S, X, W \cup {t})
  BY <1>2, <1>3 DEF Matches
<1> QED BY <1>2, <1>4 DEF p

\* A request taken out leaves the other requests as they are.
LEMMA DequeueMatches ==
  ASSUME NEW q \in Queue, NEW S, NEW X, NEW W, Matches(q, S, X, W),
         NEW t \in S \cup X \cup W
  PROVE  LET p == Dequeue(q, t)
         IN  p \in Queue /\ SameCounts(p, q) /\ Matches(p, S \ {t}, X \ {t}, W \ {t})
PROOF
<1> DEFINE p == Dequeue(q, t)
<1>1. PICK e \in Entries(q) : e.txn_id = t
  BY HasRequest
<1>2. /\ p \in Queue /\ OnePerTxn(p) /\ SameCounts(p, q)
      /\ Entries(p) = Others(q, t)
  BY <1>1, DequeueFacts DEF Matches
<1> HIDE DEF p
<1>4. \A f \in Entries(q) : f \in Entries(p) <=> f.txn_id # t
  BY <1>2 DEF Others
<1>5. \A f \in Entries(p) : f \in Entries(q) /\ f.txn_id # t
  BY <1>2 DEF Others
<1>6. \A u \in S \ {t} : Request(u, "SHARED", TRUE) \in Entries(p)
  BY <1>4 DEF Matches, Request
<1>7. \A u \in X \ {t} : Request(u, "EXCLUSIVE", TRUE) \in Entries(p)
  BY <1>4 DEF Matches, Request
<1>8. \A u \in W \ {t} : \E mode \in Modes : Request(u, mode, FALSE) \in Entries(p)
  BY <1>4 DEF Matches, Request
<1>9. \A f \in Entries(p) :
        IF ~ f.granted THEN f.txn_id \in W \ {t}
        ELSE IF f.lock_mode = "SHARED" THEN f.txn_id \in S \ {t} ELSE f.txn_id \in X \ {t}
  BY <1>5 DEF Matches
<1>10. Matches(p, S \ {t}, X \ {t}, W \ {t})
  BY <1>2, <1>6, <1>7, <1>8, <1>9, Zenon DEF Matches
<1> QED BY <1>2, <1>10 DEF p

\* A request rewritten in place moves its transaction to the set of its new mode.
LEMMA SetRequestMatches ==
  ASSUME NEW q \in Queue, NEW S, NEW X, NEW W, Matches(q, S, X, W),
         NEW t \in S \cup X \cup W, NEW mode \in Modes, NEW g \in BOOLEAN
  PROVE  LET p == SetRequest(q, t, mode, g)
         IN  /\ p \in Queue /\ SameCounts(p, q)
             /\ ~ g => Matches(p, S \ {t}, X \ {t}, W \cup {t})
             /\ g /\ mode = "SHARED" => Matches(p, S \cup {t}, X \ {t}, W \ {t})
             /\ g /\ mode = "EXCLUSIVE" => Matches(p, S \ {t}, X \cup {t}, W \ {t})
PROOF
<1> DEFINE p == SetRequest(q, t, mode, g)
           x == Request(t, mode, g)
<1>1. PICK e \in Entries(q) : e.txn_id = t
  BY HasRequest
<1>2. /\ p \in Queue /\ OnePerTxn(p) /\ SameCounts(p, q)
      /\ Entries(p) = Others(q, t) \cup {x}
  BY <1>1, SetRequestFacts DEF Matches
<1>3. x.txn_id = t /\ x.lock_mode = mode /\ x.granted = g
  BY DEF Request
<1> HIDE DEF p, x
<1>5. x \in Entries(p) /\ \A f \in Entries(q) : f.txn_id # t => f \in Entries(p)
  BY <1>2 DEF Others
<1>6. \A f \in Entries(p) : f = x \/ (f \in Entries(q) /\ f.txn_id # t)
  BY <1>2 DEF Others
<1>7. ASSUME ~ g PROVE Matches(p, S \ {t}, X \ {t}, W \cup {t})
  <2>1. x = Request(t, mode, FALSE)
    BY <1>7 DEF x
  <2>2. \A f \in Entries(p) :
          IF ~ f.granted THEN f.txn_id \in W \cup {t}
          ELSE IF f.lock_mode = "SHARED" THEN f.txn_id \in S \ {t} ELSE f.txn_id \in X \ {t}
    BY <1>3, <1>6, <1>7 DEF Matches
  <2>3. \A u \in S \ {t} : Request(u, "SHARED", TRUE) \in Entries(p)
    BY <1>5, <2>1 DEF Matches, Request
  <2>4. \A u \in X \ {t} : Request(u, "EXCLUSIVE", TRUE) \in Entries(p)
    BY <1>5, <2>1 DEF Matches, Request
  <2>5. \A u \in W \cup {t} : \E m \in Modes : Request(u, m, FALSE) \in Entries(p)
    BY <1>5, <2>1 DEF Matches, Request
  <2> QED BY <1>2, <2>2, <2>3, <2>4, <2>5, Zenon DEF Matches
<1>8. ASSUME g, mode = "SHARED" PROVE Matches(p, S \cup {t}, X \ {t}, W \ {t})
  <2>1. x = Request(t, "SHARED", TRUE)
    BY <1>8 DEF x
  <2>2. \A f \in Entries(p) :
          IF ~ f.granted THEN f.txn_id \in W \ {t}
          ELSE IF f.lock_mode = "SHARED" THEN f.txn_id \in S \cup {t} ELSE f.txn_id \in X \ {t}
    BY <1>3, <1>6, <1>8 DEF Matches
  <2>3. \A u \in S \cup {t} : Request(u, "SHARED", TRUE) \in Entries(p)
    BY <1>5, <2>1 DEF Matches, Request
  <2>4. \A u \in X \ {t} : Request(u, "EXCLUSIVE", TRUE) \in Entries(p)
    BY <1>5, <2>1 DEF Matches, Request
  <2>5. \A u \in W \ {t} : \E m \in Modes : Request(u, m, FALSE) \in Entries(p)
    BY <1>5, <2>1 DEF Matches, Request
  <2> QED BY <1>2, <2>2, <2>3, <2>4, <2>5, Zenon DEF Matches
<1>9. ASSUME g, mode = "EXCLUSIVE" PROVE Matches(p, S \ {t}, X \cup {t}, W \ {t})
  <2>1. x = Request(t, "EXCLUSIVE", TRUE)
    BY <1>9 DEF x
  <2>2. \A f \in Entries(p) :
          IF ~ f.granted THEN f.txn_id \in W \ {t}
          ELSE IF f.lock_mode = "SHARED" THEN f.txn_id \in S \ {t} ELSE f.txn_id \in X \cup {t}
    BY <1>3, <1>6, <1>9 DEF Matches
  <2>3. \A u \in S \ {t} : Request(u, "SHARED", TRUE) \in Entries(p)
    BY <1>5, <2>1 DEF Matches, Request
  <2>4. \A u \in X \cup {t} : Request(u, "EXCLUSIVE", TRUE) \in Entries(p)
    BY <1>5, <2>1 DEF Matches, Request
  <2>5. \A u \in W \ {t} : \E m \in Modes : Request(u, m, FALSE) \in Entries(p)
    BY <1>5, <2>1 DEF Matches, Request
  <2> QED BY <1>2, <2>2, <2>3, <2>4, <2>5, Zenon DEF Matches
<1> QED BY <1>2, <1>7, <1>8, <1>9 DEF p

\* Matches is about the requests only.
LEMMA SameQueueMatches ==
  ASSUME NEW q, NEW p, q.request_queue = p.request_queue,
         NEW S, NEW X, NEW W, Matches(q, S, X, W)
  PROVE  Matches(p, S, X, W)
PROOF
<1>1. Entries(p) = Entries(q)
  BY Zenon DEF Entries
<1>2. OnePerTxn(q) => OnePerTxn(p)
  BY Zenon DEF OnePerTxn
<1> QED BY <1>1, <1>2, Zenon DEF Matches

-----------------------------------------------------------------------------
(***************************************************************************)
(* What a step leaves alone.                                                *)
(***************************************************************************)

\* The record r keeps its queue, its holders and its waiters, and nobody who was
\* notified falls asleep again.
Untouched(r) ==
  /\ lock_table'[r] = lock_table[r]
  /\ Sharers(r)' = Sharers(r)
  /\ Writers(r)' = Writers(r)
  /\ Waiters(r)' = Waiters(r)
  /\ \A t \in Waiters(r) : want'[t] = want[t] /\ (t \in notified => t \in notified')

\* What holds of a record keeps holding when a step does not touch it.
LEMMA UntouchedRecord ==
  ASSUME NEW r \in Rids, Untouched(r)
  PROVE  /\ RecordOK(r) => RecordOK(r)'
         /\ CalmRecord(r) => CalmRecord(r)'
PROOF
<1>1. RecordOK(r) => RecordOK(r)'
  BY Zenon DEF RecordOK, Untouched
<1>2. Upgraders(r)' = Upgraders(r)
  <2>1. Upgraders(r)' = {t \in Waiters(r)' : want'[t].kind = "LockUpgrade"}
    BY Zenon DEF Upgraders
  <2> HIDE DEF Waiters
  <2> QED BY <2>1 DEF Upgraders, Untouched
<1>3. ASSUME CalmRecord(r)
      PROVE  \A t \in Waiters(r)' \ notified' : KeepsWaiting(lock_table'[r], want'[t].kind)
  BY <1>3 DEF CalmRecord, Untouched
<1>4. CalmRecord(r) => CalmRecord(r)'
  BY <1>2, <1>3, Zenon DEF CalmRecord, Untouched
<1> QED BY <1>1, <1>4

-----------------------------------------------------------------------------
(***************************************************************************)
(* Throw, wait or return.  Pending describes the queue q that Settle is      *)
(* given: the request of t is in it, not granted, and until the first wound  *)
(* its counters describe the granted requests.                              *)
(***************************************************************************)
Pending(t, r, kind, q, st, shared, waits) ==
  /\ q \in Queue
  /\ st \in [Txns -> States] /\ \A u \in Txns : st[u] \in {state[u], "ABORTED"}
  /\ shared \in [Txns -> SUBSET Rids]
  /\ \A u \in Txns : shared[u] = IF u = t THEN shared_set[t] \ {r} ELSE shared_set[u]
  /\ r \notin exclusive_set[t]
  /\ \/ pc[t] = "run"
     \/ pc[t] = "wait" /\ want[t].rid = r
  /\ state[t] \in {"GROWING", "ABORTED"}
  /\ Matches(q, Sharers(r) \ {t}, Writers(r), Waiters(r) \cup {t})

\* The same, for the counters.
PendingCalm(t, r, kind, q, st, waits) ==
  /\ st = state
  /\ CountsOK(q, Sharers(r) \ {t}, Writers(r))
  /\ waits <=> KeepsWaiting(q, kind)
  /\ IF kind = "LockUpgrade"
     THEN Upgraders(r) \ {t} = {} /\ (waits => q.upgrading)
     ELSE (q.upgrading <=> Upgraders(r) # {}) /\ t \notin Upgraders(r)
  /\ \A u \in Waiters(r) \ (notified \cup {t}) :
       /\ kind = "LockShared" => KeepsWaiting(q, want[u].kind)
       /\ waits => KeepsWaiting(q, want[u].kind)

\* The counters of g are those of q after the grant.
GrantCounted(q, g, kind) ==
  IF kind = "LockShared"
  THEN /\ g.sharing_count = q.sharing_count + 1
       /\ g.is_writing = q.is_writing /\ g.upgrading = q.upgrading
  ELSE /\ g.sharing_count = q.sharing_count /\ g.is_writing
       /\ g.upgrading <=> q.upgrading /\ kind # "LockUpgrade"

\* The queue that each of the three outcomes leaves.
LEMMA SettleQueue ==
  ASSUME NEW t \in Txns, NEW r \in Rids, NEW kind \in Kinds, NEW q, NEW st, NEW shared, NEW waits,
         Pending(t, r, kind, q, st, shared, waits)
  PROVE  LET S == Sharers(r)
             X == Writers(r)
             W == Waiters(r)
             d == CheckAborted(q, t)
             g == Granted(q, t, kind)
         IN  /\ d \in Queue /\ Matches(d, S \ {t}, X, W \ {t})
             /\ g \in Queue
             /\ IF kind = "LockShared"
                THEN Matches(g, S \cup {t}, X, W \ {t})
                ELSE Matches(g, S \ {t}, X \cup {t}, W \ {t})
             /\ GrantCounted(q, g, kind)
PROOF
<1> DEFINE S == Sharers(r)
           X == Writers(r)
           W == Waiters(r)
           d == CheckAborted(q, t)
           g == Granted(q, t, kind)
<1>1. q \in Queue /\ Matches(q, S \ {t}, X, W \cup {t}) /\ t \notin X
  BY DEF Pending, Writers
<1> HIDE DEF S, X, W
<1>2. (S \ {t}) \ {t} = S \ {t} /\ X \ {t} = X /\ (W \cup {t}) \ {t} = W \ {t}
      /\ (S \ {t}) \cup {t} = S \cup {t} /\ t \in (S \ {t}) \cup X \cup (W \cup {t})
  BY <1>1
<1>3. d \in Queue /\ Matches(d, (S \ {t}) \ {t}, X \ {t}, (W \cup {t}) \ {t})
  BY <1>1, <1>2, DequeueMatches DEF CheckAborted
<1>4. d \in Queue /\ Matches(d, S \ {t}, X, W \ {t})
  BY <1>2, <1>3
<1>5. CASE kind = "LockShared"
  <2> DEFINE p == SetRequest(q, t, "SHARED", TRUE)
  <2>1. p \in Queue /\ SameCounts(p, q) /\ Matches(p, (S \ {t}) \cup {t}, X \ {t}, (W \cup {t}) \ {t})
    BY <1>1, <1>2, SetRequestMatches DEF Modes
  <2>2. g = [p EXCEPT !.sharing_count = @ + 1]
    BY <1>5 DEF Granted
  <2> HIDE DEF p, g
  <2>3. /\ g \in Queue /\ g.request_queue = p.request_queue /\ g.sharing_count = q.sharing_count + 1
        /\ g.is_writing = q.is_writing /\ g.upgrading = q.upgrading
    BY <2>1, <2>2, <1>1 DEF Queue, SameCounts
  <2>4. Matches(p, S \cup {t}, X, W \ {t})
    BY <1>2, <2>1
  <2>5. Matches(g, S \cup {t}, X, W \ {t})
    BY <2>3, <2>4, SameQueueMatches
  <2> QED BY <1>4, <1>5, <2>3, <2>5 DEF S, X, W, g, GrantCounted
<1>6. CASE kind # "LockShared"
  <2> DEFINE p == SetRequest(q, t, "EXCLUSIVE", TRUE)
  <2>1. p \in Queue /\ SameCounts(p, q) /\ Matches(p, (S \ {t}) \ {t}, X \cup {t}, (W \cup {t}) \ {t})
    BY <1>1, <1>2, SetRequestMatches DEF Modes
  <2>2. g = [p EXCEPT !.is_writing = TRUE, !.upgrading = @ /\ kind # "LockUpgrade"]
    BY <1>6 DEF Granted
  <2> HIDE DEF p, g
  <2>3. /\ g \in Queue /\ g.request_queue = p.request_queue /\ g.sharing_count = q.sharing_count
        /\ g.is_writing /\ (g.upgrading <=> q.upgrading /\ kind # "LockUpgrade")
    BY <2>1, <2>2, <1>1 DEF Queue, SameCounts
  <2>4. Matches(p, S \ {t}, X \cup {t}, W \ {t})
    BY <1>2, <2>1
  <2>5. Matches(g, S \ {t}, X \cup {t}, W \ {t})
    BY <2>3, <2>4, SameQueueMatches
  <2> QED BY <1>4, <1>6, <2>3, <2>5 DEF S, X, W, g, GrantCounted
<1> QED BY <1>5, <1>6

\* What Settle does to the transactions and the records.
Outcome(t, r, kind, q, st, waits) ==
  /\ \A s \in Rids \ {r} : Untouched(s)
  /\ state' = st
  /\ \A u \in Txns \ {t} : pc'[u] = pc[u] /\ want'[u] = want[u]
  /\ \/ /\ pc'[t] = "failed" /\ st[t] = "ABORTED"
        /\ lock_table'[r] = CheckAborted(q, t)
        /\ Sharers(r)' = Sharers(r) \ {t}
        /\ Writers(r)' = Writers(r)
        /\ Waiters(r)' = Waiters(r) \ {t}
     \/ /\ pc'[t] = "wait" /\ st[t] # "ABORTED" /\ waits
        /\ lock_table'[r] = q
        /\ Sharers(r)' = Sharers(r) \ {t}
        /\ Writers(r)' = Writers(r)
        /\ Waiters(r)' = Waiters(r) \cup {t}
        /\ want'[t].kind = kind
     \/ /\ pc'[t] = "run" /\ st[t] # "ABORTED" /\ ~ waits
        /\ lock_table'[r] = Granted(q, t, kind)
        /\ Waiters(r)' = Waiters(r) \ {t}
        /\ IF kind = "LockShared"
           THEN Sharers(r)' = Sharers(r) \cup {t} /\ Writers(r)' = Writers(r)
           ELSE Sharers(r)' = Sharers(r) \ {t} /\ Writers(r)' = Writers(r) \cup {t}

\* Settle changes the record r and the transaction t only, apart from the
\* transactions that st aborts.
LEMMA SettleFrame ==
  ASSUME TypeInv, NEW t \in Txns, NEW r \in Rids, NEW kind \in Kinds,
         NEW q, NEW st, NEW shared, NEW waits \in BOOLEAN,
         Pending(t, r, kind, q, st, shared, waits),
         Settle(t, r, kind, q, st, shared, waits),
         notified' \subseteq Txns, \A u \in notified : u # t => u \in notified',
         wounds' \in BOOLEAN
  PROVE  TypeInv' /\ Outcome(t, r, kind, q, st, waits)
PROOF
<1>0. CheckAborted(q, t) \in Queue /\ Granted(q, t, kind) \in Queue /\ q \in Queue
  <2>1. q \in Queue
    BY DEF Pending
  <2> QED BY <2>1, SettleQueue, Zenon
<1>1. shared \in [Txns -> SUBSET Rids] /\ st \in [Txns -> States]
      /\ \A u \in Txns : shared[u] = IF u = t THEN shared_set[t] \ {r} ELSE shared_set[u]
  BY DEF Pending
<1>2. pc[t] = "run" \/ (pc[t] = "wait" /\ want[t].rid = r)
  BY DEF Pending
<1>3. /\ NoRequest \in Wants \cup {NoRequest}
      /\ [rid |-> r, kind |-> kind] \in Wants
      /\ [rid |-> r, kind |-> kind].rid = r /\ [rid |-> r, kind |-> kind].kind = kind
  BY DEF Wants
<1>4. CASE st[t] = "ABORTED" /\ Throw(t, r, CheckAborted(q, t), st)
           /\ shared_set' = shared /\ exclusive_set' = exclusive_set
  <2>1. TypeInv'
    BY <1>0, <1>1, <1>3, <1>4 DEF TypeInv, Throw
  <2>2. ASSUME NEW s \in Rids \ {r} PROVE Untouched(s)
    BY <1>1, <1>2, <1>4 DEF Untouched, TypeInv, Throw, Sharers, Writers, Waiters
  <2>3. /\ pc'[t] = "failed" /\ lock_table'[r] = CheckAborted(q, t) /\ state' = st
        /\ \A u \in Txns \ {t} : pc'[u] = pc[u] /\ want'[u] = want[u]
        /\ Sharers(r)' = Sharers(r) \ {t}
        /\ Writers(r)' = Writers(r)
        /\ Waiters(r)' = Waiters(r) \ {t}
    BY <1>1, <1>2, <1>4 DEF TypeInv, Throw, Sharers, Writers, Waiters
  <2> QED BY <1>4, <2>1, <2>2, <2>3 DEF Outcome
<1>5. CASE st[t] # "ABORTED" /\ waits /\ Block(t, r, kind, q, st)
           /\ shared_set' = shared /\ exclusive_set' = exclusive_set
  <2> DEFINE w == [rid |-> r, kind |-> kind]
  <2>0. want' = [want EXCEPT ![t] = w]
    BY <1>5 DEF Block
  <2> HIDE DEF w
  <2>1. TypeInv'
    BY <1>0, <1>1, <1>3, <1>5, <2>0 DEF TypeInv, Block, w
  <2>2. ASSUME NEW s \in Rids \ {r} PROVE Untouched(s)
    BY <1>1, <1>2, <1>3, <1>5, <2>0 DEF Untouched, TypeInv, Block, Sharers, Writers, Waiters, w
  <2>3. /\ pc'[t] = "wait" /\ lock_table'[r] = q /\ state' = st
        /\ \A u \in Txns \ {t} : pc'[u] = pc[u] /\ want'[u] = want[u]
        /\ Sharers(r)' = Sharers(r) \ {t}
        /\ Writers(r)' = Writers(r)
        /\ Waiters(r)' = Waiters(r) \cup {t}
        /\ want'[t].kind = kind
    BY <1>1, <1>2, <1>3, <1>5, <2>0 DEF TypeInv, Block, Sharers, Writers, Waiters, w
  <2> QED BY <1>5, <2>1, <2>2, <2>3 DEF Outcome
<1>6. CASE /\ st[t] # "ABORTED" /\ ~ waits /\ Grant(t, r, kind, q, st)
           /\ IF kind = "LockShared"
              THEN shared_set' = [shared EXCEPT ![t] = @ \cup {r}] /\ UNCHANGED exclusive_set
              ELSE shared_set' = shared /\ exclusive_set' = [exclusive_set EXCEPT ![t] = @ \cup {r}]
  <2>1. TypeInv'
    BY <1>0, <1>1, <1>3, <1>6 DEF TypeInv, Grant
  <2>2. ASSUME NEW s \in Rids \ {r} PROVE Untouched(s)
    BY <1>1, <1>2, <1>6 DEF Untouched, TypeInv, Grant, Sharers, Writers, Waiters
  <2>3. /\ pc'[t] = "run" /\ lock_table'[r] = Granted(q, t, kind) /\ state' = st
        /\ \A u \in Txns \ {t} : pc'[u] = pc[u] /\ want'[u] = want[u]
        /\ Waiters(r)' = Waiters(r) \ {t}
    BY <1>2, <1>6 DEF TypeInv, Grant, Waiters
  <2>4. IF kind = "LockShared"
        THEN Sharers(r)' = Sharers(r) \cup {t} /\ Writers(r)' = Writers(r)
        ELSE Sharers(r)' = Sharers(r) \ {t} /\ Writers(r)' = Writers(r) \cup {t}
    BY <1>1, <1>6 DEF TypeInv, Sharers, Writers
  <2> QED BY <1>6, <2>1, <2>2, <2>3, <2>4 DEF Outcome
<1> QED BY <1>4, <1>5, <1>6 DEF Settle

\* One sharer more, counted.
LEMMA CountOneMore ==
  ASSUME NEW S, IsFiniteSet(S), NEW t
  PROVE  IsFiniteSet(S \cup {t})
         /\ (t \notin S => Cardinality(S \cup {t}) = Cardinality(S) + 1)
BY FS_AddElement

\* Until the first wound an outcome of Settle leaves the record calm.
LEMMA SettleCalm ==
  ASSUME LockInv, NEW t \in Txns, NEW r \in Rids, NEW kind \in Kinds,
         NEW q, NEW st, NEW shared, NEW waits \in BOOLEAN,
         Pending(t, r, kind, q, st, shared, waits),
         PendingCalm(t, r, kind, q, st, waits),
         Settle(t, r, kind, q, st, shared, waits), ~ wounds,
         notified' \subseteq Txns, \A u \in notified : u # t => u \in notified',
         wounds' \in BOOLEAN
  PROVE  Calm'
PROOF
<1> DEFINE S == Sharers(r)
           X == Writers(r)
           W == Waiters(r)
           g == Granted(q, t, kind)
<1>0. TypeInv
  BY DEF LockInv
<1>o. Outcome(t, r, kind, q, st, waits)
  BY <1>0, SettleFrame
<1>1. /\ \A s \in Rids \ {r} : Untouched(s)
      /\ state' = st
      /\ \A u \in Txns \ {t} : pc'[u] = pc[u] /\ want'[u] = want[u]
  BY <1>o, Zenon DEF Outcome
<1>2. Calm /\ st = state /\ pc[t] \in {"run", "wait"}
  BY DEF LockInv, Pending, PendingCalm
<1>3. state[t] # "ABORTED"
  BY <1>2 DEF Calm
<1>4. \A u \in Txns : pc'[u] \in {"run", "wait"} => state'[u] # "ABORTED"
  BY <1>1, <1>2, <1>3 DEF Calm
<1>5. \A s \in Rids \ {r} : CalmRecord(s)'
  BY <1>1, <1>2, UntouchedRecord DEF Calm
<1>6. W \subseteq Txns /\ Upgraders(r) = {u \in W : want[u].kind = "LockUpgrade"}
      /\ Upgraders(r)' = {u \in Waiters(r)' : want'[u].kind = "LockUpgrade"}
  BY DEF Waiters, Upgraders
<1>7. /\ IsFiniteSet(S \ {t}) /\ q.sharing_count = Cardinality(S \ {t})
      /\ q.is_writing <=> X # {}
      /\ \A a \in X, b \in (S \ {t}) \cup X : a = b
  BY DEF PendingCalm, CountsOK
<1>8. Cardinality(S \ {t}) \in Nat /\ (Cardinality(S \ {t}) = 0 <=> S \ {t} = {})
  BY <1>7, FS_CardinalityType, FS_EmptySet
<1>9. \A u \in W \ (notified \cup {t}) :
        /\ kind = "LockShared" => KeepsWaiting(q, want[u].kind)
        /\ waits => KeepsWaiting(q, want[u].kind)
  BY DEF PendingCalm
<1>10. waits <=> KeepsWaiting(q, kind)
  BY DEF PendingCalm
<1>11. IF kind = "LockUpgrade"
       THEN Upgraders(r) \ {t} = {} /\ (waits => q.upgrading)
       ELSE (q.upgrading <=> Upgraders(r) # {}) /\ t \notin Upgraders(r)
  BY DEF PendingCalm
<1>12. \A a, b \in Upgraders(r) : a = b
  BY <1>2 DEF Calm, CalmRecord
<1>13. CASE /\ waits
            /\ lock_table'[r] = q
            /\ Sharers(r)' = S \ {t}
            /\ Writers(r)' = X
            /\ Waiters(r)' = W \cup {t}
            /\ want'[t].kind = kind
  <2>1. CountsOK(lock_table[r], Sharers(r), Writers(r))'
    BY <1>7, <1>13 DEF CountsOK
  <2>2. IF kind = "LockUpgrade" THEN Upgraders(r)' = {t} ELSE Upgraders(r)' = Upgraders(r)
    BY <1>1, <1>6, <1>11, <1>13
  <2>3. /\ q.upgrading <=> Upgraders(r)' # {}
        /\ \A a, b \in Upgraders(r)' : a = b
    BY <1>11, <1>12, <1>13, <2>2
  <2>4. ASSUME NEW u \in (W \cup {t}) \ notified' PROVE KeepsWaiting(q, want'[u].kind)
    BY <1>1, <1>6, <1>9, <1>10, <1>13
  <2> HIDE DEF S, X, W
  <2>5. CalmRecord(r)'
    BY <1>13, <2>1, <2>3, <2>4, Zenon DEF CalmRecord
  <2> QED BY <1>4, <1>5, <2>5, Zenon DEF Calm
<1>g. GrantCounted(q, g, kind)
  BY SettleQueue, Zenon
<1>14. CASE /\ ~ waits
            /\ lock_table'[r] = g
            /\ Waiters(r)' = W \ {t}
            /\ IF kind = "LockShared"
               THEN Sharers(r)' = S \cup {t} /\ Writers(r)' = X
               ELSE Sharers(r)' = S \ {t} /\ Writers(r)' = X \cup {t}
  <2>0. ~ KeepsWaiting(q, kind) /\ X = {}
    BY <1>7, <1>10, <1>14 DEF KeepsWaiting
  <2>1. IF kind = "LockUpgrade" THEN Upgraders(r)' = {} ELSE Upgraders(r)' = Upgraders(r)
    BY <1>1, <1>6, <1>11, <1>14
  <2>2. \A a, b \in Upgraders(r)' : a = b
    BY <1>12, <2>1
  <2>3. CASE kind = "LockShared"
    <3>1. /\ g.sharing_count = q.sharing_count + 1
          /\ g.is_writing = q.is_writing /\ g.upgrading = q.upgrading
      BY <1>g, <2>3 DEF GrantCounted
    <3> HIDE DEF g
    <3>2. IsFiniteSet(S \cup {t}) /\ Cardinality(S \cup {t}) = Cardinality(S \ {t}) + 1
      <4>1. (S \ {t}) \cup {t} = S \cup {t}
        OBVIOUS
      <4> QED BY <1>7, <4>1, CountOneMore, t \notin S \ {t}
    <3>3. CountsOK(lock_table[r], Sharers(r), Writers(r))'
      BY <1>7, <1>14, <2>0, <2>3, <3>1, <3>2 DEF CountsOK
    <3>4. g.upgrading <=> Upgraders(r)' # {}
      BY <1>11, <2>1, <2>3, <3>1
    <3>5. ASSUME NEW u \in (W \ {t}) \ notified' PROVE KeepsWaiting(g, want'[u].kind)
      <4>1. KeepsWaiting(q, want[u].kind) /\ want'[u] = want[u]
        BY <1>1, <1>6, <1>9, <2>3
      <4> QED BY <1>7, <1>8, <2>0, <3>1, <4>1 DEF KeepsWaiting
    <3> HIDE DEF S, X, W
    <3>6. CalmRecord(r)'
      BY <1>14, <2>2, <3>3, <3>4, <3>5, Zenon DEF CalmRecord
    <3> QED BY <1>4, <1>5, <3>6, Zenon DEF Calm
  <2>4. CASE kind # "LockShared"
    <3>1. /\ g.sharing_count = q.sharing_count /\ g.is_writing
          /\ g.upgrading <=> q.upgrading /\ kind # "LockUpgrade"
      BY <1>g, <2>4 DEF GrantCounted
    <3> HIDE DEF g
    <3>2. S \ {t} = {}
      BY <1>7, <1>8, <2>0, <2>4 DEF KeepsWaiting
    <3>3. CountsOK(lock_table[r], Sharers(r), Writers(r))'
      BY <1>7, <1>14, <2>0, <2>4, <3>1, <3>2 DEF CountsOK
    <3>4. g.upgrading <=> Upgraders(r)' # {}
      BY <1>11, <2>1, <2>4, <3>1
    <3>5. ASSUME NEW u \in (W \ {t}) \ notified' PROVE KeepsWaiting(g, want'[u].kind)
      BY <3>1 DEF KeepsWaiting
    <3> HIDE DEF S, X, W
    <3>6. CalmRecord(r)'
      BY <1>14, <2>2, <3>3, <3>4, <3>5, Zenon DEF CalmRecord
    <3> QED BY <1>4, <1>5, <3>6, Zenon DEF Calm
  <2> QED BY <2>3, <2>4
<1>15. \/ st[t] = "ABORTED"
       \/ /\ waits
          /\ lock_table'[r] = q
          /\ Sharers(r)' = S \ {t}
          /\ Writers(r)' = X
          /\ Waiters(r)' = W \cup {t}
          /\ want'[t].kind = kind
       \/ /\ ~ waits
          /\ lock_table'[r] = g
          /\ Waiters(r)' = W \ {t}
          /\ IF kind = "LockShared"
             THEN Sharers(r)' = S \cup {t} /\ Writers(r)' = X
             ELSE Sharers(r)' = S \ {t} /\ Writers(r)' = X \cup {t}
  BY <1>o, Zenon DEF Outcome
<1> QED BY <1>2, <1>3, <1>13, <1>14, <1>15, Zenon

\* What a call that throws, waits or returns makes of the invariant.
LEMMA SettleStep ==
  ASSUME LockInv, NEW t \in Txns, NEW r \in Rids, NEW kind \in Kinds,
         NEW q, NEW st, NEW shared, NEW waits \in BOOLEAN,
         Pending(t, r, kind, q, st, shared, waits),
         ~ wounds' => ~ wounds /\ PendingCalm(t, r, kind, q, st, waits),
         Settle(t, r, kind, q, st, shared, waits),
         notified' \subseteq Txns, \A u \in notified : u # t => u \in notified',
         wounds' \in BOOLEAN
  PROVE  LockInv'
PROOF
<1>0. TypeInv
  BY DEF LockInv
<1>o. TypeInv' /\ Outcome(t, r, kind, q, st, waits)
  BY <1>0, SettleFrame
<1>1. /\ TypeInv'
      /\ \A s \in Rids \ {r} : Untouched(s)
      /\ state' = st
      /\ \A u \in Txns \ {t} : pc'[u] = pc[u] /\ want'[u] = want[u]
      /\ pc'[t] \in {"failed", "wait", "run"}
  BY <1>o, Zenon DEF Outcome
<1>2. RecordOK(r)'
  <2> DEFINE S == Sharers(r)
             X == Writers(r)
             W == Waiters(r)
             d == CheckAborted(q, t)
             g == Granted(q, t, kind)
  <2>1. /\ Matches(d, S \ {t}, X, W \ {t})
        /\ IF kind = "LockShared"
           THEN Matches(g, S \cup {t}, X, W \ {t})
           ELSE Matches(g, S \ {t}, X \cup {t}, W \ {t})
    BY SettleQueue, Zenon
  <2>2. Matches(q, S \ {t}, X, W \cup {t})
    BY DEF Pending
  <2>3. \/ /\ lock_table'[r] = d
           /\ Sharers(r)' = S \ {t} /\ Writers(r)' = X /\ Waiters(r)' = W \ {t}
        \/ /\ lock_table'[r] = q
           /\ Sharers(r)' = S \ {t} /\ Writers(r)' = X /\ Waiters(r)' = W \cup {t}
        \/ /\ lock_table'[r] = g
           /\ Waiters(r)' = W \ {t}
           /\ IF kind = "LockShared"
              THEN Sharers(r)' = S \cup {t} /\ Writers(r)' = X
              ELSE Sharers(r)' = S \ {t} /\ Writers(r)' = X \cup {t}
    BY <1>o, Zenon DEF Outcome
  <2> HIDE DEF S, X, W, d, g
  <2> QED BY <2>1, <2>2, <2>3, Zenon DEF RecordOK
<1>3. \A s \in Rids : RecordOK(s)'
  BY <1>1, <1>2, UntouchedRecord DEF LockInv
<1>4. StateOK'
  BY <1>1 DEF StateOK, LockInv, Pending
<1>5. ~ wounds' => Calm'
  BY SettleCalm
<1> QED BY <1>1, <1>3, <1>4, <1>5, Zenon DEF LockInv

\* The locks a step adds are added to a transaction in its growing phase.
PhaseStep ==
  \A t \in Txns :
    (shared_set'[t] \cup exclusive_set'[t]) \ Held(t) # {} =>
      state[t] = "GROWING" /\ state'[t] = "GROWING"

\* The end of a lock call gives a lock to a growing transaction only.
LEMMA SettlePhase ==
  ASSUME LockInv, NEW t \in Txns, NEW r \in Rids, NEW kind \in Kinds,
         NEW q, NEW st, NEW shared, NEW waits,
         Pending(t, r, kind, q, st, shared, waits),
         Settle(t, r, kind, q, st, shared, waits)
  PROVE  PhaseStep
PROOF
<1>1. TypeInv
  BY DEF LockInv
<1>2. /\ shared \in [Txns -> SUBSET Rids]
      /\ \A u \in Txns : shared[u] = IF u = t THEN shared_set[t] \ {r} ELSE shared_set[u]
      /\ st[t] \in {state[t], "ABORTED"} /\ state[t] \in {"GROWING", "ABORTED"}
  BY DEF Pending
<1>3. state' = st
  BY DEF Settle, Throw, Block, Grant
<1>4. \A u \in Txns \ {t} : shared_set'[u] = shared_set[u] /\ exclusive_set'[u] = exclusive_set[u]
  BY <1>1, <1>2 DEF Settle, TypeInv
<1>5. CASE st[t] = "ABORTED" \/ waits
  BY <1>1, <1>2, <1>4, <1>5 DEF Settle, PhaseStep, Held, TypeInv
<1>6. CASE st[t] # "ABORTED"
  BY <1>2, <1>3, <1>4, <1>6 DEF PhaseStep, Held
<1> QED BY <1>5, <1>6

-----------------------------------------------------------------------------
(* The calls up to their wait.                                              *)

\* A queue has finitely many requests.
LEMMA EntriesFinite ==
  ASSUME NEW q \in Queue
  PROVE  IsFiniteSet(Entries(q))
PROOF
<1> DEFINE s == q.request_queue
<1>1. s \in Seq(LockRequest) /\ Len(s) \in Nat /\ s \in [1 .. Len(s) -> LockRequest]
  BY DEF Queue
<1>2. Entries(q) = {s[i] : i \in 1 .. Len(s)}
  BY DEF Entries
<1> HIDE DEF s
<1>3. s \in Surjection(1 .. Len(s), Entries(q))
  BY <1>1, <1>2 DEF Surjection
<1>4. IsFiniteSet(1 .. Len(s))
  BY <1>1, FS_Interval
<1> QED BY <1>3, <1>4, FS_Surjection

\* DeadlockPrevent changes the counters, and only when it finds a victim.
LEMMA WoundFacts ==
  ASSUME NEW q \in Queue, NEW t \in Txns
  PROVE  /\ Wound(q, t) \in Queue
         /\ Wound(q, t).request_queue = q.request_queue
         /\ Wound(q, t).upgrading = q.upgrading
         /\ Victims(q, t) = {} => SameCounts(Wound(q, t), q)
PROOF
<1> DEFINE hit == Wounded(q, t)
           sh == {e \in hit : e.lock_mode = "SHARED"}
           n == Cardinality(sh)
           w == \A e \in hit : e.lock_mode = "SHARED"
<1>1. sh \subseteq Entries(q)
  BY DEF Wounded
<1>2. n \in Nat
  BY <1>1, EntriesFinite, FS_Subset, FS_CardinalityType
<1>3. Wound(q, t) = [q EXCEPT !.sharing_count = @ - n, !.is_writing = @ /\ w]
  BY DEF Wound
<1>4. ASSUME Victims(q, t) = {} PROVE n = 0 /\ w
  <2>1. hit = {}
    BY <1>4 DEF Victims
  <2> QED BY <2>1, FS_EmptySet
<1> DEFINE b == q.is_writing /\ w
           c == q.sharing_count - n
<1>5. b \in BOOLEAN /\ c \in Int /\ Wound(q, t) = [q EXCEPT !.sharing_count = c, !.is_writing = b]
  <2>1. b \in BOOLEAN
    OBVIOUS
  <2>2. c \in Int
    BY <1>2 DEF Queue
  <2>3. Wound(q, t) = [q EXCEPT !.sharing_count = c, !.is_writing = b]
    BY <1>3
  <2> QED BY <2>1, <2>2, <2>3
<1> HIDE DEF n, w, b, c
<1>6. /\ Wound(q, t) \in Queue
      /\ Wound(q, t).request_queue = q.request_queue
      /\ Wound(q, t).upgrading = q.upgrading
      /\ Wound(q, t).sharing_count = c
      /\ Wound(q, t).is_writing = b
  BY <1>5 DEF Queue
<1>7. q.is_writing \in BOOLEAN /\ q.sharing_count \in Int
  BY DEF Queue
<1>8. Victims(q, t) = {} => c = q.sharing_count /\ b = q.is_writing
  BY <1>4, <1>7 DEF b, c
<1> QED BY <1>6, <1>8 DEF SameCounts

\* A call of t on r that has its request in the queue q.
Called(t, r, kind, q, shared) ==
  /\ pc[t] = "run" /\ state[t] # "SHRINKING"
  /\ r \notin exclusive_set[t]
  /\ q \in Queue
  /\ shared \in [Txns -> SUBSET Rids]
  /\ \A u \in Txns : shared[u] = IF u = t THEN shared_set[t] \ {r} ELSE shared_set[u]
  /\ Matches(q, Sharers(r) \ {t}, Writers(r), Waiters(r) \cup {t})

CalledCalm(t, r, kind, q) ==
  /\ CountsOK(q, Sharers(r) \ {t}, Writers(r))
  /\ IF kind = "LockUpgrade" THEN Upgraders(r) = {}
                             ELSE q.upgrading <=> Upgraders(r) # {}
  /\ \A u \in Waiters(r) \ notified :
       /\ kind = "LockShared" => KeepsWaiting(q, want[u].kind)
       /\ KeepsWaiting(q, kind) => KeepsWaiting(q, want[u].kind)

\* A lock call from its request in the queue to its end or its wait, wounds
\* included.
LEMMA AcquireStep ==
  ASSUME LockInv, NEW t \in Txns, NEW r \in Rids, NEW kind \in Kinds, NEW q, NEW shared,
         Called(t, r, kind, q, shared), ~ wounds => CalledCalm(t, r, kind, q),
         Acquire(t, r, kind, q, shared)
  PROVE  LockInv' /\ PhaseStep
PROOF
<1> DEFINE waits == MustWait(q, kind)
           victims == IF waits THEN Victims(q, t) ELSE {}
           st == [u \in Txns |-> IF u \in victims THEN "ABORTED" ELSE state[u]]
           q1 == IF waits THEN Wound(q, t) ELSE q
           q2 == IF waits /\ kind = "LockUpgrade" THEN [q1 EXCEPT !.upgrading = TRUE] ELSE q1
           keeps == waits /\ KeepsWaiting(q2, kind)
<1>1. /\ wounds' = (wounds \/ victims # {})
      /\ Settle(t, r, kind, q2, st, shared, keeps)
      /\ notified' = notified
  BY Zenon DEF Acquire
<1>2. TypeInv /\ StateOK
  BY DEF LockInv
<1>3. q \in Queue
  BY DEF Called
<1>4. q1 \in Queue /\ q1.request_queue = q.request_queue /\ q1.upgrading = q.upgrading
  BY <1>3, WoundFacts
<1>5. q2 \in Queue /\ q2.request_queue = q.request_queue
      /\ q2.sharing_count = q1.sharing_count /\ q2.is_writing = q1.is_writing
      /\ (q2.upgrading <=> q.upgrading \/ (waits /\ kind = "LockUpgrade"))
  <2> HIDE DEF q1, waits
  <2> QED BY <1>4 DEF Queue
<1>6. victims = {} => q1.sharing_count = q.sharing_count /\ q1.is_writing = q.is_writing
  BY <1>3, WoundFacts DEF SameCounts
<1>7. st \in [Txns -> States] /\ \A u \in Txns : st[u] \in {state[u], "ABORTED"}
  <2> HIDE DEF victims
  <2> QED BY <1>2 DEF TypeInv, States
<1>8. victims = {} => st = state
  <2> HIDE DEF victims
  <2> QED BY <1>2 DEF TypeInv
<1>9. keeps \in BOOLEAN
  OBVIOUS
<1> HIDE DEF victims, st, q1, q2
<1>10. Matches(q2, Sharers(r) \ {t}, Writers(r), Waiters(r) \cup {t})
  BY <1>5, SameQueueMatches DEF Called
<1>11. Pending(t, r, kind, q2, st, shared, keeps)
  <2>1. state[t] \in {"GROWING", "ABORTED"}
    BY <1>2 DEF Called, StateOK, TypeInv, States
  <2> QED BY <1>5, <1>7, <1>10, <2>1 DEF Called, Pending
<1>12. ASSUME ~ wounds' PROVE ~ wounds /\ PendingCalm(t, r, kind, q2, st, keeps)
  <2>1. ~ wounds /\ victims = {} /\ st = state
    BY <1>1, <1>8, <1>12
  <2>2. q2.sharing_count = q.sharing_count /\ q2.is_writing = q.is_writing
    BY <1>5, <1>6, <2>1
  <2>3. CalledCalm(t, r, kind, q)
    BY <2>1
  <2>4. q.sharing_count \in Nat
    BY <2>3, FS_CardinalityType DEF CalledCalm, CountsOK
  <2>5. \A k : KeepsWaiting(q2, k) <=> KeepsWaiting(q, k)
    BY <2>2 DEF KeepsWaiting
  <2>6. waits <=> KeepsWaiting(q, kind)
    BY <2>4 DEF MustWait, KeepsWaiting
  <2>7. CountsOK(q2, Sharers(r) \ {t}, Writers(r))
    BY <2>2, <2>3 DEF CalledCalm, CountsOK
  <2>8. t \notin Waiters(r) /\ t \notin Upgraders(r)
    BY DEF Called, Waiters, Upgraders
  <2> HIDE DEF waits
  <2>9. IF kind = "LockUpgrade"
        THEN Upgraders(r) \ {t} = {} /\ (keeps => q2.upgrading)
        ELSE (q2.upgrading <=> Upgraders(r) # {}) /\ t \notin Upgraders(r)
    BY <1>5, <2>3, <2>8 DEF CalledCalm
  <2>10. keeps <=> KeepsWaiting(q2, kind)
    BY <2>5, <2>6
  <2>11. \A u \in Waiters(r) \ (notified \cup {t}) :
          /\ kind = "LockShared" => KeepsWaiting(q2, want[u].kind)
          /\ keeps => KeepsWaiting(q2, want[u].kind)
    BY <2>3, <2>5, <2>10 DEF CalledCalm
  <2> HIDE DEF keeps
  <2> QED BY <2>1, <2>7, <2>9, <2>10, <2>11, Zenon DEF PendingCalm
<1>13. /\ notified' \subseteq Txns /\ wounds' \in BOOLEAN
       /\ \A u \in notified : u # t => u \in notified'
  BY <1>1, <1>2 DEF TypeInv
<1> HIDE DEF keeps
<1> QED BY <1>1, <1>9, <1>11, <1>12, <1>13, SettleStep, SettlePhase

\* LockShared and LockExclusive, which put a new request in the queue.
LEMMA LockSharedStep ==
  ASSUME LockInv, NEW t \in Txns, NEW r \in Rids, NEW kind \in {"LockShared", "LockExclusive"},
         NEW mode \in Modes, MayLock(t, r), ~ LockPrepareFails(t),
         Acquire(t, r, kind, Enqueue(lock_table[r], t, mode), shared_set)
  PROVE  LockInv' /\ PhaseStep
PROOF
<1> DEFINE p == lock_table[r]
           q == Enqueue(p, t, mode)
<1>1. p \in Queue /\ Matches(p, Sharers(r), Writers(r), Waiters(r)) /\ kind \in Kinds
  BY DEF LockInv, TypeInv, RecordOK, Kinds
<1>2. pc[t] = "run" /\ r \notin shared_set[t] /\ r \notin exclusive_set[t] /\ state[t] # "SHRINKING"
  BY DEF MayLock, LockPrepareFails
<1>3. t \notin Sharers(r) \cup Writers(r) \cup Waiters(r)
  BY <1>2 DEF Sharers, Writers, Waiters
<1>4. q \in Queue /\ SameCounts(q, p) /\ Matches(q, Sharers(r), Writers(r), Waiters(r) \cup {t})
  BY <1>1, <1>3, EnqueueMatches
<1>5. Sharers(r) \ {t} = Sharers(r)
  BY <1>3
<1>6. shared_set \in [Txns -> SUBSET Rids] /\ shared_set[t] = shared_set[t] \ {r}
  BY <1>2 DEF LockInv, TypeInv
<1> HIDE DEF q, p
<1>7. Called(t, r, kind, q, shared_set)
  BY <1>2, <1>4, <1>5, <1>6 DEF Called
<1>8. ASSUME ~ wounds PROVE CalledCalm(t, r, kind, q)
  <2>1. CalmRecord(r)
    BY <1>8 DEF LockInv, Calm
  <2>2. \A k : KeepsWaiting(q, k) <=> KeepsWaiting(p, k)
    BY <1>4 DEF KeepsWaiting, SameCounts
  <2>3. CountsOK(q, Sharers(r) \ {t}, Writers(r))
    BY <1>4, <1>5, <2>1 DEF CalmRecord, CountsOK, SameCounts, p
  <2>4. kind # "LockUpgrade" /\ (q.upgrading <=> Upgraders(r) # {})
    BY <1>4, <2>1 DEF CalmRecord, SameCounts, p
  <2>5. \A u \in Waiters(r) \ notified : KeepsWaiting(q, want[u].kind)
    BY <2>1, <2>2 DEF CalmRecord, p
  <2> QED BY <2>3, <2>4, <2>5 DEF CalledCalm
<1>9. Acquire(t, r, kind, q, shared_set)
  BY DEF p, q
<1> QED BY <1>1, <1>7, <1>8, <1>9, AcquireStep

\* LockUpgrade, which rewrites the request the transaction has.
LEMMA LockUpgradeStep ==
  ASSUME LockInv, NEW t \in Txns, NEW r \in Rids, pc[t] = "run", r \in shared_set[t],
         state[t] # "SHRINKING", ~ lock_table[r].upgrading,
         Acquire(t, r, "LockUpgrade", ToUpgrade(lock_table[r], t),
                 [shared_set EXCEPT ![t] = @ \ {r}])
  PROVE  LockInv' /\ PhaseStep
PROOF
<1> DEFINE p == lock_table[r]
           s == SetRequest(p, t, "EXCLUSIVE", FALSE)
           q == ToUpgrade(p, t)
           S == Sharers(r)
           X == Writers(r)
           shared == [shared_set EXCEPT ![t] = @ \ {r}]
<1>1. p \in Queue /\ Matches(p, S, X, Waiters(r))
  BY DEF LockInv, TypeInv, RecordOK
<1>2. t \in S
  BY DEF Sharers
<1>3. S \cap X = {}
  BY <1>1, MatchesDisjoint
<1>4. r \notin exclusive_set[t] /\ X \ {t} = X
  BY <1>2, <1>3 DEF Writers
<1>5. s \in Queue /\ SameCounts(s, p) /\ Matches(s, S \ {t}, X \ {t}, Waiters(r) \cup {t})
  BY <1>1, <1>2, SetRequestMatches DEF Modes
<1>6. q = [s EXCEPT !.sharing_count = @ - 1]
  BY DEF ToUpgrade
<1>7. shared \in [Txns -> SUBSET Rids]
      /\ \A u \in Txns : shared[u] = IF u = t THEN shared_set[t] \ {r} ELSE shared_set[u]
  BY DEF LockInv, TypeInv
<1> HIDE DEF p, s, q, S, X, shared
<1>8. /\ q \in Queue /\ q.request_queue = s.request_queue
      /\ q.sharing_count = p.sharing_count - 1
      /\ q.is_writing = p.is_writing /\ q.upgrading = p.upgrading
  BY <1>1, <1>5, <1>6 DEF Queue, SameCounts
<1>9. Matches(q, S \ {t}, X, Waiters(r) \cup {t})
  BY <1>4, <1>5, <1>8, SameQueueMatches
<1>10. Called(t, r, "LockUpgrade", q, shared)
  BY <1>4, <1>7, <1>8, <1>9 DEF Called, S, X
<1>11. ASSUME ~ wounds PROVE CalledCalm(t, r, "LockUpgrade", q)
  <2>1. CalmRecord(r)
    BY <1>11 DEF LockInv, Calm
  <2>2. CountsOK(p, S, X) /\ Upgraders(r) = {}
    BY <2>1 DEF CalmRecord, p, S, X
  <2>3. X = {} /\ ~ p.is_writing
    BY <1>2, <1>3, <2>2 DEF CountsOK
  <2>4. IsFiniteSet(S \ {t}) /\ Cardinality(S \ {t}) = Cardinality(S) - 1
    BY <1>2, <2>2, FS_RemoveElement DEF CountsOK
  <2>5. CountsOK(q, S \ {t}, X)
    BY <1>8, <2>2, <2>3, <2>4 DEF CountsOK
  <2>6. ASSUME NEW u \in Waiters(r) \ notified, KeepsWaiting(q, "LockUpgrade")
        PROVE  KeepsWaiting(q, want[u].kind)
    <3>1. KeepsWaiting(p, want[u].kind)
      BY <2>1 DEF CalmRecord, p
    <3> QED BY <1>8, <2>3, <2>6, <3>1 DEF KeepsWaiting
  <2> QED BY <2>2, <2>5, <2>6 DEF CalledCalm, S, X
<1>12. Acquire(t, r, "LockUpgrade", q, shared)
  BY DEF p, q, shared
<1> QED BY <1>10, <1>11, <1>12, AcquireStep DEF Kinds

\* A transaction in the wait is where the call left it.
LEMMA WakePending ==
  ASSUME LockInv, NEW t \in Txns, pc[t] = "wait",
         NEW r, r = want[t].rid, NEW kind, kind = want[t].kind,
         NEW q, q = lock_table[r], NEW waits
  PROVE  /\ r \in Rids /\ kind \in Kinds
         /\ Pending(t, r, kind, q, state, shared_set, waits)
PROOF
<1>1. r \in Rids /\ kind \in Kinds /\ t \in Waiters(r)
  BY DEF LockInv, TypeInv, Wants, Waiters
<1>2. q \in Queue /\ Matches(q, Sharers(r), Writers(r), Waiters(r))
  BY <1>1 DEF LockInv, TypeInv, RecordOK
<1>3. t \notin Sharers(r) /\ t \notin Writers(r)
  BY <1>1, <1>2, MatchesDisjoint
<1>4. r \notin exclusive_set[t] /\ shared_set[t] = shared_set[t] \ {r}
  BY <1>3 DEF Sharers, Writers
<1>5. Sharers(r) \ {t} = Sharers(r) /\ Waiters(r) \cup {t} = Waiters(r)
  BY <1>1, <1>3
<1>6. state[t] \in {"GROWING", "ABORTED"}
  BY DEF LockInv, StateOK
<1>7. state \in [Txns -> States] /\ shared_set \in [Txns -> SUBSET Rids]
  BY DEF LockInv, TypeInv
<1> QED BY <1>1, <1>2, <1>4, <1>5, <1>6, <1>7 DEF Pending

\* A transaction that was notified tests its predicate again.
LEMMA WakeStep ==
  ASSUME LockInv, NEW t \in Txns, Wake(t)
  PROVE  LockInv' /\ PhaseStep
PROOF
<1> DEFINE r == want[t].rid
           kind == want[t].kind
           q == lock_table[r]
           waits == KeepsWaiting(q, kind)
<1>1. /\ pc[t] = "wait" /\ notified' = notified \ {t} /\ wounds' = wounds
      /\ Settle(t, r, kind, q, state, shared_set, waits)
  BY DEF Wake
<1>2. waits \in BOOLEAN
  BY DEF KeepsWaiting
<1> HIDE DEF waits
<1>3. r \in Rids /\ kind \in Kinds /\ Pending(t, r, kind, q, state, shared_set, waits)
  BY <1>1, WakePending
<1>4. t \in Waiters(r)
  BY <1>1 DEF Waiters
<1> HIDE DEF r, kind, q
<1>5. ASSUME ~ wounds PROVE PendingCalm(t, r, kind, q, state, waits)
  <2>1. CalmRecord(r)
    BY <1>3, <1>5 DEF LockInv, Calm
  <2>2. Matches(q, Sharers(r), Writers(r), Waiters(r))
    BY <1>3 DEF LockInv, RecordOK, q
  <2>3. q \in Queue
    BY <1>3 DEF Pending
  <2>4. Sharers(r) \ {t} = Sharers(r)
    BY <1>4, <2>2, <2>3, MatchesDisjoint
  <2>5. CountsOK(q, Sharers(r) \ {t}, Writers(r))
    BY <2>1, <2>4 DEF CalmRecord, q
  <2>6. t \in Upgraders(r) <=> kind = "LockUpgrade"
    BY <1>4 DEF Upgraders, kind
  <2>7. IF kind = "LockUpgrade"
        THEN Upgraders(r) \ {t} = {} /\ (waits => q.upgrading)
        ELSE (q.upgrading <=> Upgraders(r) # {}) /\ t \notin Upgraders(r)
    BY <2>1, <2>6 DEF CalmRecord, q
  <2>8. \A u \in Waiters(r) \ (notified \cup {t}) : KeepsWaiting(q, want[u].kind)
    BY <2>1 DEF CalmRecord, q
  <2> QED BY <2>5, <2>7, <2>8 DEF PendingCalm, waits
<1>6. /\ notified' \subseteq Txns /\ wounds' \in BOOLEAN
      /\ \A u \in notified : u # t => u \in notified'
  BY <1>1 DEF LockInv, TypeInv
<1> QED BY <1>1, <1>2, <1>3, <1>5, <1>6, SettleStep, SettlePhase

-----------------------------------------------------------------------------
(* The remaining steps.                                                     *)

\* A step that changes no lock, no wait and no queue.
LEMMA QuietStep ==
  ASSUME LockInv, NEW t \in Txns, NEW p \in {"failed", "ending", "done"}, NEW s \in States,
         pc[t] # "wait", pc' = [pc EXCEPT ![t] = p], state' = [state EXCEPT ![t] = s],
         UNCHANGED <<lock_table, shared_set, exclusive_set, want, notified, wounds>>
  PROVE  LockInv'
PROOF
<1>1. TypeInv'
  BY DEF LockInv, TypeInv
<1>2. \A r \in Rids : Untouched(r)
  BY DEF LockInv, TypeInv, Untouched, Sharers, Writers, Waiters
<1>3. (\A r \in Rids : RecordOK(r)') /\ (~ wounds => \A r \in Rids : CalmRecord(r)')
  BY <1>2, UntouchedRecord DEF LockInv, Calm
<1>4. StateOK'
  BY DEF LockInv, TypeInv, StateOK
<1>5. ~ wounds => \A u \in Txns : pc'[u] \in {"run", "wait"} => state'[u] # "ABORTED"
  BY DEF LockInv, TypeInv, Calm
<1> QED BY <1>1, <1>3, <1>4, <1>5 DEF LockInv, Calm

\* Unlock removes the request and counts it down.
LEMMA UnlockQueue ==
  ASSUME LockInv, NEW t \in Txns, NEW r \in Rids, r \in Held(t)
  PROVE  LET q == lock_table[r]
             p == AfterUnlock(q, t)
         IN  /\ p \in Queue
             /\ Matches(p, Sharers(r) \ {t}, Writers(r) \ {t}, Waiters(r))
             /\ t \notin Waiters(r)
             /\ p.upgrading = q.upgrading
             /\ \/ /\ t \in Sharers(r) /\ t \notin Writers(r) /\ ModeOf(q, t) = "SHARED"
                   /\ p.sharing_count = q.sharing_count - 1 /\ p.is_writing = q.is_writing
                \/ /\ t \in Writers(r) /\ t \notin Sharers(r) /\ ModeOf(q, t) = "EXCLUSIVE"
                   /\ p.sharing_count = q.sharing_count /\ p.is_writing = FALSE
PROOF
<1> DEFINE q == lock_table[r]
           p == AfterUnlock(q, t)
           d == Dequeue(q, t)
           S == Sharers(r)
           X == Writers(r)
           W == Waiters(r)
<1>1. q \in Queue /\ Matches(q, S, X, W) /\ OnePerTxn(q)
  BY DEF LockInv, TypeInv, RecordOK, Matches
<1>2. t \in S \cup X
  BY DEF Held, Sharers, Writers
<1> HIDE DEF q, S, X, W
<1>3. t \notin W /\ ~ (t \in S /\ t \in X) /\ W \ {t} = W
  BY <1>1, <1>2, MatchesDisjoint
<1>4. d \in Queue /\ SameCounts(d, q) /\ Matches(d, S \ {t}, X \ {t}, W)
  BY <1>1, <1>2, <1>3, DequeueMatches
<1>5. CASE t \in S
  <2>1. Request(t, "SHARED", TRUE) \in Entries(q)
    BY <1>1, <1>5 DEF Matches
  <2>2. ModeOf(q, t) = "SHARED"
    BY <1>1, <2>1, PositionFacts DEF ModeOf, Request
  <2>3. p = [d EXCEPT !.sharing_count = @ - 1]
    BY <2>2 DEF AfterUnlock
  <2> HIDE DEF p, d
  <2>4. /\ p \in Queue /\ p.request_queue = d.request_queue /\ p.upgrading = q.upgrading
        /\ p.sharing_count = q.sharing_count - 1 /\ p.is_writing = q.is_writing
    BY <1>1, <1>4, <2>3 DEF Queue, SameCounts
  <2>5. Matches(p, S \ {t}, X \ {t}, W)
    BY <1>4, <2>4, SameQueueMatches
  <2> QED BY <1>3, <1>5, <2>2, <2>4, <2>5 DEF p, q, S, X, W
<1>6. CASE t \in X
  <2>1. Request(t, "EXCLUSIVE", TRUE) \in Entries(q)
    BY <1>1, <1>6 DEF Matches
  <2>2. ModeOf(q, t) = "EXCLUSIVE"
    BY <1>1, <2>1, PositionFacts DEF ModeOf, Request
  <2>3. p = [d EXCEPT !.is_writing = FALSE]
    BY <2>2 DEF AfterUnlock
  <2> HIDE DEF p, d
  <2>4. /\ p \in Queue /\ p.request_queue = d.request_queue /\ p.upgrading = q.upgrading
        /\ p.sharing_count = q.sharing_count /\ p.is_writing = FALSE
    BY <1>1, <1>4, <2>3 DEF Queue, SameCounts
  <2>5. Matches(p, S \ {t}, X \ {t}, W)
    BY <1>4, <2>4, SameQueueMatches
  <2> QED BY <1>3, <1>6, <2>2, <2>4, <2>5 DEF p, q, S, X, W
<1> QED BY <1>2, <1>5, <1>6

\* Unlock, by the transaction itself or by Commit and Abort.
LEMMA UnlockStep ==
  ASSUME LockInv, NEW t \in Txns, NEW r \in Rids, r \in Held(t), pc[t] # "wait", Unlock(t, r)
  PROVE  LockInv'
PROOF
<1> DEFINE q == lock_table[r]
           p == AfterUnlock(q, t)
           mode == ModeOf(q, t)
           S == Sharers(r)
           X == Writers(r)
           W == Waiters(r)
<1>1. /\ lock_table' = [lock_table EXCEPT ![r] = p]
      /\ state' = [state EXCEPT ![t] = UnlockState(t, mode)]
      /\ shared_set' = [shared_set EXCEPT ![t] = @ \ {r}]
      /\ exclusive_set' = [exclusive_set EXCEPT ![t] = @ \ {r}]
      /\ notified' = IF Notifies(p, mode) THEN notified \cup W ELSE notified
      /\ pc' = pc /\ want' = want /\ wounds' = wounds
  BY DEF Unlock
<1>2. /\ p \in Queue /\ Matches(p, S \ {t}, X \ {t}, W) /\ t \notin W
      /\ p.upgrading = q.upgrading
      /\ \/ /\ t \in S /\ t \notin X /\ mode = "SHARED"
            /\ p.sharing_count = q.sharing_count - 1 /\ p.is_writing = q.is_writing
         \/ /\ t \in X /\ t \notin S /\ mode = "EXCLUSIVE"
            /\ p.sharing_count = q.sharing_count /\ p.is_writing = FALSE
  BY UnlockQueue
<1>3. UnlockState(t, mode) \in {state[t], "SHRINKING"}
  BY DEF UnlockState
<1> HIDE DEF p, mode
<1>4. TypeInv /\ W \subseteq Txns
  BY DEF LockInv, Waiters
<1>5. TypeInv'
  BY <1>1, <1>2, <1>3, <1>4 DEF TypeInv, States
<1>6. /\ Sharers(r)' = S \ {t}
      /\ Writers(r)' = X \ {t}
      /\ Waiters(r)' = W
      /\ lock_table'[r] = p
  BY <1>1, <1>4 DEF TypeInv, Sharers, Writers, Waiters
<1>7. \A s \in Rids \ {r} : Untouched(s)
  BY <1>1, <1>4 DEF TypeInv, Untouched, Sharers, Writers, Waiters
<1>8. RecordOK(r)'
  <2> HIDE DEF S, X, W
  <2> QED BY <1>2, <1>6, Zenon DEF RecordOK
<1>9. \A s \in Rids : RecordOK(s)'
  BY <1>7, <1>8, UntouchedRecord DEF LockInv
<1>10. StateOK'
  BY <1>1, <1>3, <1>4 DEF LockInv, TypeInv, StateOK
<1>11. ASSUME ~ wounds' PROVE Calm'
  <2>1. Calm
    BY <1>1, <1>11 DEF LockInv
  <2>2. \A u \in Txns : pc'[u] \in {"run", "wait"} => state'[u] # "ABORTED"
    BY <1>1, <1>3, <1>4, <2>1 DEF Calm, TypeInv
  <2>3. \A s \in Rids \ {r} : CalmRecord(s)'
    BY <1>7, <2>1, UntouchedRecord DEF Calm
  <2>4. CountsOK(q, S, X) /\ (q.upgrading <=> Upgraders(r) # {})
        /\ (\A a, b \in Upgraders(r) : a = b)
        /\ \A u \in W \ notified : KeepsWaiting(q, want[u].kind)
    BY <2>1 DEF Calm, CalmRecord
  <2>5. Upgraders(r)' = Upgraders(r)
    <3>1. Upgraders(r)' = {u \in Waiters(r)' : want'[u].kind = "LockUpgrade"}
      BY Zenon DEF Upgraders
    <3>2. Upgraders(r) = {u \in W : want[u].kind = "LockUpgrade"}
      BY DEF Upgraders
    <3> HIDE DEF W
    <3> QED BY <1>1, <1>6, <3>1, <3>2
  <2> HIDE DEF q, S, X, W
  <2>6. CountsOK(p, S \ {t}, X \ {t})
    <3>1. IsFiniteSet(S \ {t})
          /\ Cardinality(S \ {t}) = IF t \in S THEN Cardinality(S) - 1 ELSE Cardinality(S)
      BY <2>4, FS_RemoveElement DEF CountsOK
    <3> QED BY <1>2, <2>4, <3>1 DEF CountsOK
  <2>7. ASSUME NEW u \in W \ notified' PROVE KeepsWaiting(p, want'[u].kind)
    <3>1. u \notin notified /\ ~ Notifies(p, mode) /\ want'[u] = want[u]
      BY <1>1, <2>7
    <3>2. t \in S /\ p.sharing_count # 0 /\ p.is_writing = q.is_writing
      BY <1>2, <3>1 DEF Notifies
    <3>3. X = {} /\ ~ q.is_writing
      BY <1>2, <2>4, <3>2 DEF CountsOK
    <3>4. KeepsWaiting(q, want[u].kind)
      BY <2>4, <2>7, <3>1
    <3> QED BY <3>1, <3>2, <3>3, <3>4 DEF KeepsWaiting
  <2>8. CalmRecord(r)'
    <3>1. p.upgrading <=> Upgraders(r)' # {}
      BY <1>2, <2>4, <2>5
    <3>2. \A a, b \in Upgraders(r)' : a = b
      BY <2>4, <2>5
    <3> QED BY <1>6, <2>6, <2>7, <3>1, <3>2, Zenon DEF CalmRecord
  <2> QED BY <2>2, <2>3, <2>8, Zenon DEF Calm
<1> QED BY <1>5, <1>9, <1>10, <1>11, Zenon DEF LockInv

\* A spurious wake-up.
LEMMA SpuriousStep ==
  ASSUME LockInv, NEW t \in Txns, Spurious(t)
  PROVE  LockInv'
PROOF
<1>1. TypeInv'
  BY DEF LockInv, TypeInv, Spurious, txnVars
<1>2. \A r \in Rids : Untouched(r)
  BY DEF Untouched, Sharers, Writers, Waiters, Spurious, txnVars
<1>3. (\A r \in Rids : RecordOK(r)') /\ (~ wounds => \A r \in Rids : CalmRecord(r)')
  BY <1>2, UntouchedRecord DEF LockInv, Calm
<1> QED BY <1>1, <1>3 DEF LockInv, StateOK, Calm, Spurious, txnVars

\* A stuttering step.
LEMMA StutterStep ==
  ASSUME LockInv, UNCHANGED vars
  PROVE  LockInv'
PROOF
<1>1. TypeInv'
  BY DEF LockInv, TypeInv, vars, txnVars
<1>2. \A r \in Rids : Untouched(r)
  BY DEF Untouched, Sharers, Writers, Waiters, vars, txnVars
<1>3. (\A r \in Rids : RecordOK(r)') /\ (~ wounds => \A r \in Rids : CalmRecord(r)')
  BY <1>2, UntouchedRecord DEF LockInv, Calm
<1> QED BY <1>1, <1>3 DEF LockInv, StateOK, Calm, vars, txnVars

\* No locks, no requests, no wounds.
LEMMA InitInv ==
  Init => LockInv
PROOF
<1> SUFFICES ASSUME Init PROVE LockInv
  OBVIOUS
<1>1. EmptyQueue \in Queue /\ EmptyQueue.request_queue = <<>> /\ EmptyQueue.sharing_count = 0
      /\ EmptyQueue.is_writing = FALSE /\ EmptyQueue.upgrading = FALSE
  BY EmptySeq DEF EmptyQueue, Queue
<1>2. Entries(EmptyQueue) = {} /\ OnePerTxn(EmptyQueue)
  BY <1>1 DEF Entries, OnePerTxn
<1>3. TypeInv
  BY <1>1 DEF Init, TypeInv, States
<1>4. ASSUME NEW r \in Rids PROVE RecordOK(r) /\ CalmRecord(r)
  <2>1. /\ lock_table[r] = EmptyQueue /\ Sharers(r) = {} /\ Writers(r) = {}
        /\ Waiters(r) = {} /\ Upgraders(r) = {}
    BY DEF Init, Sharers, Writers, Waiters, Upgraders
  <2>2. RecordOK(r)
    BY <1>2, <2>1 DEF RecordOK, Matches
  <2>3. CalmRecord(r)
    BY <1>1, <2>1, FS_EmptySet DEF CalmRecord, CountsOK
  <2> QED BY <2>2, <2>3
<1>5. StateOK /\ \A t \in Txns : state[t] # "ABORTED"
  BY DEF Init, StateOK
<1> QED BY <1>3, <1>4, <1>5 DEF LockInv, Calm

\* Steps that add no lock.
LEMMA NoNewLock ==
  ASSUME LockInv, \A t \in Txns : shared_set'[t] \subseteq shared_set[t]
                                /\ exclusive_set'[t] \subseteq exclusive_set[t]
  PROVE  PhaseStep
BY DEF PhaseStep, Held

\* Unlock gives no lock to anybody.
LEMMA UnlockPhase ==
  ASSUME LockInv, NEW t \in Txns, NEW r \in Rids, Unlock(t, r)
  PROVE  PhaseStep
PROOF
<1>1. \A u \in Txns : shared_set'[u] \subseteq shared_set[u]
                      /\ exclusive_set'[u] \subseteq exclusive_set[u]
  BY DEF LockInv, TypeInv, Unlock
<1> QED BY <1>1, NoNewLock

\* A step that changes no lock set gives no lock.
LEMMA QuietPhase ==
  ASSUME LockInv, UNCHANGED <<shared_set, exclusive_set>>
  PROVE  PhaseStep
BY DEF PhaseStep, Held

\* Every step preserves the invariant and gives locks to growing transactions only.
LEMMA NextInv ==
  ASSUME LockInv, Next
  PROVE  LockInv' /\ PhaseStep
PROOF
<1>1. ASSUME NEW t \in Txns, NEW r \in Rids, LockShared(t, r) PROVE LockInv' /\ PhaseStep
  <2>1. CASE Refuse(t)
    BY <1>1, <2>1, QuietStep, QuietPhase DEF Refuse, LockShared, MayLock, States
  <2>2. CASE ~ LockPrepareFails(t)
             /\ Acquire(t, r, "LockShared", Enqueue(lock_table[r], t, "SHARED"), shared_set)
    BY <1>1, <2>2, LockSharedStep DEF LockShared, Modes
  <2> QED BY <1>1, <2>1, <2>2 DEF LockShared
<1>2. ASSUME NEW t \in Txns, NEW r \in Rids, LockExclusive(t, r) PROVE LockInv' /\ PhaseStep
  <2>1. CASE Refuse(t)
    BY <1>2, <2>1, QuietStep, QuietPhase DEF Refuse, LockExclusive, MayLock, States
  <2>2. CASE ~ LockPrepareFails(t)
             /\ Acquire(t, r, "LockExclusive", Enqueue(lock_table[r], t, "EXCLUSIVE"), shared_set)
    BY <1>2, <2>2, LockSharedStep DEF LockExclusive, Modes
  <2> QED BY <1>2, <2>1, <2>2 DEF LockExclusive
<1>3. ASSUME NEW t \in Txns, NEW r \in Rids, LockUpgrade(t, r) PROVE LockInv' /\ PhaseStep
  <2>1. CASE Refuse(t)
    BY <1>3, <2>1, QuietStep, QuietPhase DEF Refuse, LockUpgrade, States
  <2>2. CASE ~ Refuse(t)
    BY <1>3, <2>2, LockUpgradeStep DEF LockUpgrade
  <2> QED BY <2>1, <2>2
<1>4. ASSUME NEW t \in Txns, NEW r \in Rids, ClientUnlock(t, r) PROVE LockInv' /\ PhaseStep
  BY <1>4, UnlockStep, UnlockPhase DEF ClientUnlock
<1>5. ASSUME NEW t \in Txns, NEW r \in Rids, ReleaseLock(t, r) PROVE LockInv' /\ PhaseStep
  BY <1>5, UnlockStep, UnlockPhase DEF ReleaseLock
<1>6. ASSUME NEW t \in Txns, Commit(t) PROVE LockInv' /\ PhaseStep
  BY <1>6, QuietStep, QuietPhase DEF Commit, States
<1>7. ASSUME NEW t \in Txns, Abort(t) PROVE LockInv' /\ PhaseStep
  BY <1>7, QuietStep, QuietPhase DEF Abort, States
<1>8. ASSUME NEW t \in Txns, Finish(t) PROVE LockInv' /\ PhaseStep
  <2>1. state[t] \in States /\ state' = [state EXCEPT ![t] = state[t]]
    BY <1>8 DEF Finish, LockInv, TypeInv
  <2> QED BY <1>8, <2>1, QuietStep, QuietPhase DEF Finish
<1>9. ASSUME NEW t \in Txns, Spurious(t) PROVE LockInv' /\ PhaseStep
  BY <1>9, SpuriousStep, QuietPhase DEF Spurious, txnVars
<1> QED BY <1>1, <1>2, <1>3, <1>4, <1>5, <1>6, <1>7, <1>8, <1>9, WakeStep DEF Next

\* The invariant holds always.
LEMMA InvAlways ==
  Spec => []LockInv
PROOF
<1>1. LockInv /\ [Next]_vars => LockInv'
  BY NextInv, StutterStep
<1> QED BY <1>1, InitInv, PTL DEF Spec

-----------------------------------------------------------------------------
(* The theorems.                                                            *)

\* The variables keep their types for any number of transactions and records, and
\* sharing_count_ is not negative before the first wound.
THEOREM TypeCorrect ==
  Spec => []TypeOK
PROOF
<1>1. ASSUME LockInv PROVE TypeOK
  <2>1. ASSUME NEW r \in Rids PROVE lock_table[r].sharing_count \in (IF wounds THEN Int ELSE Nat)
    <3>1. CASE wounds
      BY <1>1, <3>1 DEF LockInv, TypeInv, Queue
    <3>2. CASE ~ wounds
      BY <1>1, <3>2, FS_CardinalityType DEF LockInv, Calm, CalmRecord, CountsOK
    <3> QED BY <3>1, <3>2
  <2> QED BY <1>1, <2>1 DEF LockInv, TypeInv, Queue, TypeOK
<1> QED BY <1>1, InvAlways, PTL

\* GrantedTo reads the sharers and the owners of a record off its queue.
LEMMA GrantedFacts ==
  ASSUME LockInv, NEW r \in Rids
  PROVE  GrantedTo(r, "SHARED") = Sharers(r) /\ GrantedTo(r, "EXCLUSIVE") = Writers(r)
PROOF
<1>1. lock_table[r] \in Queue /\ Matches(lock_table[r], Sharers(r), Writers(r), Waiters(r))
  BY DEF LockInv, TypeInv, RecordOK
<1>2. \A e \in Entries(lock_table[r]) : e.lock_mode \in Modes /\ e.granted \in BOOLEAN
  BY <1>1, EntryType
<1> DEFINE E == Entries(lock_table[r])
<1> HIDE DEF E
<1>3. \A e \in E : /\ e.granted /\ e.lock_mode = "SHARED" => e.txn_id \in Sharers(r)
                   /\ e.granted /\ e.lock_mode = "EXCLUSIVE" => e.txn_id \in Writers(r)
  BY <1>1, <1>2 DEF Matches, Modes, E
<1>4. \A t \in Sharers(r) : \E e \in E : e.granted /\ e.lock_mode = "SHARED" /\ e.txn_id = t
  BY <1>1 DEF Matches, Request, E
<1>5. \A t \in Writers(r) : \E e \in E : e.granted /\ e.lock_mode = "EXCLUSIVE" /\ e.txn_id = t
  BY <1>1 DEF Matches, Request, E
<1>6. GrantedTo(r, "SHARED") = Sharers(r)
  <2>1. GrantedTo(r, "SHARED") = {e.txn_id : e \in {x \in E : x.granted /\ x.lock_mode = "SHARED"}}
    BY DEF GrantedTo, E
  <2>2. ASSUME NEW t \in GrantedTo(r, "SHARED") PROVE t \in Sharers(r)
    <3>1. PICK e \in E : e.granted /\ e.lock_mode = "SHARED" /\ e.txn_id = t
      BY <2>1, <2>2
    <3> QED BY <1>3, <3>1, Zenon
  <2>3. ASSUME NEW t \in Sharers(r) PROVE t \in GrantedTo(r, "SHARED")
    BY <1>4, <2>1
  <2> QED BY <2>2, <2>3
<1>7. GrantedTo(r, "EXCLUSIVE") = Writers(r)
  <2>1. GrantedTo(r, "EXCLUSIVE")
          = {e.txn_id : e \in {x \in E : x.granted /\ x.lock_mode = "EXCLUSIVE"}}
    BY DEF GrantedTo, E
  <2>2. ASSUME NEW t \in GrantedTo(r, "EXCLUSIVE") PROVE t \in Writers(r)
    <3>1. PICK e \in E : e.granted /\ e.lock_mode = "EXCLUSIVE" /\ e.txn_id = t
      BY <2>1, <2>2
    <3> QED BY <1>3, <3>1, Zenon
  <2>3. ASSUME NEW t \in Writers(r) PROVE t \in GrantedTo(r, "EXCLUSIVE")
    BY <1>5, <2>1
  <2> QED BY <2>2, <2>3
<1> QED BY <1>6, <1>7

\* Whatever the transactions do, wounded or not, the queue of a record holds one
\* request per transaction, the granted requests are the transactions' lock sets
\* and the others are those of the waiting transactions.
THEOREM QueuesMatchSets ==
  Spec => []QueueMatchesSets
PROOF
<1>1. ASSUME LockInv PROVE QueueMatchesSets
  <2> SUFFICES ASSUME NEW r \in Rids
               PROVE  LET q == lock_table[r].request_queue
                      IN /\ \A i, j \in 1 .. Len(q) : q[i].txn_id = q[j].txn_id => i = j
                         /\ GrantedTo(r, "SHARED") = {t \in Txns : r \in shared_set[t]}
                         /\ GrantedTo(r, "EXCLUSIVE") = {t \in Txns : r \in exclusive_set[t]}
                         /\ {q[i].txn_id : i \in {j \in 1 .. Len(q) : ~ q[j].granted}} = Waiters(r)
    BY DEF QueueMatchesSets
  <2> DEFINE p == lock_table[r]
             q == p.request_queue
  <2>1. p \in Queue /\ Matches(p, Sharers(r), Writers(r), Waiters(r))
    BY <1>1 DEF LockInv, TypeInv, RecordOK
  <2>2. \A e \in Entries(p) : e.lock_mode \in Modes /\ e.granted \in BOOLEAN
    BY <2>1, EntryType
  <2>3. \A i, j \in 1 .. Len(q) : q[i].txn_id = q[j].txn_id => i = j
    BY <2>1 DEF Matches, OnePerTxn
  <2>4. GrantedTo(r, "SHARED") = Sharers(r) /\ GrantedTo(r, "EXCLUSIVE") = Writers(r)
    BY <1>1, GrantedFacts
  <2>5. {q[i].txn_id : i \in {j \in 1 .. Len(q) : ~ q[j].granted}}
          = {e.txn_id : e \in {x \in Entries(p) : ~ x.granted}}
    BY DEF Entries
  <2>6. {e.txn_id : e \in {x \in Entries(p) : ~ x.granted}} = Waiters(r)
    <3> DEFINE E == Entries(p)
    <3>1. \A e \in E : ~ e.granted => e.txn_id \in Waiters(r)
      BY <2>1 DEF Matches
    <3>2. \A t \in Waiters(r) : \E e \in E : ~ e.granted /\ e.txn_id = t
      BY <2>1 DEF Matches, Request
    <3> HIDE DEF E
    <3>3. {e.txn_id : e \in {x \in E : ~ x.granted}} = Waiters(r)
      BY <3>1, <3>2
    <3> QED BY <3>3 DEF E
  <2> QED BY <2>3, <2>4, <2>5, <2>6 DEF Sharers, Writers
<1> QED BY <1>1, InvAlways, PTL

\* Until the first wound the counters of a queue describe its granted requests and
\* upgrading_ is set exactly while a transaction waits to upgrade.
THEOREM CountersExact ==
  Spec => []CountsMatchQueue
PROOF
<1>1. ASSUME LockInv PROVE CountsMatchQueue
  BY <1>1, GrantedFacts
     DEF LockInv, Calm, CalmRecord, CountsOK, CountsMatchQueue, Upgraders
<1> QED BY <1>1, InvAlways, PTL

\* Until the first wound an exclusive lock excludes every other holder.
THEOREM ExclusiveLocksExclude ==
  Spec => []ExclusiveUntilWound
PROOF
<1>1. ASSUME LockInv PROVE ExclusiveUntilWound
  <2> SUFFICES ASSUME ~ wounds, NEW t \in Txns, NEW u \in Txns, t # u,
                      NEW r \in exclusive_set[t], r \in Held(u)
               PROVE  FALSE
    BY DEF ExclusiveUntilWound
  <2>1. r \in Rids
    BY <1>1 DEF LockInv, TypeInv
  <2>2. CountsOK(lock_table[r], Sharers(r), Writers(r))
    BY <1>1, <2>1 DEF LockInv, Calm, CalmRecord
  <2>3. t \in Writers(r) /\ u \in Sharers(r) \cup Writers(r)
    BY DEF Sharers, Writers, Held
  <2> QED BY <2>2, <2>3 DEF CountsOK
<1> QED BY <1>1, InvAlways, PTL

\* Until the first wound nobody sleeps in cv_.wait whose predicate is true.
THEOREM NoSleeperForgotten ==
  Spec => []NoMissedNotify
PROOF
<1>1. ASSUME LockInv PROVE NoMissedNotify
  <2> SUFFICES ASSUME ~ wounds, NEW t \in Txns, pc[t] = "wait", t \notin notified
               PROVE  KeepsWaiting(lock_table[want[t].rid], want[t].kind)
    BY DEF NoMissedNotify
  <2>1. want[t].rid \in Rids /\ t \in Waiters(want[t].rid)
    BY <1>1 DEF LockInv, TypeInv, Wants, Waiters
  <2> QED BY <1>1, <2>1 DEF LockInv, Calm, CalmRecord
<1> QED BY <1>1, InvAlways, PTL


\* A transaction in its shrinking phase, aborted or ended gets no lock: not by a
\* call, not by a wait that ends, and not while it is being wounded.
THEOREM LocksAreTwoPhase ==
  Spec => TwoPhase
PROOF
<1>1. ASSUME LockInv, Next PROVE PhaseStep
  BY <1>1, NextInv
<1>2. LockInv /\ [Next]_vars => [PhaseStep]_vars
  BY <1>1
<1> QED BY <1>2, InvAlways, PTL DEF Spec, TwoPhase, PhaseStep
=============================================================================
