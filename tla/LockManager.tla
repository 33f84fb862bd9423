----------------------------- MODULE LockManager -----------------------------
(***************************************************************************)
(* LockManager (src/concurrency/lock_manager.cpp) and the part of           *)
(* TransactionManager that ends transactions (src/concurrency/              *)
(* transaction_manager.cpp, src/include/concurrency/transaction_manager.h). *)
(*                                                                         *)
(* Each lock-manager call runs under latch_, which it gives up only inside  *)
(* cv_.wait: the code before the wait is one action, the code after it      *)
(* another.  Commit and Abort take latch_ once per lock they release, so    *)
(* every Unlock they make is an action of its own.                          *)
(***************************************************************************)
EXTENDS Integers, Sequences, FiniteSets

CONSTANTS
  Txns,        \* transaction ids, a set of numbers: a smaller one is older
  Rids,        \* records
  Isolation    \* isolation level of every transaction

ASSUME LockAssumption ==
  /\ Txns \subseteq Nat
  /\ Isolation \in [Txns -> {"READ_UNCOMMITTED", "READ_COMMITTED", "REPEATABLE_READ"}]

VARIABLES
  lock_table,     \* lock_table_: the LockRequestQueue of every record
  state,          \* state_ of every transaction
  shared_set,     \* shared_lock_set_
  exclusive_set,  \* exclusive_lock_set_
  pc,             \* "run", "wait", "failed" (a call threw), "ending", "done"
  want,           \* the request a waiting transaction is blocked on
  notified,       \* waiting transactions whose cv_ was notified
  wounds          \* ghost: has DeadlockPrevent ever found a victim?

txnVars == <<state, shared_set, exclusive_set, pc, want>>
vars == <<lock_table, txnVars, notified, wounds>>

Modes == {"SHARED", "EXCLUSIVE"}
Kinds == {"LockShared", "LockExclusive", "LockUpgrade"}
States == {"GROWING", "SHRINKING", "COMMITTED", "ABORTED"}

LockRequest == [txn_id : Txns, lock_mode : Modes, granted : BOOLEAN]

EmptyQueue == [request_queue |-> <<>>, upgrading |-> FALSE,
               sharing_count |-> 0, is_writing |-> FALSE]
NoRequest == [rid |-> "none", kind |-> "none"]

Entries(q) == {q.request_queue[i] : i \in 1 .. Len(q.request_queue)}

Init ==
  /\ lock_table = [r \in Rids |-> EmptyQueue]
  /\ state = [t \in Txns |-> "GROWING"]
  /\ shared_set = [t \in Txns |-> {}]
  /\ exclusive_set = [t \in Txns |-> {}]
  /\ pc = [t \in Txns |-> "run"]
  /\ want = [t \in Txns |-> NoRequest]
  /\ notified = {}
  /\ wounds = FALSE

Waiters(r) == {t \in Txns : pc[t] = "wait" /\ want[t].rid = r}

-----------------------------------------------------------------------------
(* The queue of one record.                                                *)

\* The first request of t: what GetIterator finds.
Position(q, t) ==
  CHOOSE i \in 1 .. Len(q.request_queue) :
    /\ q.request_queue[i].txn_id = t
    /\ \A j \in 1 .. (i - 1) : q.request_queue[j].txn_id # t

Enqueue(q, t, mode) ==
  [q EXCEPT !.request_queue = Append(@, [txn_id |-> t, lock_mode |-> mode, granted |-> FALSE])]

Dequeue(q, t) ==
  LET k == Position(q, t)
  IN [q EXCEPT !.request_queue = SubSeq(@, 1, k - 1) \o SubSeq(@, k + 1, Len(@))]

SetRequest(q, t, mode, granted) ==
  [q EXCEPT !.request_queue[Position(q, t)] =
     [txn_id |-> t, lock_mode |-> mode, granted |-> granted]]

\* Mutant: an exclusive request does not look at the readers.
WaitsForWriterOnly(q, kind) == q.is_writing

\* A new request waits; and the opposite of the predicate a wait ends with.
\* They differ when sharing_count_ is negative.
MustWait(q, kind) ==
  q.is_writing \/ (kind # "LockShared" /\ q.sharing_count > 0)
KeepsWaiting(q, kind) ==
  q.is_writing \/ (kind # "LockShared" /\ q.sharing_count # 0)

-----------------------------------------------------------------------------
(* DeadlockPrevent: wound every younger holder.  The holder's request stays *)
(* in the queue, granted.                                                   *)

Wounded(q, t) == {e \in Entries(q) : e.granted /\ e.txn_id > t}
Victims(q, t) == {e.txn_id : e \in Wounded(q, t)}

Wound(q, t) ==
  LET hit == Wounded(q, t)
  IN [q EXCEPT !.sharing_count = @ - Cardinality({e \in hit : e.lock_mode = "SHARED"}),
               !.is_writing = @ /\ \A e \in hit : e.lock_mode = "SHARED"]

-----------------------------------------------------------------------------
(* The end of every lock call, after its wait: CheckAborted, then the grant. *)

Throw(t, r, q, st) ==
  /\ lock_table' = [lock_table EXCEPT ![r] = q]
  /\ state' = st
  /\ pc' = [pc EXCEPT ![t] = "failed"]
  /\ want' = [want EXCEPT ![t] = NoRequest]

\* Mutant: the aborted request stays in the queue.
CheckAbortedKeeps(q, t) == q

CheckAborted(q, t) == Dequeue(q, t)

Granted(q, t, kind) ==
  IF kind = "LockShared"
  THEN [SetRequest(q, t, "SHARED", TRUE) EXCEPT !.sharing_count = @ + 1]
  ELSE [SetRequest(q, t, "EXCLUSIVE", TRUE) EXCEPT
          !.is_writing = TRUE, !.upgrading = @ /\ kind # "LockUpgrade"]

Grant(t, r, kind, q, st) ==
  /\ lock_table' = [lock_table EXCEPT ![r] = Granted(q, t, kind)]
  /\ state' = st
  /\ pc' = [pc EXCEPT ![t] = "run"]
  /\ want' = [want EXCEPT ![t] = NoRequest]

Block(t, r, kind, q, st) ==
  /\ lock_table' = [lock_table EXCEPT ![r] = q]
  /\ state' = st
  /\ pc' = [pc EXCEPT ![t] = "wait"]
  /\ want' = [want EXCEPT ![t] = [rid |-> r, kind |-> kind]]

\* Throw, wait or return: `waits` is whether the call waits unless t is aborted,
\* `shared` the sets of shared locks at this point of the call.
Settle(t, r, kind, q, st, shared, waits) ==
  \/ /\ st[t] = "ABORTED"
     /\ Throw(t, r, CheckAborted(q, t), st)
     /\ shared_set' = shared
     /\ UNCHANGED exclusive_set
  \/ /\ st[t] # "ABORTED" /\ waits
     /\ Block(t, r, kind, q, st)
     /\ shared_set' = shared
     /\ UNCHANGED exclusive_set
  \/ /\ st[t] # "ABORTED" /\ ~ waits
     /\ Grant(t, r, kind, q, st)
     /\ IF kind = "LockShared"
        THEN shared_set' = [shared EXCEPT ![t] = @ \cup {r}] /\ UNCHANGED exclusive_set
        ELSE shared_set' = shared /\ exclusive_set' = [exclusive_set EXCEPT ![t] = @ \cup {r}]

\* The call up to its wait: wound if it must wait, then wait or go on.
Acquire(t, r, kind, q, shared) ==
  LET waits == MustWait(q, kind)
      victims == IF waits THEN Victims(q, t) ELSE {}
      st == [u \in Txns |-> IF u \in victims THEN "ABORTED" ELSE state[u]]
      q1 == IF waits THEN Wound(q, t) ELSE q
      q2 == IF waits /\ kind = "LockUpgrade" THEN [q1 EXCEPT !.upgrading = TRUE] ELSE q1
  IN /\ wounds' = (wounds \/ victims # {})
     /\ Settle(t, r, kind, q2, st, shared, waits /\ KeepsWaiting(q2, kind))
     /\ UNCHANGED notified

\* SetState(ABORTED) and a throw before anything is queued.
Refuse(t) ==
  /\ state' = [state EXCEPT ![t] = "ABORTED"]
  /\ pc' = [pc EXCEPT ![t] = "failed"]
  /\ UNCHANGED <<lock_table, shared_set, exclusive_set, want, notified, wounds>>

-----------------------------------------------------------------------------
(* LockShared, LockExclusive, LockUpgrade.  Locking a record twice is        *)
(* undefined (LOCK_NOTE), so clients do not.                                *)

MayLock(t, r) == pc[t] = "run" /\ r \notin shared_set[t] \cup exclusive_set[t]

\* Mutant: the shrinking phase is not checked.
LockPrepareAccepts(t) == FALSE

LockPrepareFails(t) == state[t] = "SHRINKING"

LockShared(t, r) ==
  /\ MayLock(t, r)
  /\ IF Isolation[t] = "READ_UNCOMMITTED" \/ LockPrepareFails(t)
     THEN Refuse(t)
     ELSE Acquire(t, r, "LockShared", Enqueue(lock_table[r], t, "SHARED"), shared_set)

LockExclusive(t, r) ==
  /\ MayLock(t, r)
  /\ IF LockPrepareFails(t)
     THEN Refuse(t)
     ELSE Acquire(t, r, "LockExclusive", Enqueue(lock_table[r], t, "EXCLUSIVE"), shared_set)

\* Mutant: the shared lock given up is still counted.
ToUpgradeKeepsCount(q, t) == SetRequest(q, t, "EXCLUSIVE", FALSE)

\* The request of t as LockUpgrade rewrites it before it waits.
ToUpgrade(q, t) ==
  [SetRequest(q, t, "EXCLUSIVE", FALSE) EXCEPT !.sharing_count = @ - 1]

LockUpgrade(t, r) ==
  /\ pc[t] = "run" /\ r \in shared_set[t]
  /\ IF state[t] = "SHRINKING" \/ lock_table[r].upgrading
     THEN Refuse(t)
     ELSE Acquire(t, r, "LockUpgrade", ToUpgrade(lock_table[r], t),
                  [shared_set EXCEPT ![t] = @ \ {r}])

\* A notified transaction re-evaluates the predicate of its wait.
Wake(t) ==
  /\ pc[t] = "wait" /\ t \in notified
  /\ LET q == lock_table[want[t].rid]
     IN Settle(t, want[t].rid, want[t].kind, q, state, shared_set,
               KeepsWaiting(q, want[t].kind))
  /\ notified' = notified \ {t}
  /\ UNCHANGED wounds

\* cv_.wait may wake up by itself.
Spurious(t) ==
  /\ pc[t] = "wait" /\ t \notin notified
  /\ notified' = notified \cup {t}
  /\ UNCHANGED <<lock_table, txnVars, wounds>>

-----------------------------------------------------------------------------
(* Unlock.                                                                 *)

ModeOf(q, t) == q.request_queue[Position(q, t)].lock_mode

\* Mutant: an exclusive lock is counted down as well.
AfterUnlockCountsAll(q, t) ==
  [Dequeue(q, t) EXCEPT !.sharing_count = @ - 1,
                        !.is_writing = @ /\ ModeOf(q, t) = "SHARED"]

AfterUnlock(q, t) ==
  IF ModeOf(q, t) = "SHARED"
  THEN [Dequeue(q, t) EXCEPT !.sharing_count = @ - 1]
  ELSE [Dequeue(q, t) EXCEPT !.is_writing = FALSE]

\* Mutant: only the release of an exclusive lock notifies.
NotifiesAfterWrite(q, mode) == mode = "EXCLUSIVE"

\* Whether Unlock notifies all waiters, given the queue it leaves.
Notifies(q, mode) == mode = "EXCLUSIVE" \/ q.sharing_count = 0

UnlockState(t, mode) ==
  IF ~ (mode = "SHARED" /\ Isolation[t] = "READ_COMMITTED") /\ state[t] = "GROWING"
  THEN "SHRINKING" ELSE state[t]

Unlock(t, r) ==
  LET q == lock_table[r]
      mode == ModeOf(q, t)
  IN /\ lock_table' = [lock_table EXCEPT ![r] = AfterUnlock(q, t)]
     /\ state' = [state EXCEPT ![t] = UnlockState(t, mode)]
     /\ shared_set' = [shared_set EXCEPT ![t] = @ \ {r}]
     /\ exclusive_set' = [exclusive_set EXCEPT ![t] = @ \ {r}]
     /\ notified' = IF Notifies(AfterUnlock(q, t), mode)
                    THEN notified \cup Waiters(r) ELSE notified
     /\ UNCHANGED <<pc, want, wounds>>

Held(t) == shared_set[t] \cup exclusive_set[t]

ClientUnlock(t, r) == pc[t] = "run" /\ r \in Held(t) /\ Unlock(t, r)

-----------------------------------------------------------------------------
(* TransactionManager::Commit and Abort.  A client commits a transaction    *)
(* whose state it has not seen to be ABORTED, and aborts one when a call     *)
(* threw, or at will.                                                       *)

Commit(t) ==
  /\ pc[t] = "run" /\ state[t] # "ABORTED"
  /\ state' = [state EXCEPT ![t] = "COMMITTED"]
  /\ pc' = [pc EXCEPT ![t] = "ending"]
  /\ UNCHANGED <<lock_table, shared_set, exclusive_set, want, notified, wounds>>

Abort(t) ==
  /\ pc[t] \in {"run", "failed"}
  /\ state' = [state EXCEPT ![t] = "ABORTED"]
  /\ pc' = [pc EXCEPT ![t] = "ending"]
  /\ UNCHANGED <<lock_table, shared_set, exclusive_set, want, notified, wounds>>

ReleaseLock(t, r) == pc[t] = "ending" /\ r \in Held(t) /\ Unlock(t, r)

Finish(t) ==
  /\ pc[t] = "ending" /\ Held(t) = {}
  /\ pc' = [pc EXCEPT ![t] = "done"]
  /\ UNCHANGED <<lock_table, state, shared_set, exclusive_set, want, notified, wounds>>

-----------------------------------------------------------------------------
Next ==
  \E t \in Txns :
    \/ \E r \in Rids : \/ LockShared(t, r) \/ LockExclusive(t, r) \/ LockUpgrade(t, r)
                       \/ ClientUnlock(t, r) \/ ReleaseLock(t, r)
    \/ Wake(t) \/ Spurious(t) \/ Commit(t) \/ Abort(t) \/ Finish(t)

Spec == Init /\ [][Next]_vars

-----------------------------------------------------------------------------
(* Properties.                                                             *)

\* The types of the variables.  sharing_count_ becomes negative only by a wound
\* that the victim's own Unlock counts a second time.
TypeOK ==
  /\ \A r \in Rids : /\ lock_table[r].request_queue \in Seq(LockRequest)
                     /\ lock_table[r].upgrading \in BOOLEAN
                     /\ lock_table[r].sharing_count \in (IF wounds THEN Int ELSE Nat)
                     /\ lock_table[r].is_writing \in BOOLEAN
  /\ state \in [Txns -> States]
  /\ shared_set \in [Txns -> SUBSET Rids]
  /\ exclusive_set \in [Txns -> SUBSET Rids]
  /\ pc \in [Txns -> {"run", "wait", "failed", "ending", "done"}]
  /\ notified \subseteq Txns
  /\ wounds \in BOOLEAN

GrantedTo(r, mode) ==
  {e.txn_id : e \in {x \in Entries(lock_table[r]) : x.granted /\ x.lock_mode = mode}}

\* The queue of a record holds one request per transaction, the granted ones
\* are exactly the locks in the transactions' lock sets and the others are
\* exactly those of the transactions that wait: no aborted, upgraded or ended
\* transaction leaves a request behind, wounded or not.
QueueMatchesSets ==
  \A r \in Rids :
    LET q == lock_table[r].request_queue
    IN /\ \A i, j \in 1 .. Len(q) : q[i].txn_id = q[j].txn_id => i = j
       /\ GrantedTo(r, "SHARED") = {t \in Txns : r \in shared_set[t]}
       /\ GrantedTo(r, "EXCLUSIVE") = {t \in Txns : r \in exclusive_set[t]}
       /\ {q[i].txn_id : i \in {j \in 1 .. Len(q) : ~ q[j].granted}} = Waiters(r)

\* Two-phase locking: a transaction that released a lock (other than a shared
\* one under READ_COMMITTED) never gets another, nor does one that ended.
TwoPhase ==
  [][\A t \in Txns :
       (shared_set'[t] \cup exclusive_set'[t]) \ Held(t) # {} =>
         state[t] = "GROWING" /\ state'[t] = "GROWING"]_vars

\* Until DeadlockPrevent finds its first victim, sharing_count_ and is_writing_
\* describe the granted requests, and upgrading_ is set exactly while some
\* transaction waits to upgrade.
CountsMatchQueue ==
  wounds \/ \A r \in Rids :
    /\ lock_table[r].sharing_count = Cardinality(GrantedTo(r, "SHARED"))
    /\ lock_table[r].is_writing <=> GrantedTo(r, "EXCLUSIVE") # {}
    /\ lock_table[r].upgrading <=> \E t \in Waiters(r) : want[t].kind = "LockUpgrade"

\* Until the first wound, a record held exclusively is held by nobody else.
\* (Afterwards not even by transactions that were not aborted: DeadlockPrevent
\* and the unlock of its victim clear is_writing_ of whoever owns the record.)
ExclusiveUntilWound ==
  wounds \/ \A t, u \in Txns : t # u => exclusive_set[t] \cap Held(u) = {}

\* Until the first wound, a transaction sleeps in cv_.wait only while the
\* predicate of its wait is false: Unlock notifies whenever it has to.
NoMissedNotify ==
  wounds \/ \A t \in Txns : pc[t] = "wait" /\ t \notin notified =>
    KeepsWaiting(lock_table[want[t].rid], want[t].kind)

\* t waits for a lock that u holds and neither was told to abort.
WaitsFor(t, u) ==
  /\ pc[t] = "wait" /\ state[t] # "ABORTED"
  /\ t # u /\ state[u] # "ABORTED"
  /\ \/ want[t].rid \in exclusive_set[u]
     \/ want[t].kind # "LockShared" /\ want[t].rid \in shared_set[u]

\* The deadlock prevention policy the lock manager is "configured for": no
\* transactions wait for each other in a circle.  DeadlockPrevent wounds the
\* younger holders when a request arrives; a younger reader that is let in
\* beside the readers afterwards, past the waiting writer, is not among them.
NoWaitCycle ==
  ~ \E C \in SUBSET Txns \ {{}} : \A t \in C : \E u \in C : WaitsFor(t, u)
=============================================================================
