---------------------------- MODULE RWLatchProofs ----------------------------
(***************************************************************************)
(* Proofs about RWLatch for every finite set of threads and every limit on  *)
(* the number of readers.                                                   *)
(***************************************************************************)
EXTENDS RWLatch, FiniteSetTheorems, TLAPS

\* The two fields agree with where the threads are: the strengthening that
\* makes mutual exclusion inductive.
LatchInv == TypeOK /\ FieldsAccounted /\ MutualExclusion

\* Counting the threads of a set that gains or loses one.
LEMMA Counting ==
  ASSUME NEW t \in Threads, NEW S \in SUBSET Threads
  PROVE  /\ t \notin S => Cardinality(S \cup {t}) = Cardinality(S) + 1
         /\ t \in S => Cardinality(S \ {t}) = Cardinality(S) - 1
         /\ Cardinality(S) \in Nat
         /\ Cardinality(S) = 0 <=> S = {}
         /\ Cardinality(S) <= Cardinality(Threads)
PROOF
<1>1. IsFiniteSet(S) /\ Cardinality(S) <= Cardinality(Threads)
  BY FS_Subset, LatchAssumption
<1>2. Cardinality(S) \in Nat
  BY <1>1, FS_CardinalityType
<1>3. Cardinality(S) = 0 <=> S = {}
  BY <1>1, FS_EmptySet
<1>4. t \notin S => Cardinality(S \cup {t}) = Cardinality(S) + 1
  BY <1>1, FS_AddElement
<1>5. t \in S => Cardinality(S \ {t}) = Cardinality(S) - 1
  BY <1>1, FS_RemoveElement
<1> QED BY <1>1, <1>2, <1>3, <1>4, <1>5

\* A latch nobody has asked for satisfies the inductive invariant.
LEMMA LatchInit == Init => LatchInv
PROOF
<1> SUFFICES ASSUME Init PROVE LatchInv
  OBVIOUS
<1>1. \A s \in States \ {"idle"} : At(s) = {}
  BY DEF Init, At
<1>2. TypeOK
  <2>1. pc \in [Threads -> States] /\ awake \subseteq Threads
    BY DEF Init, States
  <2>2. reader_count \in 0 .. MAX_READERS
    BY LatchAssumption DEF Init
  <2>3. writer_entered \in BOOLEAN
    BY DEF Init
  <2> QED BY <2>1, <2>2, <2>3 DEF TypeOK
<1>3. At("reading") = {} /\ At("writing") = {} /\ At("wDrain") = {}
  BY <1>1 DEF States
<1>4. FieldsAccounted
  BY <1>3, FS_EmptySet DEF Init, FieldsAccounted
<1>5. MutualExclusion
  BY <1>3 DEF MutualExclusion
<1> QED BY <1>2, <1>4, <1>5 DEF LatchInv

\* RLock, first try or after a wake-up.
LEMMA RLockStep ==
  ASSUME LatchInv, NEW t \in Threads, pc[t] \in {"idle", "rWait"}, RLockTry(t)
  PROVE  LatchInv'
PROOF
<1> USE DEF LatchInv
<1>0. pc \in [Threads -> States]
  BY DEF TypeOK
<1>1. t \notin At("reading") /\ t \notin At("writing") /\ t \notin At("wDrain")
  BY DEF At
<1>2. awake' \subseteq Threads /\ writer_entered' = writer_entered
  BY DEF RLockTry, TypeOK
<1>3. CASE MustWaitToRead
  <2>1. pc' = [pc EXCEPT ![t] = "rWait"] /\ reader_count' = reader_count
    BY <1>3 DEF RLockTry
  <2>2. /\ pc' \in [Threads -> States] /\ At("reading")' = At("reading")
        /\ At("writing")' = At("writing") /\ At("wDrain")' = At("wDrain")
    BY <1>0, <1>1, <2>1 DEF At, States
  <2> QED BY <1>2, <2>1, <2>2 DEF TypeOK, FieldsAccounted, MutualExclusion
<1>4. CASE ~ MustWaitToRead
  <2>1. /\ pc' = [pc EXCEPT ![t] = "reading"] /\ reader_count' = Inc(reader_count)
        /\ ~ writer_entered /\ reader_count # MAX_READERS
    BY <1>4 DEF RLockTry, MustWaitToRead
  <2>2. /\ pc' \in [Threads -> States] /\ At("reading")' = At("reading") \cup {t}
        /\ At("writing")' = At("writing") /\ At("wDrain")' = At("wDrain")
    BY <1>0, <1>1, <2>1 DEF At, States
  <2>3. reader_count' = reader_count + 1 /\ reader_count' \in 0 .. MAX_READERS
    BY <2>1, LatchAssumption DEF Inc, TypeOK
  <2>4. At("reading") \in SUBSET Threads
    BY DEF At
  <2>5. Cardinality(At("reading") \cup {t}) = Cardinality(At("reading")) + 1
    BY <1>1, <2>4, Counting
  <2>6. At("writing") = {} /\ At("wDrain") = {}
    BY <2>1 DEF FieldsAccounted
  <2> QED BY <1>2, <2>1, <2>2, <2>3, <2>5, <2>6 DEF TypeOK, FieldsAccounted, MutualExclusion
<1> QED BY <1>3, <1>4

\* WLock, first try or after a wake-up.
LEMMA WLockStep ==
  ASSUME LatchInv, NEW t \in Threads, pc[t] \in {"idle", "wWait"}, WLockTry(t)
  PROVE  LatchInv'
PROOF
<1> USE DEF LatchInv
<1>0. pc \in [Threads -> States]
  BY DEF TypeOK
<1>1. t \notin At("reading") /\ t \notin At("writing") /\ t \notin At("wDrain")
  BY DEF At
<1>2. awake' \subseteq Threads /\ reader_count' = reader_count
  BY DEF WLockTry, TypeOK
<1>3. CASE writer_entered
  <2>1. pc' = [pc EXCEPT ![t] = "wWait"] /\ writer_entered' = writer_entered
    BY <1>3 DEF WLockTry
  <2>2. /\ pc' \in [Threads -> States] /\ At("reading")' = At("reading")
        /\ At("writing")' = At("writing") /\ At("wDrain")' = At("wDrain")
    BY <1>0, <1>1, <2>1 DEF At, States
  <2> QED BY <1>2, <2>1, <2>2 DEF TypeOK, FieldsAccounted, MutualExclusion
<1>4. CASE ~ writer_entered
  <2>1. At("writing") = {} /\ At("wDrain") = {}
    BY <1>4 DEF FieldsAccounted
  <2>2. CASE reader_count > 0
    <3>1. pc' = [pc EXCEPT ![t] = "wDrain"] /\ writer_entered' = TRUE
      BY <1>4, <2>2 DEF WLockTry
    <3>2. /\ pc' \in [Threads -> States] /\ At("reading")' = At("reading")
          /\ At("writing")' = At("writing") /\ At("wDrain")' = {t}
      BY <1>0, <1>1, <2>1, <3>1 DEF At, States
    <3> QED BY <1>2, <2>1, <3>1, <3>2 DEF TypeOK, FieldsAccounted, MutualExclusion
  <2>3. CASE ~ (reader_count > 0)
    <3>1. pc' = [pc EXCEPT ![t] = "writing"] /\ writer_entered' = TRUE
      BY <1>4, <2>3 DEF WLockTry
    <3>2. /\ pc' \in [Threads -> States] /\ At("reading")' = At("reading")
          /\ At("writing")' = {t} /\ At("wDrain")' = At("wDrain")
      BY <1>0, <1>1, <2>1, <3>1 DEF At, States
    <3>3. At("reading") \in SUBSET Threads
      BY DEF At
    <3>4. reader_count = 0
      BY <2>3 DEF TypeOK
    <3>5. At("reading") = {}
      BY <3>3, <3>4, Counting DEF FieldsAccounted
    <3> QED BY <1>2, <2>1, <3>1, <3>2, <3>5 DEF TypeOK, FieldsAccounted, MutualExclusion
  <2> QED BY <2>2, <2>3
<1> QED BY <1>3, <1>4

\* A draining writer re-evaluates its second loop.
LEMMA WDrainStep ==
  ASSUME LatchInv, NEW t \in Threads, WDrainWake(t)
  PROVE  LatchInv'
PROOF
<1> USE DEF LatchInv
<1>0. pc \in [Threads -> States]
  BY DEF TypeOK
<1>1. t \in At("wDrain") /\ t \notin At("reading") /\ t \notin At("writing")
  BY DEF At, WDrainWake
<1>2. awake' \subseteq Threads /\ reader_count' = reader_count /\ writer_entered' = writer_entered
  BY DEF WDrainWake, TypeOK
<1>3. CASE reader_count > 0
  <2>1. pc' = [pc EXCEPT ![t] = "wDrain"]
    BY <1>3 DEF WDrainWake
  <2>2. /\ pc' \in [Threads -> States] /\ At("reading")' = At("reading")
        /\ At("writing")' = At("writing") /\ At("wDrain")' = At("wDrain")
    BY <1>0, <1>1, <2>1 DEF At, States
  <2> QED BY <1>2, <2>1, <2>2 DEF TypeOK, FieldsAccounted, MutualExclusion
<1>4. CASE ~ (reader_count > 0)
  <2>1. pc' = [pc EXCEPT ![t] = "writing"]
    BY <1>4 DEF WDrainWake
  <2>2. /\ pc' \in [Threads -> States] /\ At("reading")' = At("reading")
        /\ At("writing")' = At("writing") \cup {t} /\ At("wDrain")' = At("wDrain") \ {t}
    BY <1>0, <1>1, <2>1 DEF At, States
  <2>3. At("reading") \in SUBSET Threads
    BY DEF At
  <2>4. reader_count = 0
    BY <1>4 DEF TypeOK
  <2>5. At("reading") = {}
    BY <2>3, <2>4, Counting DEF FieldsAccounted
  <2>6. At("writing") = {} /\ At("wDrain") = {t}
    BY <1>1 DEF FieldsAccounted
  <2> QED BY <1>1, <1>2, <2>2, <2>5, <2>6 DEF TypeOK, FieldsAccounted, MutualExclusion
<1> QED BY <1>3, <1>4

\* WUnlock wakes every thread that waits to enter and keeps LatchInv.
LEMMA WUnlockStep ==
  ASSUME LatchInv, NEW t \in Threads, WUnlock(t)
  PROVE  LatchInv'
PROOF
<1> USE DEF LatchInv
<1>0. pc \in [Threads -> States]
  BY DEF TypeOK
<1>1. t \in At("writing") /\ t \notin At("reading") /\ t \notin At("wDrain")
  BY DEF At, WUnlock
<1>2. awake' \subseteq Threads /\ reader_count' = reader_count /\ writer_entered' = FALSE
  BY DEF WUnlock, TypeOK, OnReader, At
<1>3. pc' = [pc EXCEPT ![t] = "idle"]
  BY DEF WUnlock
<1>4. /\ pc' \in [Threads -> States] /\ At("reading")' = At("reading")
      /\ At("writing")' = At("writing") \ {t} /\ At("wDrain")' = At("wDrain")
  BY <1>0, <1>1, <1>3 DEF At, States
<1>5. At("writing") = {t} /\ At("wDrain") = {}
  BY <1>1 DEF FieldsAccounted
<1> QED BY <1>2, <1>4, <1>5 DEF TypeOK, FieldsAccounted, MutualExclusion

\* RUnlock, whichever thread it notifies, keeps LatchInv.
LEMMA RUnlockStep ==
  ASSUME LatchInv, NEW t \in Threads, RUnlock(t)
  PROVE  LatchInv' /\ reader_count' = reader_count - 1
PROOF
<1> USE DEF LatchInv
<1>0. pc \in [Threads -> States]
  BY DEF TypeOK
<1>1. t \in At("reading") /\ t \notin At("writing") /\ t \notin At("wDrain")
  BY DEF At, RUnlock
<1>2. At("reading") \in SUBSET Threads
  BY DEF At
<1>3. /\ Cardinality(At("reading") \ {t}) = Cardinality(At("reading")) - 1
      /\ Cardinality(At("reading")) # 0
  BY <1>1, <1>2, Counting
<1>4. reader_count' = reader_count - 1 /\ reader_count' \in 0 .. MAX_READERS
  BY <1>3, LatchAssumption DEF RUnlock, Dec, TypeOK, FieldsAccounted
<1>5. awake' \subseteq Threads /\ writer_entered' = writer_entered
  <2>1. RUnlockQueue(Dec(reader_count)) \subseteq Threads
    BY DEF RUnlockQueue, OnReader, OnWriter, At
  <2> QED BY <2>1 DEF RUnlock, NotifyOne, TypeOK
<1>6. pc' = [pc EXCEPT ![t] = "idle"]
  BY DEF RUnlock
<1>7. /\ pc' \in [Threads -> States] /\ At("reading")' = At("reading") \ {t}
      /\ At("writing")' = At("writing") /\ At("wDrain")' = At("wDrain")
  BY <1>0, <1>1, <1>6 DEF At, States
<1> QED BY <1>1, <1>3, <1>4, <1>5, <1>7 DEF TypeOK, FieldsAccounted, MutualExclusion

\* Every step of every thread keeps LatchInv.
LEMMA LatchStep == LatchInv /\ [Next]_vars => LatchInv'
PROOF
<1> SUFFICES ASSUME LatchInv, [Next]_vars PROVE LatchInv'
  OBVIOUS
<1>1. ASSUME NEW t \in Threads, RLock(t) \/ RLockWake(t) PROVE LatchInv'
  BY <1>1, RLockStep DEF RLock, RLockWake
<1>2. ASSUME NEW t \in Threads, WLock(t) \/ WLockWake(t) PROVE LatchInv'
  BY <1>2, WLockStep DEF WLock, WLockWake
<1>3. ASSUME NEW t \in Threads, Spurious(t) PROVE LatchInv'
  <2>1. awake' \subseteq Threads /\ UNCHANGED <<reader_count, writer_entered, pc>>
    BY <1>3 DEF Spurious, LatchInv, TypeOK
  <2>2. \A s : At(s)' = At(s)
    BY <2>1 DEF At
  <2> QED BY <2>1, <2>2 DEF LatchInv, TypeOK, FieldsAccounted, MutualExclusion
<1>4. CASE UNCHANGED vars
  BY <1>4 DEF vars, LatchInv, TypeOK, FieldsAccounted, MutualExclusion, At
<1> QED BY <1>1, <1>2, <1>3, <1>4, WDrainStep, WUnlockStep, RUnlockStep DEF Next

\* However many threads and readers there are, up to the wrap of
\* reader_count_, a writer is alone.
THEOREM WriterIsAlone == Spec => []MutualExclusion
PROOF
<1>1. LatchInv => MutualExclusion
  BY DEF LatchInv
<1> QED BY LatchInit, LatchStep, <1>1, PTL DEF Spec

\* Type correctness: reader_count_ within its limit, every thread at one place of
\* RLock, WLock, RUnlock and WUnlock, and only threads woken up.
THEOREM TypeCorrect == Spec => []TypeOK
PROOF
<1>1. LatchInv => TypeOK
  BY DEF LatchInv
<1> QED BY LatchInit, LatchStep, <1>1, PTL DEF Spec

\* reader_count_ and writer_entered_ describe the holders exactly.
THEOREM FieldsDescribeHolders == Spec => []FieldsAccounted
PROOF
<1>1. LatchInv => FieldsAccounted
  BY DEF LatchInv
<1> QED BY LatchInit, LatchStep, <1>1, PTL DEF Spec

-----------------------------------------------------------------------------
(* Wake-ups.                                                               *)

\* With more room for readers than threads, RLock waits for a writer only.
LEMMA ReadersFit ==
  ASSUME LatchInv, Cardinality(Threads) < MAX_READERS
  PROVE  reader_count # MAX_READERS
PROOF
<1>1. At("reading") \in SUBSET Threads
  BY DEF At
<1>2. Cardinality(Threads) \in Nat
  BY FS_CardinalityType, LatchAssumption
<1>3. CASE Threads = {}
  <2>1. At("reading") = {}
    BY <1>3, <1>1
  <2>2. reader_count = 0
    BY <2>1, FS_EmptySet DEF LatchInv, FieldsAccounted
  <2> QED BY <2>2, LatchAssumption
<1>4. CASE Threads # {}
  <2>1. PICK t \in Threads : TRUE
    BY <1>4
  <2>2. Cardinality(At("reading")) <= Cardinality(Threads) /\ Cardinality(At("reading")) \in Nat
    BY <1>1, <2>1, Counting
  <2> QED BY <1>2, <2>2, LatchAssumption DEF LatchInv, FieldsAccounted
<1> QED BY <1>3, <1>4

\* As long as the threads are fewer than MAX_READERS, no thread sleeps in
\* wait() while the condition it waits for already holds: every change of
\* reader_count_ and writer_entered_ notifies whoever it concerns.
THEOREM WakeupsNotLost ==
  ASSUME Cardinality(Threads) < MAX_READERS
  PROVE  Spec => []NoLostWakeup
PROOF
<1>1. Init => LatchInv /\ NoLostWakeup
  <2> SUFFICES ASSUME Init PROVE NoLostWakeup
    BY LatchInit
  <2>1. OnReader = {} /\ OnWriter = {}
    BY DEF Init, OnReader, OnWriter, At
  <2> QED BY <2>1 DEF NoLostWakeup
<1>2. LatchInv /\ NoLostWakeup /\ [Next]_vars => (LatchInv /\ NoLostWakeup)'
  <2> SUFFICES ASSUME LatchInv, NoLostWakeup, [Next]_vars PROVE LatchInv' /\ NoLostWakeup'
    OBVIOUS
  <2>0. LatchInv'
    BY LatchStep
  <2>T. pc \in [Threads -> States] /\ awake \subseteq Threads /\ reader_count \in Nat
    BY LatchAssumption DEF LatchInv, TypeOK
  <2>1. ASSUME NEW t \in Threads, RLock(t) \/ RLockWake(t) PROVE NoLostWakeup'
    <3>1. RLockTry(t) /\ pc[t] \in {"idle", "rWait"}
      BY <2>1 DEF RLock, RLockWake
    <3>2. awake' = awake \ {t} /\ writer_entered' = writer_entered
      BY <3>1 DEF RLockTry
    <3>3. CASE MustWaitToRead
      <4>1. pc' = [pc EXCEPT ![t] = "rWait"] /\ reader_count' = reader_count
        BY <3>1, <3>3 DEF RLockTry
      <4>2. writer_entered
        BY <3>3, ReadersFit DEF MustWaitToRead
      <4>3. OnWriter' = OnWriter
        BY <2>T, <3>1, <3>2, <4>1 DEF OnWriter, At, States
      <4> QED BY <3>2, <4>1, <4>2, <4>3 DEF NoLostWakeup
    <3>4. CASE ~ MustWaitToRead
      <4>1. pc' = [pc EXCEPT ![t] = "reading"] /\ reader_count' = reader_count + 1
        BY <3>1, <3>4, ReadersFit DEF RLockTry, Inc
      <4>2. OnReader' = OnReader \ {t}
        BY <2>T, <3>1, <3>2, <4>1 DEF OnReader, At, States
      <4>3. reader_count' > 0
        BY <4>1, <2>T
      <4> QED BY <3>2, <4>2, <4>3 DEF NoLostWakeup
    <3> QED BY <3>3, <3>4
  <2>2. ASSUME NEW t \in Threads, WLock(t) \/ WLockWake(t) PROVE NoLostWakeup'
    <3>1. WLockTry(t) /\ pc[t] \in {"idle", "wWait"}
      BY <2>2 DEF WLock, WLockWake
    <3>2. awake' = awake \ {t} /\ reader_count' = reader_count /\ writer_entered'
      BY <3>1 DEF WLockTry
    <3>3. CASE writer_entered
      <4>1. pc' = [pc EXCEPT ![t] = "wWait"]
        BY <3>1, <3>3 DEF WLockTry
      <4>2. OnWriter' = OnWriter
        BY <2>T, <3>1, <3>2, <4>1 DEF OnWriter, At, States
      <4> QED BY <3>2, <4>2 DEF NoLostWakeup
    <3>4. CASE ~ writer_entered /\ reader_count > 0
      BY <3>2, <3>4 DEF NoLostWakeup
    <3>5. CASE ~ writer_entered /\ ~ (reader_count > 0)
      <4>1. pc' = [pc EXCEPT ![t] = "writing"]
        BY <3>1, <3>5 DEF WLockTry
      <4>2. OnWriter' = OnWriter
        BY <2>T, <3>1, <3>2, <4>1 DEF OnWriter, At, States
      <4> QED BY <3>2, <4>2 DEF NoLostWakeup
    <3> QED BY <3>3, <3>4, <3>5
  <2>3. ASSUME NEW t \in Threads, WDrainWake(t) PROVE NoLostWakeup'
    <3>1. /\ awake' = awake \ {t} /\ reader_count' = reader_count
          /\ writer_entered' = writer_entered /\ pc[t] = "wDrain"
      BY <2>3 DEF WDrainWake
    <3>2. CASE reader_count > 0
      <4>1. pc' = [pc EXCEPT ![t] = "wDrain"]
        BY <2>3, <3>2 DEF WDrainWake
      <4>2. OnReader' = OnReader
        BY <2>T, <3>1, <4>1 DEF OnReader, At, States
      <4> QED BY <3>1, <3>2, <4>2 DEF NoLostWakeup
    <3>3. CASE ~ (reader_count > 0)
      <4>1. pc' = [pc EXCEPT ![t] = "writing"]
        BY <2>3, <3>3 DEF WDrainWake
      <4>2. OnReader' = OnReader /\ OnWriter' = OnWriter \ {t}
        BY <2>T, <3>1, <4>1 DEF OnReader, OnWriter, At, States
      <4> QED BY <3>1, <4>2 DEF NoLostWakeup
    <3> QED BY <3>2, <3>3
  <2>4. ASSUME NEW t \in Threads, WUnlock(t) PROVE NoLostWakeup'
    <3>1. /\ awake' = awake \cup OnReader /\ reader_count' = reader_count
          /\ pc' = [pc EXCEPT ![t] = "idle"] /\ pc[t] = "writing"
      BY <2>4 DEF WUnlock
    <3>2. OnReader' = {} /\ OnWriter' = OnWriter
      BY <2>T, <3>1 DEF OnReader, OnWriter, At, States
    <3> QED BY <3>1, <3>2 DEF NoLostWakeup
  <2>5. ASSUME NEW t \in Threads, RUnlock(t) PROVE NoLostWakeup'
    <3>1. /\ pc[t] = "reading" /\ pc' = [pc EXCEPT ![t] = "idle"]
          /\ writer_entered' = writer_entered
          /\ reader_count' = Dec(reader_count) /\ NotifyOne(RUnlockQueue(reader_count'))
      BY <2>5 DEF RUnlock
    <3>2. awake \subseteq awake'
      BY <3>1 DEF NotifyOne
    <3>3. OnReader' \subseteq OnReader /\ OnWriter' \subseteq OnWriter
      BY <2>T, <3>1, <3>2 DEF OnReader, OnWriter, At, States
    <3>4. ASSUME OnWriter' # {} PROVE reader_count' > 0
      <4>1. PICK w \in OnWriter : w \in OnWriter'
        BY <3>3, <3>4
      <4>2. w \in At("wDrain") /\ OnWriter \subseteq At("wDrain")
        BY <4>1 DEF OnWriter
      <4>3. writer_entered /\ \A u \in OnWriter : u = w
        BY <4>2 DEF LatchInv, FieldsAccounted
      <4>4. CASE reader_count' = 0
        <5>1. RUnlockQueue(reader_count') = OnWriter
          BY <4>3, <4>4 DEF RUnlockQueue
        <5>2. w \in awake'
          BY <3>1, <4>1, <4>3, <5>1 DEF NotifyOne
        <5> QED BY <4>1, <5>2 DEF OnWriter
      <4>5. reader_count' \in Nat
        BY <2>0, LatchAssumption DEF LatchInv, TypeOK
      <4> QED BY <4>4, <4>5
    <3> QED BY <3>1, <3>3, <3>4 DEF NoLostWakeup
  <2>6. ASSUME NEW t \in Threads, Spurious(t) PROVE NoLostWakeup'
    <3>1. awake' = awake \cup {t} /\ UNCHANGED <<reader_count, writer_entered, pc>>
      BY <2>6 DEF Spurious
    <3>2. OnReader' \subseteq OnReader /\ OnWriter' \subseteq OnWriter
      BY <3>1 DEF OnReader, OnWriter, At
    <3> QED BY <3>1, <3>2 DEF NoLostWakeup
  <2>7. CASE UNCHANGED vars
    BY <2>0, <2>7 DEF vars, NoLostWakeup, OnReader, OnWriter, At
  <2>8. CASE Next
    <3>1. PICK t \in Threads : \/ RLock(t) \/ WLock(t) \/ WUnlock(t) \/ RUnlock(t)
                              \/ RLockWake(t) \/ WLockWake(t) \/ WDrainWake(t)
                              \/ Spurious(t)
      BY <2>8 DEF Next
    <3> QED BY <3>1, <2>0, <2>1, <2>2, <2>3, <2>4, <2>5, <2>6
  <2> QED BY <2>0, <2>7, <2>8
<1> QED BY <1>1, <1>2, PTL DEF Spec

-----------------------------------------------------------------------------
(* Refinement.                                                             *)

\* The latch implements the abstract reader-writer lock: each return from
\* RLock or WLock is an acquisition the abstract lock allows at that moment,
\* and everything the condition variables do is invisible.
THEOREM LatchImplementsLock == Spec => ImplementsRWLock
PROOF
<1> DEFINE R == At("reading")
           W == At("writing")
<1>1. Init => Lock!Init
  BY DEF Init, Lock!Init, At
<1>2. LatchInv /\ [Next]_vars => [Lock!Next]_<<R, W>>
  <2> SUFFICES ASSUME LatchInv, [Next]_vars
               PROVE  Lock!Next \/ (R' = R /\ W' = W)
    BY DEF vars
  <2>T. pc \in [Threads -> States]
    BY DEF LatchInv, TypeOK
  <2>0. LatchInv'
    BY LatchStep
  <2>1. ASSUME NEW t \in Threads, RLock(t) \/ RLockWake(t)
        PROVE  Lock!AcquireRead(t) \/ (R' = R /\ W' = W)
    <3>1. RLockTry(t) /\ pc[t] \in {"idle", "rWait"}
      BY <2>1 DEF RLock, RLockWake
    <3>2. CASE MustWaitToRead
      BY <2>T, <3>1, <3>2 DEF RLockTry, At, States
    <3>3. CASE ~ MustWaitToRead
      <4>1. R' = R \cup {t} /\ W' = W /\ t \notin R \cup W
        BY <2>T, <3>1, <3>3 DEF RLockTry, At, States
      <4>2. W = {}
        BY <3>3 DEF MustWaitToRead, LatchInv, FieldsAccounted
      <4> QED BY <4>1, <4>2 DEF Lock!AcquireRead
    <3> QED BY <3>2, <3>3
  <2>2. ASSUME NEW t \in Threads, W' = W \cup {t}, R' = R, t \notin W,
               W = {}
        PROVE  Lock!AcquireWrite(t)
    <3>1. R = {}
      BY <2>0, <2>2 DEF LatchInv, MutualExclusion
    <3> QED BY <2>2, <3>1 DEF Lock!AcquireWrite
  <2>3. ASSUME NEW t \in Threads, WLock(t) \/ WLockWake(t)
        PROVE  Lock!AcquireWrite(t) \/ (R' = R /\ W' = W)
    <3>1. WLockTry(t) /\ pc[t] \in {"idle", "wWait"}
      BY <2>3 DEF WLock, WLockWake
    <3>2. CASE writer_entered \/ reader_count > 0
      BY <2>T, <3>1, <3>2 DEF WLockTry, At, States
    <3>3. CASE ~ writer_entered /\ ~ (reader_count > 0)
      <4>1. R' = R /\ W' = W \cup {t} /\ t \notin W
        BY <2>T, <3>1, <3>3 DEF WLockTry, At, States
      <4>2. W = {}
        BY <3>3 DEF LatchInv, FieldsAccounted
      <4> QED BY <2>2, <4>1, <4>2
    <3> QED BY <3>2, <3>3
  <2>4. ASSUME NEW t \in Threads, WDrainWake(t)
        PROVE  Lock!AcquireWrite(t) \/ (R' = R /\ W' = W)
    <3>1. CASE reader_count > 0
      BY <2>T, <2>4, <3>1 DEF WDrainWake, At, States
    <3>2. CASE ~ (reader_count > 0)
      <4>1. R' = R /\ W' = W \cup {t} /\ t \notin W /\ t \in At("wDrain")
        BY <2>T, <2>4, <3>2 DEF WDrainWake, At, States
      <4>2. W = {}
        BY <4>1 DEF LatchInv, FieldsAccounted
      <4> QED BY <2>2, <4>1, <4>2
    <3> QED BY <3>1, <3>2
  <2>5. ASSUME NEW t \in Threads, WUnlock(t) \/ RUnlock(t) PROVE Lock!Release(t)
    <3>1. R' = R \ {t} /\ W' = W \ {t} /\ t \in R \cup W
      BY <2>T, <2>5 DEF WUnlock, RUnlock, At, States
    <3> QED BY <3>1 DEF Lock!Release
  <2>6. ASSUME NEW t \in Threads, Spurious(t) PROVE R' = R /\ W' = W
    BY <2>6 DEF Spurious, At
  <2>7. CASE UNCHANGED vars
    BY <2>7 DEF vars, At
  <2>8. CASE Next
    <3>1. PICK t \in Threads : \/ RLock(t) \/ WLock(t) \/ WUnlock(t) \/ RUnlock(t)
                              \/ RLockWake(t) \/ WLockWake(t) \/ WDrainWake(t)
                              \/ Spurious(t)
      BY <2>8 DEF Next
    <3>2. \/ Lock!AcquireRead(t) \/ Lock!AcquireWrite(t) \/ Lock!Release(t)
          \/ (R' = R /\ W' = W)
      BY <3>1, <2>1, <2>3, <2>4, <2>5, <2>6
    <3> QED BY <3>2 DEF Lock!Next
  <2> QED BY <2>7, <2>8
<1> QED BY <1>1, <1>2, LatchInit, LatchStep, PTL DEF Spec, ImplementsRWLock, Lock!Spec
=============================================================================
