------------------------------- MODULE RWLatch -------------------------------
(***************************************************************************)
(* ReaderWriterLatch (src/include/common/rwlatch.h): a mutex, two condition *)
(* variables and the two fields they guard.  The code between two waits     *)
(* runs under mutex_ and is one action.  A thread blocked in wait() sleeps  *)
(* until a notification (or a spurious wake-up) puts it into `awake`; it    *)
(* then takes mutex_ again and re-evaluates the condition of its loop.      *)
(***************************************************************************)
EXTENDS Integers, FiniteSets

CONSTANTS
  Threads,
  MAX_READERS   \* UINT_MAX in the code

ASSUME LatchAssumption == IsFiniteSet(Threads) /\ MAX_READERS \in Nat \ {0}

VARIABLES
  reader_count,    \* reader_count_
  writer_entered,  \* writer_entered_
  pc,              \* where each thread is
  awake            \* threads taken off a condition variable's wait queue

vars == <<reader_count, writer_entered, pc, awake>>

States == {"idle",      \* holds nothing
           "rWait",     \* RLock, in reader_.wait
           "wWait",     \* WLock, first loop, in reader_.wait
           "wDrain",    \* WLock, second loop, in writer_.wait
           "reading", "writing"}

At(s) == {t \in Threads : pc[t] = s}

\* The wait queues of reader_ and writer_.
OnReader == (At("rWait") \cup At("wWait")) \ awake
OnWriter == At("wDrain") \ awake

\* reader_count_ is unsigned: it wraps at both ends.
Inc(n) == IF n = MAX_READERS THEN 0 ELSE n + 1

\* Mutant: the count is decremented twice.
DecTwice(n) == n - 2

Dec(n) == IF n = 0 THEN MAX_READERS ELSE n - 1

Init ==
  /\ reader_count = 0
  /\ writer_entered = FALSE
  /\ pc = [t \in Threads |-> "idle"]
  /\ awake = {}

-----------------------------------------------------------------------------
(* RLock.  Called when idle, re-evaluated when awake in its loop.          *)

\* Mutant: the writer is not looked at.
ReaderIgnoresWriter == reader_count = MAX_READERS

MustWaitToRead == writer_entered \/ reader_count = MAX_READERS

RLockTry(t) ==
  /\ awake' = awake \ {t}
  /\ IF MustWaitToRead
     THEN pc' = [pc EXCEPT ![t] = "rWait"] /\ UNCHANGED reader_count
     ELSE pc' = [pc EXCEPT ![t] = "reading"] /\ reader_count' = Inc(reader_count)
  /\ UNCHANGED writer_entered

RLock(t) == pc[t] = "idle" /\ RLockTry(t)
RLockWake(t) == pc[t] = "rWait" /\ t \in awake /\ RLockTry(t)

-----------------------------------------------------------------------------
(* WLock.  The second loop follows the first under the same mutex_.        *)

WLockTry(t) ==
  /\ awake' = awake \ {t}
  /\ IF writer_entered
     THEN pc' = [pc EXCEPT ![t] = "wWait"] /\ UNCHANGED writer_entered
     ELSE /\ writer_entered' = TRUE
          /\ pc' = [pc EXCEPT ![t] = IF reader_count > 0 THEN "wDrain" ELSE "writing"]
  /\ UNCHANGED reader_count

WLock(t) == pc[t] = "idle" /\ WLockTry(t)
WLockWake(t) == pc[t] = "wWait" /\ t \in awake /\ WLockTry(t)

\* Mutant: the second loop is an if, so any wake-up ends the wait.
WDrainWakeOnce(t) ==
  /\ pc[t] = "wDrain" /\ t \in awake
  /\ awake' = awake \ {t}
  /\ pc' = [pc EXCEPT ![t] = "writing"]
  /\ UNCHANGED <<reader_count, writer_entered>>

WDrainWake(t) ==
  /\ pc[t] = "wDrain" /\ t \in awake
  /\ awake' = awake \ {t}
  /\ pc' = [pc EXCEPT ![t] = IF reader_count > 0 THEN "wDrain" ELSE "writing"]
  /\ UNCHANGED <<reader_count, writer_entered>>

-----------------------------------------------------------------------------
(* WUnlock and RUnlock.                                                    *)

\* notify_one: one sleeper of the queue, if there is any.
NotifyOne(queue) ==
  IF queue = {} THEN UNCHANGED awake ELSE \E u \in queue : awake' = awake \cup {u}

\* Mutant: writer_entered_ is not cleared.
WUnlockKeepsFlag(t) ==
  /\ pc[t] = "writing"
  /\ awake' = awake \cup OnReader
  /\ pc' = [pc EXCEPT ![t] = "idle"]
  /\ UNCHANGED <<reader_count, writer_entered>>

\* Mutant: notify_one where the code has notify_all.
WUnlockNotifiesOne(t) ==
  /\ pc[t] = "writing"
  /\ writer_entered' = FALSE
  /\ NotifyOne(OnReader)
  /\ pc' = [pc EXCEPT ![t] = "idle"]
  /\ UNCHANGED reader_count

WUnlock(t) ==
  /\ pc[t] = "writing"
  /\ writer_entered' = FALSE
  /\ awake' = awake \cup OnReader
  /\ pc' = [pc EXCEPT ![t] = "idle"]
  /\ UNCHANGED reader_count

\* Mutant: the last reader does not notify the draining writer.
RUnlockNotifiesReaders(count) ==
  IF ~ writer_entered /\ count = MAX_READERS - 1 THEN OnReader ELSE {}

\* Which queue the last lines of RUnlock notify, given the decremented count.
RUnlockQueue(count) ==
  IF writer_entered THEN IF count = 0 THEN OnWriter ELSE {}
  ELSE IF count = MAX_READERS - 1 THEN OnReader ELSE {}

RUnlock(t) ==
  /\ pc[t] = "reading"
  /\ reader_count' = Dec(reader_count)
  /\ NotifyOne(RUnlockQueue(Dec(reader_count)))
  /\ pc' = [pc EXCEPT ![t] = "idle"]
  /\ UNCHANGED writer_entered

\* wait() may return without a notification.
Spurious(t) ==
  /\ t \in OnReader \cup OnWriter
  /\ awake' = awake \cup {t}
  /\ UNCHANGED <<reader_count, writer_entered, pc>>

-----------------------------------------------------------------------------
Wake(t) == RLockWake(t) \/ WLockWake(t) \/ WDrainWake(t)

Next ==
  \E t \in Threads :
    \/ RLock(t) \/ WLock(t) \/ WUnlock(t) \/ RUnlock(t)
    \/ RLockWake(t) \/ WLockWake(t) \/ WDrainWake(t)
    \/ Spurious(t)

Spec == Init /\ [][Next]_vars

\* A notified thread gets the mutex eventually, and holders let go of the
\* latch: both are what callers of a latch rely on.
FairSpec ==
  /\ Spec
  /\ \A t \in Threads : WF_vars(Wake(t)) /\ WF_vars(WUnlock(t) \/ RUnlock(t))

-----------------------------------------------------------------------------
(* Properties.                                                             *)

\* The types of the variables.
TypeOK ==
  /\ reader_count \in 0 .. MAX_READERS
  /\ writer_entered \in BOOLEAN
  /\ pc \in [Threads -> States]
  /\ awake \subseteq Threads

\* A writer excludes every reader and every other writer.
MutualExclusion ==
  /\ \A t, u \in At("writing") : t = u
  /\ At("writing") # {} => At("reading") = {}

\* reader_count_ counts the readers, and writer_entered_ is set exactly when
\* one writer owns or drains the latch.
FieldsAccounted ==
  /\ reader_count = Cardinality(At("reading"))
  /\ writer_entered <=> At("writing") \cup At("wDrain") # {}
  /\ \A t, u \in At("writing") \cup At("wDrain") : t = u

\* Nobody sleeps through a notification it needed: a thread sleeps in wait()
\* only while the condition of its loop holds.  A sleeper nobody will wake
\* would hang although the latch is free.
NoLostWakeup ==
  /\ OnReader # {} => writer_entered
  /\ OnWriter # {} => reader_count > 0

\* A writer that announced itself gets the latch: readers that come later
\* cannot overtake it.  And once no new thread asks for the latch, every thread
\* that waits gets it (while new ones keep coming, the mutex may serve them
\* first for ever).
WaitersServed ==
  /\ \A t \in Threads : pc[t] = "wDrain" ~> pc[t] = "writing"
  /\ <>[][\A t \in Threads : ~ RLock(t) /\ ~ WLock(t)]_vars =>
       \A t \in Threads : pc[t] \in {"rWait", "wWait"} ~> pc[t] \in {"reading", "writing"}

Lock == INSTANCE RWLock WITH
  Thread <- Threads, readers <- At("reading"), writers <- At("writing")

\* The latch implements the abstract reader-writer lock.
ImplementsRWLock == Lock!Spec
=============================================================================
