------------------------------- MODULE RWLock -------------------------------
(***************************************************************************)
(* What a reader-writer latch promises: many readers or one writer.         *)
(***************************************************************************)
CONSTANT Thread

VARIABLES readers, writers

Init == readers = {} /\ writers = {}

AcquireRead(t) ==
  /\ t \notin readers \cup writers
  /\ writers = {}
  /\ readers' = readers \cup {t}
  /\ UNCHANGED writers

AcquireWrite(t) ==
  /\ readers = {} /\ writers = {}
  /\ writers' = {t}
  /\ UNCHANGED readers

Release(t) ==
  /\ t \in readers \cup writers
  /\ readers' = readers \ {t}
  /\ writers' = writers \ {t}

Next == \E t \in Thread : AcquireRead(t) \/ AcquireWrite(t) \/ Release(t)

Spec == Init /\ [][Next]_<<readers, writers>>
=============================================================================
