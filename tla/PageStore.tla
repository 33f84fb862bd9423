------------------------------ MODULE PageStore ------------------------------
(***************************************************************************)
(* What a buffer pool promises its clients: pages are created zeroed, a     *)
(* client that holds a page may change it, and nothing else ever changes    *)
(* what a page contains -- there are no frames, no file and no replacement. *)
(* Fetching a page (Acquire) may be refused, but then nothing happens.      *)
(***************************************************************************)
EXTENDS Integers

CONSTANTS PageId, Data, Zero, Client, None

VARIABLES
  store,  \* the content of every page, None before it is created
  held    \* the page each client holds, None when it holds none

vars == <<store, held>>

Init ==
  /\ store = [p \in PageId |-> None]
  /\ held = [c \in Client |-> None]

Create(c, p) ==
  /\ held[c] = None
  /\ store[p] = None
  /\ store' = [store EXCEPT ![p] = Zero]
  /\ held' = [held EXCEPT ![c] = p]

Acquire(c, p) ==
  /\ held[c] = None
  /\ store[p] # None
  /\ held' = [held EXCEPT ![c] = p]
  /\ UNCHANGED store

Write(c, d) ==
  /\ held[c] # None
  /\ store' = [store EXCEPT ![held[c]] = d]
  /\ UNCHANGED held

Release(c) ==
  /\ held[c] # None
  /\ held' = [held EXCEPT ![c] = None]
  /\ UNCHANGED store

Next ==
  \E c \in Client :
    \/ \E p \in PageId : Create(c, p) \/ Acquire(c, p)
    \/ \E d \in Data : Write(c, d)
    \/ Release(c)

Spec == Init /\ [][Next]_vars
=============================================================================
