------------------------------ MODULE SemRing ------------------------------
(***************************************************************************)
(* The ring of zad1, guarded by three System V semaphores (cw07/.../zad1,  *)
(* furnace.c and table.c).                                                 *)
(*                                                                         *)
(* semop applies its three operations in one atomic step and blocks until  *)
(* it can.  Nobody looks at its result: on a semaphore set that has been   *)
(* removed it fails, and the caller goes on as if it held the lock.        *)
(***************************************************************************)
EXTENDS Ring

VARIABLES
  removed,    \* the semaphore set is gone (IPC_RMID)
  sem         \* the LOCK, USED and FREE semaphores

vars == <<removed, sem, ring, loc>>

InitSem == [lock |-> 1, used |-> 0, free |-> Size]

Init ==
  /\ removed = FALSE
  /\ sem = InitSem
  /\ ring = InitRing
  /\ loc = [w \in Workers |-> Outside]

-----------------------------------------------------------------------------

Semop(lock, used, free) ==
  \/ /\ ~removed
     /\ sem.lock + lock >= 0 /\ sem.used + used >= 0 /\ sem.free + free >= 0
     /\ sem' = [lock |-> sem.lock + lock, used |-> sem.used + used, free |-> sem.free + free]
  \/ removed /\ UNCHANGED sem

\* mutant: the put does not wait for a free slot
PutEnter_NoFree(w, z) ==
  /\ loc[w].at = "out"
  /\ Semop(-1, 1, 0)
  /\ Goto(w, Frame("put", z, 0, 0))
  /\ UNCHANGED <<removed, ring>>

\* mutant: the put does not wait for the lock
PutEnter_NoLock(w, z) ==
  /\ loc[w].at = "out"
  /\ Semop(0, 1, -1)
  /\ Goto(w, Frame("put", z, 0, 0))
  /\ UNCHANGED <<removed, ring>>

PutEnter(w, z) ==
  /\ loc[w].at = "out"
  /\ Semop(-1, 1, -1)
  /\ Goto(w, Frame("put", z, 0, 0))
  /\ UNCHANGED <<removed, ring>>

\* mutant: the get gives no slot back
GetEnter_NoFree(w) ==
  /\ loc[w].at = "out"
  /\ Semop(-1, -1, 0)
  /\ Goto(w, Frame("get", NoPizza, 0, 0))
  /\ UNCHANGED <<removed, ring>>

GetEnter(w) ==
  /\ loc[w].at = "out"
  /\ Semop(-1, -1, 1)
  /\ Goto(w, Frame("get", NoPizza, 0, 0))
  /\ UNCHANGED <<removed, ring>>

\* the second semop, and the return
Unlock(w) ==
  /\ loc[w].at \in {"stored", "removed"}
  /\ Semop(1, 0, 0)
  /\ Goto(w, Outside)
  /\ UNCHANGED <<removed, ring>>

Inner(w) == Access(w) /\ UNCHANGED <<removed, sem>>

Next ==
  \E w \in Workers :
    Inner(w) \/ Unlock(w) \/ GetEnter(w) \/ \E z \in Pizzas : PutEnter(w, z)

Spec == Init /\ [][Next]_vars

-----------------------------------------------------------------------------

Inside == {w \in Workers : loc[w].at # "out"}

\* Every field and register of the ring has its type; in particular both heads
\* stay inside arr and usage never leaves 0..Size.
TypeOK ==
  /\ removed = FALSE
  /\ sem \in [lock : 0 .. 1, used : 0 .. Size, free : 0 .. Size]
  /\ RingType
  /\ loc \in [Workers -> [at : {"out", "put", "store", "stored", "get", "remove", "removed"},
                          pizza : Pizzas \cup {NoPizza}, head : Slots, usage : 0 .. Size]]

\* "get lock" (furnace.c:11): the lock semaphore is down exactly while one worker
\* is in put or get, in whatever order the workers pass the semaphores.
LockExcludes ==
  /\ \A v, w \in Inside : v = w
  /\ sem.lock = 0 <=> Inside # {}

\* "get free slot", "get element" (furnace.c:21, 50): the semaphores count what the
\* ring holds, plus what the worker inside is about to put or has still to take,
\* so one that puts finds a free slot and one that gets finds a pizza.
SemaphoresCount ==
  /\ sem.used + sem.free = Size
  /\ \A w \in At({"put", "store"}) : sem.used = ring.usage + 1
  /\ \A w \in At({"get", "remove"}) : sem.used = ring.usage - 1
  /\ At({"put", "store", "get", "remove"}) = {} => sem.used = ring.usage

\* Every run of the ring is a run of a bounded first-in first-out queue: no pizza
\* is lost, doubled or overtaken, and the usage each call reports is the true one.
IsFifo == Fifo!Spec
=============================================================================
