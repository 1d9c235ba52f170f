----------------------------- MODULE PosixRing -----------------------------
(***************************************************************************)
(* The ring of zad2, guarded by three POSIX semaphores (cw07/.../zad2,     *)
(* furnace.c and table.c).  A semaphore is waited for or posted one at a   *)
(* time: put reserves a free slot, then locks, writes, posts used and      *)
(* unlocks; get reserves a pizza, then locks, reads, posts free, unlocks.  *)
(***************************************************************************)
EXTENDS Ring

VARIABLE sem    \* the values of lock_sem, used_sem and free_sem

vars == <<sem, ring, loc>>

InitSem == [lock |-> 1, used |-> 0, free |-> Size]

Init ==
  /\ sem = InitSem
  /\ ring = InitRing
  /\ loc = [w \in Workers |-> Outside]

-----------------------------------------------------------------------------

SemWait(s) == sem[s] > 0 /\ sem' = [sem EXCEPT ![s] = @ - 1]
SemPost(s) == sem' = [sem EXCEPT ![s] = @ + 1]

PutReserve(w, z) ==
  /\ loc[w].at = "out"
  /\ SemWait("free")
  /\ Goto(w, Frame("reserved", z, 0, 0))
  /\ UNCHANGED ring

GetReserve(w) ==
  /\ loc[w].at = "out"
  /\ SemWait("used")
  /\ Goto(w, Frame("wanted", NoPizza, 0, 0))
  /\ UNCHANGED ring

\* mutant: the get does not lock
Lock_PutOnly(w) ==
  /\ \/ loc[w].at = "reserved" /\ SemWait("lock") /\ Goto(w, [loc[w] EXCEPT !.at = "put"])
     \/ loc[w].at = "wanted" /\ UNCHANGED sem /\ Goto(w, [loc[w] EXCEPT !.at = "get"])
  /\ UNCHANGED ring

Lock(w) ==
  /\ \/ loc[w].at = "reserved" /\ Goto(w, [loc[w] EXCEPT !.at = "put"])
     \/ loc[w].at = "wanted" /\ Goto(w, [loc[w] EXCEPT !.at = "get"])
  /\ SemWait("lock")
  /\ UNCHANGED ring

\* a new pizza can be read, or new space is available
Post(w) ==
  /\ \/ loc[w].at = "stored" /\ SemPost("used")
     \/ loc[w].at = "removed" /\ SemPost("free")
  /\ Goto(w, [loc[w] EXCEPT !.at = "unlock"])
  /\ UNCHANGED ring

Unlock(w) ==
  /\ loc[w].at = "unlock"
  /\ SemPost("lock")
  /\ Goto(w, Outside)
  /\ UNCHANGED ring

Inner(w) == Access(w) /\ UNCHANGED sem

Step(w) ==
  \/ Lock(w) \/ Inner(w) \/ Post(w) \/ Unlock(w) \/ GetReserve(w)
  \/ \E z \in Pizzas : PutReserve(w, z)

Next == \E w \in Workers : Step(w)

Spec == Init /\ [][Next]_vars

-----------------------------------------------------------------------------

Inside == At({"put", "store", "stored", "get", "remove", "removed", "unlock"})

\* Every semaphore, field and register has its type: usage stays in 0..Size and the
\* heads inside arr.
TypeOK ==
  /\ sem \in [lock : 0 .. 1, used : 0 .. Size, free : 0 .. Size]
  /\ RingType
  /\ loc \in [Workers -> [at : {"out", "reserved", "put", "store", "stored",
                                "wanted", "get", "remove", "removed", "unlock"},
                          pizza : Pizzas \cup {NoPizza}, head : Slots, usage : 0 .. Size]]

\* "exclusive access is acquired" (furnace.c:15, 46): between the wait for lock_sem
\* and its post nobody else is there.
LockExcludes ==
  /\ \A v, w \in Inside : v = w
  /\ sem.lock = 0 <=> Inside # {}

\* "a free slot is guaranteed to be reserved" (furnace.c:14), "One element has been
\* reserved for reading" (furnace.c:45): a slot of the ring is free, holds a pizza
\* nobody has claimed, or belongs to one call in progress, although reserving and
\* locking are two steps between which any number of others may reserve too.
SlotsReserved ==
  /\ ring.usage = sem.used + Cardinality(At({"wanted", "get", "remove"}))
                           + Cardinality(At({"stored"}))
  /\ Size - ring.usage = sem.free + Cardinality(At({"reserved", "put", "store"}))
                                  + Cardinality(At({"removed"}))
=============================================================================
