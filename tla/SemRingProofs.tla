--------------------------- MODULE SemRingProofs ---------------------------
(***************************************************************************)
(* SemRing is a bounded first-in first-out queue for any number of workers,*)
(* any pizzas and any size.                                                *)
(*                                                                         *)
(* IInv adds two parts to the invariants TLC checks: the two heads are     *)
(* usage slots apart, and the registers of the worker inside are still     *)
(* what is in memory.  The latter is what the lock is for.                 *)
(*                                                                         *)
(* The first lemmas are about the memory of the ring alone, which put and  *)
(* get use alike whichever semaphores guard it: as long as the registers of*)
(* the worker that stores are still what is in memory, put appends and get *)
(* takes the oldest.                                                       *)
(***************************************************************************)
EXTENDS SemRing, SequenceTheorems, TLAPS

\* The two heads are usage slots apart.
HeadsApart == ring.write_head = Slot(ring.usage)

\* What a worker read is still what is in memory.
Registers ==
  \A w \in Workers :
    /\ loc[w].at \in {"reserved", "put", "store"} => loc[w].pizza \in Pizzas
    /\ loc[w].at = "store" => loc[w].head = ring.write_head /\ loc[w].usage = ring.usage
    /\ loc[w].at = "remove" => /\ loc[w].head = ring.read_head /\ loc[w].usage = ring.usage
                               /\ loc[w].pizza = ring.arr[ring.read_head]

\* (head + 1) % SIZE moves a head to the next slot, back to the first after the last.
LEMMA NextSlot ==
  ASSUME NEW h \in Slots
  PROVE  /\ (h + 1) % Size \in Slots
         /\ (h + 1) % Size = IF h + 1 = Size THEN 0 ELSE h + 1
  BY SizeAssumption DEF Slots

\* The contents read through the heads form a sequence of usage pizzas.
LEMMA ContentsSeq ==
  RingType => Contents \in Seq(Pizzas \cup {NoPizza}) /\ Len(Contents) = ring.usage
<1> USE SizeAssumption
<1> HAVE RingType
<1>1. ring.usage \in Nat BY DEF RingType
<1>2. \A i \in 1 .. ring.usage : Slot(i - 1) \in Slots BY DEF RingType, Slot, Slots
<1>3. \A i \in 1 .. ring.usage : ring.arr[Slot(i - 1)] \in Pizzas \cup {NoPizza}
  BY <1>2 DEF RingType
<1>4. Contents \in [1 .. ring.usage -> Pizzas \cup {NoPizza}] BY <1>3 DEF Contents
<1>5. Contents \in Seq(Pizzas \cup {NoPizza}) BY <1>1, <1>4
<1>6. Len(Contents) = ring.usage BY <1>1, <1>4, <1>5
<1> QED BY <1>5, <1>6

\* A put writes the slot behind the last pizza and disturbs none of the others.
LEMMA PutAppends ==
  ASSUME RingType, HeadsApart, Registers, ring.usage < Size, NEW w \in Workers, PutStore(w)
  PROVE  /\ RingType' /\ HeadsApart'
         /\ ring'.usage = ring.usage + 1
         /\ Contents' = Append(Contents, loc[w].pizza)
<1> USE SizeAssumption
<1>1. loc[w].head = ring.write_head /\ loc[w].usage = ring.usage /\ loc[w].pizza \in Pizzas
  BY DEF PutStore, Registers
<1>2. /\ ring.usage \in 0 .. Size /\ ring.usage + 1 \in 0 .. Size
      /\ ring.read_head \in 0 .. Size - 1 /\ ring.write_head \in 0 .. Size - 1
      /\ ring.arr \in [Slots -> Pizzas \cup {NoPizza}]
  BY DEF RingType, Slots
<1>3. RingType' BY <1>1, <1>2, NextSlot DEF RingType, PutStore, Slots
<1>4. /\ ring'.usage = ring.usage + 1 /\ ring'.read_head = ring.read_head
      /\ ring'.write_head = (ring.write_head + 1) % Size
      /\ ring'.arr = [ring.arr EXCEPT ![Slot(ring.usage)] = loc[w].pizza]
  BY <1>1 DEF PutStore, RingType, HeadsApart
<1>5. HeadsApart'
  <2>1. ring'.write_head = IF ring.write_head + 1 = Size THEN 0 ELSE ring.write_head + 1
    BY <1>2, <1>4, NextSlot DEF Slots
  <2> QED BY <1>2, <1>4, <2>1 DEF HeadsApart, Slot
<1>6. \A i \in 0 .. ring.usage : Slot(i)' = Slot(i) BY <1>4 DEF Slot
<1>7. \A i \in 0 .. ring.usage : Slot(i) \in Slots BY <1>2 DEF Slot, Slots
<1>8. \A i \in 0 .. ring.usage - 1 : Slot(i) # Slot(ring.usage) BY <1>2 DEF Slot
<1>9. \A i \in 1 .. ring.usage : Contents'[i] = Contents[i]
  <2> SUFFICES ASSUME NEW i \in 1 .. ring.usage PROVE Contents'[i] = Contents[i]
    OBVIOUS
  <2>1. i - 1 \in 0 .. ring.usage - 1 /\ i - 1 \in 0 .. ring.usage BY <1>2
  <2>2. Contents'[i] = ring'.arr[Slot(i - 1)'] BY <1>2, <1>4 DEF Contents
  <2>3. Contents[i] = ring.arr[Slot(i - 1)] BY DEF Contents
  <2> QED BY <1>2, <1>4, <1>6, <1>7, <1>8, <2>1, <2>2, <2>3
<1>10. Contents'[ring.usage + 1] = loc[w].pizza BY <1>2, <1>4, <1>6, <1>7 DEF Contents
<1>11. Contents' \in Seq(Pizzas \cup {NoPizza}) /\ Len(Contents') = ring.usage + 1
  <2>1. (RingType => Contents \in Seq(Pizzas \cup {NoPizza}) /\ Len(Contents) = ring.usage)'
    BY ContentsSeq, PTL
  <2> QED BY <1>3, <1>4, <2>1
<1>12. Contents' = Append(Contents, loc[w].pizza)
  BY <1>2, <1>9, <1>10, <1>11, ContentsSeq
<1> QED BY <1>3, <1>4, <1>5, <1>12

\* A get takes the oldest pizza and leaves the others in their order.
LEMMA GetTakesOldest ==
  ASSUME RingType, HeadsApart, Registers, ring.usage > 0, NEW w \in Workers, GetStore(w)
  PROVE  /\ RingType' /\ HeadsApart'
         /\ ring'.usage = ring.usage - 1
         /\ Contents # <<>> /\ Head(Contents) = loc[w].pizza
         /\ Contents' = Tail(Contents)
<1> USE SizeAssumption
<1>1. /\ loc[w].head = ring.read_head /\ loc[w].usage = ring.usage
      /\ loc[w].pizza = ring.arr[ring.read_head]
  BY DEF GetStore, Registers
<1>2. /\ ring.usage \in 0 .. Size /\ ring.usage - 1 \in 0 .. Size
      /\ ring.read_head \in 0 .. Size - 1 /\ ring.write_head \in 0 .. Size - 1
  BY DEF RingType, Slots
<1>3. RingType' BY <1>1, <1>2, NextSlot DEF RingType, GetStore, Slots
<1>4. /\ ring'.usage = ring.usage - 1 /\ ring'.write_head = ring.write_head
      /\ ring'.read_head = (ring.read_head + 1) % Size /\ ring'.arr = ring.arr
  BY <1>1 DEF GetStore, RingType
<1>5. ring'.read_head = IF ring.read_head + 1 = Size THEN 0 ELSE ring.read_head + 1
  BY <1>2, <1>4, NextSlot DEF Slots
<1>6. HeadsApart' BY <1>2, <1>4, <1>5 DEF HeadsApart, Slot
<1>7. \A i \in 0 .. ring.usage - 2 : Slot(i)' = Slot(i + 1) BY <1>2, <1>5 DEF Slot
<1>8. Contents \in Seq(Pizzas \cup {NoPizza}) /\ Len(Contents) = ring.usage BY ContentsSeq
<1>9. Contents' \in Seq(Pizzas \cup {NoPizza}) /\ Len(Contents') = ring.usage - 1
  <2>1. (RingType => Contents \in Seq(Pizzas \cup {NoPizza}) /\ Len(Contents) = ring.usage)'
    BY ContentsSeq, PTL
  <2> QED BY <1>3, <1>4, <2>1
<1>10. Contents # <<>> /\ Head(Contents) = loc[w].pizza
  <2>1. Contents[1] = ring.arr[Slot(0)] BY <1>2 DEF Contents
  <2>2. Slot(0) = ring.read_head BY <1>2 DEF Slot
  <2> QED BY <1>1, <1>2, <1>8, <2>1, <2>2
<1>11. \A i \in 1 .. ring.usage - 1 : Contents'[i] = Contents[i + 1]
  <2> SUFFICES ASSUME NEW i \in 1 .. ring.usage - 1 PROVE Contents'[i] = Contents[i + 1]
    OBVIOUS
  <2>1. Contents'[i] = ring'.arr[Slot(i - 1)'] BY <1>2, <1>4 DEF Contents
  <2>2. Contents[i + 1] = ring.arr[Slot(i)] BY <1>2 DEF Contents
  <2>3. Slot(i - 1)' = Slot(i) BY <1>2, <1>7
  <2> QED BY <1>4, <2>1, <2>2, <2>3
<1>12. Contents' = Tail(Contents) BY <1>2, <1>8, <1>9, <1>10, <1>11
<1> QED BY <1>3, <1>4, <1>6, <1>10, <1>12

-----------------------------------------------------------------------------
(* How the calls of the abstract queue follow the workers.                 *)

\* A worker that moves on changes its own call only.
LEMMA CallMoves ==
  ASSUME NEW S, loc \in [Workers -> S], NEW w \in Workers, NEW f, Goto(w, f)
  PROVE  /\ Calls[w] = CallOf(loc[w])
         /\ Calls' = [Calls EXCEPT ![w] = CallOf(f)]
<1>1. \A v \in Workers : loc'[v] = IF v = w THEN f ELSE loc[v] BY DEF Goto
<1>2. Calls = [v \in Workers |-> CallOf(loc[v])] BY DEF Calls
<1>3. Calls' = [v \in Workers |-> CallOf(loc'[v])] BY DEF Calls
<1>4. \A v \in Workers : CallOf(loc'[v]) = IF v = w THEN CallOf(f) ELSE CallOf(loc[v])
  BY <1>1
<1> QED BY <1>2, <1>3, <1>4

\* The call each frame stands for.
LEMMA CallsOfFrames ==
  ASSUME NEW z, NEW h, NEW n
  PROVE  /\ \A l \in {"reserved", "put", "store"} : CallOf(Frame(l, z, h, n)) = Fifo!Putting(z)
         /\ \A l \in {"wanted", "get", "remove"} : CallOf(Frame(l, z, h, n)) = Fifo!Getting
         /\ \A l \in {"stored", "removed", "unlock"} :
              CallOf(Frame(l, z, h, n)) = Fifo!Returning(z, n)
         /\ CallOf(Frame("out", z, h, n)) = Fifo!Idle
         /\ Fifo!Returning(z, n).op = "return"
BY DEF CallOf, Frame, Fifo!Putting, Fifo!Getting, Fifo!Returning, Fifo!Idle

-----------------------------------------------------------------------------
(* The steps.                                                              *)

IInv == TypeOK /\ LockExcludes /\ SemaphoresCount /\ HeadsApart /\ Registers

LEMMA InitIInv == Init => IInv
  BY SizeAssumption DEF Init, InitSem, InitRing, Outside, Frame, IInv, TypeOK, RingType,
     LockExcludes, SemaphoresCount, HeadsApart, Registers, Slots, Slot, Inside, At

\* While the lock is down only its holder is inside, so a step of the holder
\* disturbs nobody's registers.
LEMMA AloneInside ==
  ASSUME IInv, NEW w \in Workers, loc[w].at # "out"
  PROVE  \A v \in Workers : v # w => loc[v].at = "out"
BY DEF IInv, LockExcludes, Inside

LEMMA PutEnterStep ==
  ASSUME IInv, NEW w \in Workers, NEW z \in Pizzas, PutEnter(w, z)
  PROVE  IInv'
<1> USE SizeAssumption DEF Goto
<1>1. TypeOK'
  <2>1. /\ removed' = FALSE
        /\ sem' \in [lock : 0 .. 1, used : 0 .. Size, free : 0 .. Size]
    BY DEF IInv, TypeOK, Semop, SemaphoresCount, PutEnter
  <2>2. RingType'
    BY DEF IInv, TypeOK, RingType, PutEnter
  <2>3. loc' \in [Workers -> [at : {"out", "put", "store", "stored", "get", "remove", "removed"},
                               pizza : Pizzas \cup {NoPizza}, head : Slots, usage : 0 .. Size]]
    BY DEF IInv, TypeOK, RingType, Slots, Outside, Frame, PutEnter
  <2> QED BY <2>1, <2>2, <2>3 DEF TypeOK
<1>2. /\ loc'[w].at = "put"
      /\ \A v \in Workers : v # w => loc'[v].at = "out"
  BY AloneInside DEF IInv, TypeOK, LockExcludes, Inside, Outside, Frame, Semop, PutEnter
<1>3. LockExcludes'
  BY <1>2 DEF IInv, TypeOK, LockExcludes, Inside, Semop, PutEnter
<1>4. SemaphoresCount'
  BY <1>2 DEF IInv, TypeOK, SemaphoresCount, At, Semop, PutEnter
<1>5. HeadsApart'
  BY DEF IInv, HeadsApart, Slot, PutEnter
<1>6. Registers'
  BY AloneInside DEF IInv, TypeOK, Outside, Frame, Registers, LockExcludes, Inside, Semop, PutEnter
<1> QED BY <1>1, <1>3, <1>4, <1>5, <1>6 DEF IInv

LEMMA PutLoadStep ==
  ASSUME IInv, NEW w \in Workers, PutLoad(w), Inner(w)
  PROVE  IInv'
<1> USE SizeAssumption DEF Goto
<1>1. TypeOK'
  <2>1. /\ removed' = FALSE
        /\ sem' \in [lock : 0 .. 1, used : 0 .. Size, free : 0 .. Size]
    BY DEF IInv, TypeOK, PutLoad, Inner
  <2>2. RingType'
    BY DEF IInv, TypeOK, RingType, PutLoad
  <2>3. loc' \in [Workers -> [at : {"out", "put", "store", "stored", "get", "remove", "removed"},
                               pizza : Pizzas \cup {NoPizza}, head : Slots, usage : 0 .. Size]]
    BY DEF IInv, TypeOK, RingType, Slots, Outside, Frame, PutLoad
  <2> QED BY <2>1, <2>2, <2>3 DEF TypeOK
<1>2. /\ loc'[w].at = "store"
      /\ \A v \in Workers : v # w => loc'[v].at = "out"
  BY AloneInside DEF IInv, TypeOK, LockExcludes, Inside, Outside, Frame, PutLoad
<1>3. LockExcludes'
  BY <1>2 DEF IInv, TypeOK, LockExcludes, Inside, PutLoad, Inner
<1>4. SemaphoresCount'
  BY <1>2 DEF IInv, TypeOK, SemaphoresCount, At, PutLoad, Inner
<1>5. HeadsApart'
  BY DEF IInv, HeadsApart, Slot, PutLoad
<1>6. Registers'
  BY AloneInside DEF IInv, TypeOK, Outside, Frame, Registers, LockExcludes, Inside, PutLoad
<1> QED BY <1>1, <1>3, <1>4, <1>5, <1>6 DEF IInv

LEMMA PutStoreStep ==
  ASSUME IInv, NEW w \in Workers, PutStore(w), Inner(w)
  PROVE  IInv'
<1> USE SizeAssumption DEF Goto
<1>0. RingType' /\ HeadsApart' /\ ring'.usage = ring.usage + 1 /\ loc[w].usage = ring.usage
      /\ ring.usage \in 0 .. Size /\ ring.usage + 1 \in 0 .. Size
  <2>1. ring.usage < Size /\ ring.usage \in 0 .. Size /\ loc[w].usage = ring.usage
    BY DEF IInv, TypeOK, RingType, Registers, SemaphoresCount, At, PutStore
  <2> QED BY <2>1, PutAppends DEF IInv, TypeOK
<1>1. TypeOK'
  <2>1. /\ removed' = FALSE
        /\ sem' \in [lock : 0 .. 1, used : 0 .. Size, free : 0 .. Size]
    BY DEF IInv, TypeOK, PutStore, Inner
  <2>2. RingType'
    BY <1>0
  <2>3. loc' \in [Workers -> [at : {"out", "put", "store", "stored", "get", "remove", "removed"},
                               pizza : Pizzas \cup {NoPizza}, head : Slots, usage : 0 .. Size]]
    BY <1>0 DEF IInv, TypeOK, RingType, Slots, Outside, Frame, PutStore
  <2> QED BY <2>1, <2>2, <2>3 DEF TypeOK
<1>2. /\ loc'[w].at = "stored"
      /\ \A v \in Workers : v # w => loc'[v].at = "out"
  BY AloneInside DEF IInv, TypeOK, LockExcludes, Inside, Outside, Frame, PutStore
<1>3. LockExcludes'
  BY <1>2 DEF IInv, TypeOK, LockExcludes, Inside, PutStore, Inner
<1>4. SemaphoresCount'
  BY <1>0, <1>2 DEF IInv, TypeOK, SemaphoresCount, At, PutStore, Inner
<1>5. HeadsApart'
  BY <1>0
<1>6. Registers'
  BY AloneInside DEF IInv, TypeOK, Outside, Frame, Registers, LockExcludes, Inside, PutStore
<1> QED BY <1>1, <1>3, <1>4, <1>5, <1>6 DEF IInv

LEMMA GetEnterStep ==
  ASSUME IInv, NEW w \in Workers, GetEnter(w)
  PROVE  IInv'
<1> USE SizeAssumption DEF Goto
<1>1. TypeOK'
  <2>1. /\ removed' = FALSE
        /\ sem' \in [lock : 0 .. 1, used : 0 .. Size, free : 0 .. Size]
    BY DEF IInv, TypeOK, Semop, SemaphoresCount, GetEnter
  <2>2. RingType'
    BY DEF IInv, TypeOK, RingType, GetEnter
  <2>3. loc' \in [Workers -> [at : {"out", "put", "store", "stored", "get", "remove", "removed"},
                               pizza : Pizzas \cup {NoPizza}, head : Slots, usage : 0 .. Size]]
    BY DEF IInv, TypeOK, RingType, Slots, Outside, Frame, GetEnter
  <2> QED BY <2>1, <2>2, <2>3 DEF TypeOK
<1>2. /\ loc'[w].at = "get"
      /\ \A v \in Workers : v # w => loc'[v].at = "out"
  BY AloneInside DEF IInv, TypeOK, LockExcludes, Inside, Outside, Frame, Semop, GetEnter
<1>3. LockExcludes'
  BY <1>2 DEF IInv, TypeOK, LockExcludes, Inside, Semop, GetEnter
<1>4. SemaphoresCount'
  BY <1>2 DEF IInv, TypeOK, SemaphoresCount, At, Semop, GetEnter
<1>5. HeadsApart'
  BY DEF IInv, HeadsApart, Slot, GetEnter
<1>6. Registers'
  BY AloneInside DEF IInv, TypeOK, Outside, Frame, Registers, LockExcludes, Inside, Semop, GetEnter
<1> QED BY <1>1, <1>3, <1>4, <1>5, <1>6 DEF IInv

LEMMA GetLoadStep ==
  ASSUME IInv, NEW w \in Workers, GetLoad(w), Inner(w)
  PROVE  IInv'
<1> USE SizeAssumption DEF Goto
<1>1. TypeOK'
  <2>1. /\ removed' = FALSE
        /\ sem' \in [lock : 0 .. 1, used : 0 .. Size, free : 0 .. Size]
    BY DEF IInv, TypeOK, GetLoad, Inner
  <2>2. RingType'
    BY DEF IInv, TypeOK, RingType, GetLoad
  <2>3. loc' \in [Workers -> [at : {"out", "put", "store", "stored", "get", "remove", "removed"},
                               pizza : Pizzas \cup {NoPizza}, head : Slots, usage : 0 .. Size]]
    BY DEF IInv, TypeOK, RingType, Slots, Outside, Frame, GetLoad
  <2> QED BY <2>1, <2>2, <2>3 DEF TypeOK
<1>2. /\ loc'[w].at = "remove"
      /\ \A v \in Workers : v # w => loc'[v].at = "out"
  BY AloneInside DEF IInv, TypeOK, LockExcludes, Inside, Outside, Frame, GetLoad
<1>3. LockExcludes'
  BY <1>2 DEF IInv, TypeOK, LockExcludes, Inside, GetLoad, Inner
<1>4. SemaphoresCount'
  BY <1>2 DEF IInv, TypeOK, SemaphoresCount, At, GetLoad, Inner
<1>5. HeadsApart'
  BY DEF IInv, HeadsApart, Slot, GetLoad
<1>6. Registers'
  BY AloneInside DEF IInv, TypeOK, Outside, Frame, Registers, LockExcludes, Inside, GetLoad
<1> QED BY <1>1, <1>3, <1>4, <1>5, <1>6 DEF IInv

LEMMA GetStoreStep ==
  ASSUME IInv, NEW w \in Workers, GetStore(w), Inner(w)
  PROVE  IInv'
<1> USE SizeAssumption DEF Goto
<1>0. RingType' /\ HeadsApart' /\ ring'.usage = ring.usage - 1 /\ loc[w].usage = ring.usage
      /\ ring.usage \in 0 .. Size /\ ring.usage - 1 \in 0 .. Size
  <2>1. ring.usage > 0 /\ ring.usage \in 0 .. Size /\ loc[w].usage = ring.usage
    BY DEF IInv, TypeOK, RingType, Registers, SemaphoresCount, At, GetStore
  <2> QED BY <2>1, GetTakesOldest DEF IInv, TypeOK
<1>1. TypeOK'
  <2>1. /\ removed' = FALSE
        /\ sem' \in [lock : 0 .. 1, used : 0 .. Size, free : 0 .. Size]
    BY DEF IInv, TypeOK, GetStore, Inner
  <2>2. RingType'
    BY <1>0
  <2>3. loc' \in [Workers -> [at : {"out", "put", "store", "stored", "get", "remove", "removed"},
                               pizza : Pizzas \cup {NoPizza}, head : Slots, usage : 0 .. Size]]
    BY <1>0 DEF IInv, TypeOK, RingType, Slots, Outside, Frame, GetStore
  <2> QED BY <2>1, <2>2, <2>3 DEF TypeOK
<1>2. /\ loc'[w].at = "removed"
      /\ \A v \in Workers : v # w => loc'[v].at = "out"
  BY AloneInside DEF IInv, TypeOK, LockExcludes, Inside, Outside, Frame, GetStore
<1>3. LockExcludes'
  BY <1>2 DEF IInv, TypeOK, LockExcludes, Inside, GetStore, Inner
<1>4. SemaphoresCount'
  BY <1>0, <1>2 DEF IInv, TypeOK, SemaphoresCount, At, GetStore, Inner
<1>5. HeadsApart'
  BY <1>0
<1>6. Registers'
  BY AloneInside DEF IInv, TypeOK, Outside, Frame, Registers, LockExcludes, Inside, GetStore
<1> QED BY <1>1, <1>3, <1>4, <1>5, <1>6 DEF IInv

LEMMA UnlockStep ==
  ASSUME IInv, NEW w \in Workers, Unlock(w)
  PROVE  IInv'
<1> USE SizeAssumption DEF Goto
<1>1. TypeOK'
  <2>1. /\ removed' = FALSE
        /\ sem' \in [lock : 0 .. 1, used : 0 .. Size, free : 0 .. Size]
    BY DEF IInv, TypeOK, Semop, LockExcludes, Inside, Unlock
  <2>2. RingType'
    BY DEF IInv, TypeOK, RingType, Unlock
  <2>3. loc' \in [Workers -> [at : {"out", "put", "store", "stored", "get", "remove", "removed"},
                               pizza : Pizzas \cup {NoPizza}, head : Slots, usage : 0 .. Size]]
    BY DEF IInv, TypeOK, RingType, Slots, Outside, Frame, Unlock
  <2> QED BY <2>1, <2>2, <2>3 DEF TypeOK
<1>2. /\ loc'[w].at = "out"
      /\ \A v \in Workers : v # w => loc'[v].at = "out"
  BY AloneInside DEF IInv, TypeOK, LockExcludes, Inside, Outside, Frame, Semop, Unlock
<1>3. LockExcludes'
  BY <1>2 DEF IInv, TypeOK, LockExcludes, Inside, Semop, Unlock
<1>4. SemaphoresCount'
  BY <1>2 DEF IInv, TypeOK, SemaphoresCount, At, Semop, Unlock
<1>5. HeadsApart'
  BY DEF IInv, HeadsApart, Slot, Unlock
<1>6. Registers'
  BY AloneInside DEF IInv, TypeOK, Outside, Frame, Registers, LockExcludes, Inside, Semop, Unlock
<1> QED BY <1>1, <1>3, <1>4, <1>5, <1>6 DEF IInv

LEMMA NextIInv == IInv /\ [Next]_vars => IInv'
<1> SUFFICES ASSUME IInv, [Next]_vars PROVE IInv'
  OBVIOUS
<1>1. CASE UNCHANGED vars
  BY <1>1 DEF vars, IInv, TypeOK, RingType, LockExcludes, SemaphoresCount, HeadsApart, Registers,
     Slot, Inside, At
<1>2. ASSUME NEW w \in Workers, NEW z \in Pizzas, PutEnter(w, z) PROVE IInv'
  BY <1>2, PutEnterStep
<1>3. ASSUME NEW w \in Workers, Inner(w) \/ Unlock(w) \/ GetEnter(w) PROVE IInv'
  BY <1>3, PutLoadStep, PutStoreStep, GetLoadStep, GetStoreStep, GetEnterStep, UnlockStep
     DEF Inner, Access
<1> QED BY <1>1, <1>2, <1>3 DEF Next

\* The invariant of the workers and their ring.
THEOREM Invariant == Spec => []IInv
BY InitIInv, NextIInv, PTL DEF Spec

\* Types: usage stays in 0..Size, the heads stay inside arr, for any number of workers.
THEOREM TypeCorrect == Spec => []TypeOK
BY Invariant, PTL DEF IInv

\* The lock of furnace.c excludes: no two workers are inside at once.
THEOREM LockIsExclusive == Spec => []LockExcludes
BY Invariant, PTL DEF IInv

\* The semaphores agree with the ring, whoever is inside.
THEOREM SemaphoresAgree == Spec => []SemaphoresCount
BY Invariant, PTL DEF IInv

-----------------------------------------------------------------------------
(* What the pizzeria sees of the ring.                                     *)

Spots == {"out", "put", "store", "stored", "get", "remove", "removed"}

\* A worker inside moves on; its stores put a pizza behind the others or take the first.
LEMMA InnerEffect ==
  ASSUME IInv, NEW w \in Workers, Inner(w)
  PROVE  /\ Contents \in Seq(Pizzas \cup {NoPizza})
         /\ \A v \in Workers : v # w => loc'[v] = loc[v]
         /\ \/ /\ loc[w].at = "put" /\ loc'[w].at = "store" /\ loc'[w].pizza = loc[w].pizza
               /\ Contents' = Contents /\ ring'.usage = ring.usage
            \/ /\ loc[w].at = "get" /\ loc'[w].at = "remove"
               /\ Contents' = Contents /\ ring'.usage = ring.usage
            \/ /\ loc[w].at = "store" /\ loc'[w].at = "stored" /\ loc[w].pizza \in Pizzas
               /\ Contents' = Append(Contents, loc[w].pizza) /\ ring'.usage = ring.usage + 1
            \/ /\ loc[w].at = "remove" /\ loc'[w].at = "removed"
               /\ Contents # <<>> /\ loc'[w].pizza = Head(Contents)
               /\ Contents' = Tail(Contents) /\ ring'.usage = ring.usage - 1
<1>1. Contents \in Seq(Pizzas \cup {NoPizza}) BY ContentsSeq DEF IInv, TypeOK
<1>2. \A v \in Workers : v # w => loc'[v] = loc[v]
  BY DEF IInv, TypeOK, Inner, Access, PutLoad, PutStore, GetLoad, GetStore, Goto
<1>3. CASE PutLoad(w)
  <2>1. loc[w].at = "put" /\ loc'[w].at = "store" /\ loc'[w].pizza = loc[w].pizza
    BY <1>3 DEF IInv, TypeOK, PutLoad, Goto, Frame
  <2>2. Contents' = Contents /\ ring'.usage = ring.usage BY <1>3 DEF PutLoad, Contents, Slot
  <2> QED BY <1>1, <1>2, <2>1, <2>2
<1>4. CASE GetLoad(w)
  <2>1. loc[w].at = "get" /\ loc'[w].at = "remove" BY <1>4 DEF IInv, TypeOK, GetLoad, Goto, Frame
  <2>2. Contents' = Contents /\ ring'.usage = ring.usage BY <1>4 DEF GetLoad, Contents, Slot
  <2> QED BY <1>1, <1>2, <2>1, <2>2
<1>5. CASE PutStore(w)
  <2>1. ring.usage < Size /\ loc[w].pizza \in Pizzas /\ loc[w].at = "store"
    BY <1>5, SizeAssumption DEF IInv, TypeOK, RingType, Registers, SemaphoresCount, At, PutStore
  <2>2. Contents' = Append(Contents, loc[w].pizza) /\ ring'.usage = ring.usage + 1
    BY <1>5, <2>1, PutAppends DEF IInv, TypeOK
  <2>3. loc'[w].at = "stored" BY <1>5 DEF IInv, TypeOK, PutStore, Goto, Frame
  <2> QED BY <1>1, <1>2, <2>1, <2>2, <2>3
<1>6. CASE GetStore(w)
  <2>1. ring.usage > 0 /\ loc[w].at = "remove"
    BY <1>6, SizeAssumption DEF IInv, TypeOK, RingType, Registers, SemaphoresCount, At, GetStore
  <2>2. /\ Contents # <<>> /\ Head(Contents) = loc[w].pizza /\ Contents' = Tail(Contents)
        /\ ring'.usage = ring.usage - 1
    BY <1>6, <2>1, GetTakesOldest DEF IInv, TypeOK
  <2>3. loc'[w].at = "removed" /\ loc'[w].pizza = loc[w].pizza
    BY <1>6 DEF IInv, TypeOK, GetStore, Goto, Frame
  <2> QED BY <1>1, <1>2, <2>1, <2>2, <2>3
<1> QED BY <1>3, <1>4, <1>5, <1>6 DEF Inner, Access

\* Entering and leaving moves the worker and leaves the pizzas where they are.
LEMMA BorderEffect ==
  ASSUME NEW S, loc \in [Workers -> S], NEW w \in Workers, NEW z
  PROVE  /\ PutEnter(w, z) => loc[w].at = "out" /\ loc'[w].at = "put" /\ loc'[w].pizza = z
         /\ GetEnter(w) => loc[w].at = "out" /\ loc'[w].at = "get"
         /\ Unlock(w) => loc[w].at \in {"stored", "removed"} /\ loc'[w].at = "out"
         /\ PutEnter(w, z) \/ GetEnter(w) \/ Unlock(w) =>
              /\ \A v \in Workers : v # w => loc'[v] = loc[v]
              /\ UNCHANGED <<removed, ring, Contents>>
<1>1. PutEnter(w, z) \/ GetEnter(w) \/ Unlock(w) => UNCHANGED <<removed, ring, Contents>>
  BY DEF PutEnter, GetEnter, Unlock, Contents, Slot
<1> QED BY <1>1 DEF PutEnter, GetEnter, Unlock, Goto, Frame, Outside

(* Once the semaphores are gone two workers may be inside, and usage is any number; *)
(* what they take is still a pizza, or an empty slot.                               *)
Wide ==
  /\ ring \in [arr : [Slots -> Pizzas \cup {NoPizza}], read_head : Slots, write_head : Slots, usage : Int]
  /\ loc \in [Workers -> [at : Spots, pizza : Pizzas \cup {NoPizza}, head : Slots, usage : Int]]

LEMMA WideKept ==
  ASSUME Wide, NEW w \in Workers, NEW z \in Pizzas \cup {NoPizza},
         PutEnter(w, z) \/ GetEnter(w) \/ Unlock(w) \/ Inner(w)
  PROVE  Wide'
<1> USE DEF Goto, Spots
<1>0. 0 \in Slots BY SizeAssumption DEF Slots
<1>1. CASE PutEnter(w, z) \/ GetEnter(w) \/ Unlock(w)
  BY <1>0, <1>1 DEF Wide, PutEnter, GetEnter, Unlock, Frame, Outside
<1>2. CASE PutLoad(w) BY <1>2 DEF Wide, PutLoad, Frame
<1>3. CASE GetLoad(w) BY <1>3 DEF Wide, GetLoad, Frame
<1>4. CASE PutStore(w)
  <2>1. (loc[w].head + 1) % Size \in Slots BY NextSlot DEF Wide
  <2>2. ring' \in [arr : [Slots -> Pizzas \cup {NoPizza}], read_head : Slots, write_head : Slots, usage : Int]
    <3>1. /\ loc[w].head \in Slots /\ loc[w].pizza \in Pizzas \cup {NoPizza} /\ loc[w].usage + 1 \in Int
          /\ ring.arr \in [Slots -> Pizzas \cup {NoPizza}]
      BY DEF Wide
    <3>2. [ring.arr EXCEPT ![loc[w].head] = loc[w].pizza] \in [Slots -> Pizzas \cup {NoPizza}] BY <3>1
    <3> QED BY <1>4, <2>1, <3>1, <3>2 DEF Wide, PutStore
  <2>3. loc' \in [Workers -> [at : Spots, pizza : Pizzas \cup {NoPizza}, head : Slots, usage : Int]]
    BY <1>0, <1>4 DEF Wide, PutStore, Frame
  <2> QED BY <2>2, <2>3 DEF Wide
<1>5. CASE GetStore(w)
  <2>1. (loc[w].head + 1) % Size \in Slots BY NextSlot DEF Wide
  <2>2. ring' \in [arr : [Slots -> Pizzas \cup {NoPizza}], read_head : Slots, write_head : Slots, usage : Int]
    <3>1. loc[w].usage - 1 \in Int BY DEF Wide
    <3> QED BY <1>5, <2>1, <3>1 DEF Wide, GetStore
  <2>3. loc' \in [Workers -> [at : Spots, pizza : Pizzas \cup {NoPizza}, head : Slots, usage : Int]]
    BY <1>0, <1>5 DEF Wide, GetStore, Frame
  <2> QED BY <2>2, <2>3 DEF Wide
<1> QED BY <1>1, <1>2, <1>3, <1>4, <1>5 DEF Inner, Access

-----------------------------------------------------------------------------
(* The refinement: a store is the abstract Put or Get, entering is Begin,  *)
(* the unlock is Return, and the loads are stutters.                       *)

\* A worker's frame is one of those CallsOfFrames speaks of.
LEMMA FrameOf ==
  ASSUME TypeOK, NEW w \in Workers
  PROVE  loc[w] = Frame(loc[w].at, loc[w].pizza, loc[w].head, loc[w].usage)
BY DEF TypeOK, Frame

LEMMA InitRefines == Init => Fifo!Init
BY DEF Init, InitRing, Outside, Frame, Fifo!Init, Fifo!Idle, Contents, Calls, CallOf

LEMMA StepRefines == IInv /\ [Next]_vars => [Fifo!Next]_<<Contents, Calls>>
<1> SUFFICES ASSUME IInv, [Next]_vars PROVE [Fifo!Next]_<<Contents, Calls>>
  OBVIOUS
<1>0. TypeOK BY DEF IInv
<1>1. CASE UNCHANGED vars
  BY <1>1 DEF vars, Contents, Slot, Calls
<1>2. ASSUME NEW w \in Workers, NEW z \in Pizzas, PutEnter(w, z) PROVE Fifo!Begin(w)
  <2>1. Calls[w] = Fifo!Idle /\ Calls' = [Calls EXCEPT ![w] = Fifo!Putting(z)]
    <3>1. CallOf(loc[w]) = Fifo!Idle
      BY <1>0, <1>2, FrameOf, CallsOfFrames DEF PutEnter
    <3>2. Goto(w, Frame("put", z, 0, 0))
      BY <1>2 DEF PutEnter
    <3>3. CallOf(Frame("put", z, 0, 0)) = Fifo!Putting(z)
      BY CallsOfFrames
    <3> QED BY <1>0, <3>1, <3>2, <3>3, CallMoves DEF TypeOK
  <2>2. UNCHANGED Contents BY <1>2 DEF PutEnter, Contents, Slot
  <2> QED BY <2>1, <2>2 DEF Fifo!Begin
<1>3. ASSUME NEW w \in Workers, GetEnter(w) PROVE Fifo!Begin(w)
  <2>1. Calls[w] = Fifo!Idle /\ Calls' = [Calls EXCEPT ![w] = Fifo!Getting]
    <3>1. CallOf(loc[w]) = Fifo!Idle
      BY <1>0, <1>3, FrameOf, CallsOfFrames DEF GetEnter
    <3>2. Goto(w, Frame("get", NoPizza, 0, 0))
      BY <1>3 DEF GetEnter
    <3>3. CallOf(Frame("get", NoPizza, 0, 0)) = Fifo!Getting
      BY CallsOfFrames
    <3> QED BY <1>0, <3>1, <3>2, <3>3, CallMoves DEF TypeOK
  <2>2. UNCHANGED Contents BY <1>3 DEF GetEnter, Contents, Slot
  <2> QED BY <2>1, <2>2 DEF Fifo!Begin
<1>4. ASSUME NEW w \in Workers, PutLoad(w) \/ GetLoad(w) PROVE UNCHANGED <<Contents, Calls>>
  <2>1. PICK f : Goto(w, f) /\ CallOf(f) = CallOf(loc[w])
    BY <1>0, <1>4, FrameOf, CallsOfFrames DEF PutLoad, GetLoad
  <2>2. Calls' = [Calls EXCEPT ![w] = Calls[w]] BY <1>0, <2>1, CallMoves DEF TypeOK
  <2>3. UNCHANGED Calls BY <2>2 DEF Calls
  <2>4. UNCHANGED Contents BY <1>4 DEF PutLoad, GetLoad, Contents, Slot
  <2> QED BY <2>3, <2>4
<1>5. ASSUME NEW w \in Workers, PutStore(w)
      PROVE  loc[w].pizza \in Pizzas /\ Fifo!Put(w, loc[w].pizza)
  <2>1. /\ loc[w].pizza \in Pizzas /\ loc[w].usage = ring.usage /\ ring.usage < Size
        /\ ring.usage \in Nat
    BY <1>5 DEF PutStore, IInv, TypeOK, RingType, Registers, SemaphoresCount, At
  <2>2. Contents' = Append(Contents, loc[w].pizza) BY <1>0, <1>5, <2>1, PutAppends DEF IInv, TypeOK
  <2>3. Len(Contents) = ring.usage /\ Len(Contents') = ring.usage + 1
    BY <1>0, <2>1, <2>2, ContentsSeq, AppendProperties DEF TypeOK
  <2>4. /\ Calls[w] = Fifo!Putting(loc[w].pizza)
        /\ Calls' = [Calls EXCEPT ![w] = Fifo!Returning(loc[w].pizza, ring.usage + 1)]
    <3>1. CallOf(loc[w]) = Fifo!Putting(loc[w].pizza)
      BY <1>0, <1>5, FrameOf, CallsOfFrames DEF PutStore
    <3>2. Goto(w, Frame("stored", loc[w].pizza, 0, ring.usage + 1))
      BY <1>5, <2>1 DEF PutStore
    <3>3. CallOf(Frame("stored", loc[w].pizza, 0, ring.usage + 1)) = Fifo!Returning(loc[w].pizza, ring.usage + 1)
      BY CallsOfFrames
    <3> QED BY <1>0, <3>1, <3>2, <3>3, CallMoves DEF TypeOK
  <2> QED BY <2>1, <2>2, <2>3, <2>4 DEF Fifo!Put
<1>6. ASSUME NEW w \in Workers, GetStore(w) PROVE Fifo!Get(w)
  <2>1. loc[w].usage = ring.usage /\ ring.usage > 0
    BY <1>6 DEF GetStore, IInv, TypeOK, RingType, Registers, SemaphoresCount, At
  <2>2. Contents # <<>> /\ Head(Contents) = loc[w].pizza /\ Contents' = Tail(Contents)
    BY <1>0, <1>6, <2>1, GetTakesOldest DEF IInv, TypeOK
  <2>3. Len(Contents') = ring.usage - 1
    BY <1>0, <2>2, ContentsSeq, HeadTailProperties DEF TypeOK
  <2>4. /\ Calls[w] = Fifo!Getting
        /\ Calls' = [Calls EXCEPT ![w] = Fifo!Returning(loc[w].pizza, ring.usage - 1)]
    <3>1. CallOf(loc[w]) = Fifo!Getting
      BY <1>0, <1>6, FrameOf, CallsOfFrames DEF GetStore
    <3>2. Goto(w, Frame("removed", loc[w].pizza, 0, ring.usage - 1))
      BY <1>6, <2>1 DEF GetStore
    <3>3. CallOf(Frame("removed", loc[w].pizza, 0, ring.usage - 1)) = Fifo!Returning(loc[w].pizza, ring.usage - 1)
      BY CallsOfFrames
    <3> QED BY <1>0, <3>1, <3>2, <3>3, CallMoves DEF TypeOK
  <2> QED BY <2>2, <2>3, <2>4 DEF Fifo!Get
<1>7. ASSUME NEW w \in Workers, Unlock(w) PROVE Fifo!Return(w)
  <2>1. Calls[w].op = "return" /\ Calls' = [Calls EXCEPT ![w] = Fifo!Idle]
    <3>1. CallOf(loc[w]) = Fifo!Returning(loc[w].pizza, loc[w].usage)
      BY <1>0, <1>7, FrameOf, CallsOfFrames DEF Unlock
    <3>2. Goto(w, Frame("out", NoPizza, 0, 0))
      BY <1>7 DEF Unlock, Outside
    <3>3. CallOf(Frame("out", NoPizza, 0, 0)) = Fifo!Idle
      BY CallsOfFrames
    <3>4. Fifo!Returning(loc[w].pizza, loc[w].usage).op = "return"
      BY CallsOfFrames
    <3> QED BY <1>0, <3>1, <3>2, <3>3, <3>4, CallMoves DEF TypeOK
  <2>2. UNCHANGED Contents BY <1>7 DEF Unlock, Contents, Slot
  <2> QED BY <2>1, <2>2 DEF Fifo!Return
<1>8. ASSUME NEW w \in Workers, Inner(w) \/ Unlock(w) \/ GetEnter(w)
      PROVE Fifo!Next \/ UNCHANGED <<Contents, Calls>>
  BY <1>8, <1>3, <1>4, <1>5, <1>6, <1>7 DEF Inner, Access, Fifo!Next
<1> QED BY <1>1, <1>2, <1>8 DEF Next, Fifo!Next

\* The ring of furnace.c and table.c implements the bounded queue.
THEOREM RingIsFifo == Spec => IsFifo
<1>1. IInv /\ [Next]_vars => [Fifo!Next]_<<Contents, Calls>> BY StepRefines
<1> QED BY InitRefines, Invariant, <1>1, PTL DEF Spec, IsFifo, Fifo!Spec
=============================================================================
