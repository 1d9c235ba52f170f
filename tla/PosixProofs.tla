---------------------------- MODULE PosixProofs ----------------------------
(***************************************************************************)
(* The rings of zad2 over any number of runs, some of them killed, for any *)
(* number of workers, any pizzas and any size: a run that finds no old     *)
(* names is a bounded first-in first-out queue, and a run that finds some  *)
(* is given more slots than the ring has only after a kill between the     *)
(* unlinks of free and used.                                               *)
(*                                                                         *)
(* RInv is what every state keeps.  In a run on old semaphores that is     *)
(* little: the registers and heads point into the ring, although usage may *)
(* be any integer.  IInv is what a fresh run keeps besides; as for SemRing *)
(* it says that the registers of the worker inside are what is in memory.  *)
(***************************************************************************)
EXTENDS PosixRestart, FiniteSetTheorems, SequenceTheorems, TLAPS

\* the same memory behind the semaphores of zad1: its lemmas on the ring hold of this one
Sem == INSTANCE SemRingProofs WITH removed <- FALSE

\* The two heads are usage slots apart.
HeadsApart == ring.write_head = Slot(ring.usage)

\* What a worker read is still what is in memory.
Registers ==
  \A w \in Workers :
    /\ loc[w].at \in {"reserved", "put", "store"} => loc[w].pizza \in Pizzas
    /\ loc[w].at = "store" => loc[w].head = ring.write_head /\ loc[w].usage = ring.usage
    /\ loc[w].at = "remove" => /\ loc[w].head = ring.read_head /\ loc[w].usage = ring.usage
                               /\ loc[w].pizza = ring.arr[ring.read_head]

Places == {"out", "reserved", "put", "store", "stored", "wanted", "get", "remove", "removed",
           "unlock"}

Frames == [at : Places, pizza : Pizzas \cup {NoPizza}, head : Slots, usage : Int]

\* in any run, whatever it found
AnyRunType ==
  /\ sem \in [lock : Nat, used : Nat, free : Nat]
  /\ ring \in [arr : [Slots -> Pizzas \cup {NoPizza}], read_head : Slots, write_head : Slots,
               usage : Int]
  /\ loc \in [Workers -> Frames]
  /\ phase \in {"create", "run", "delete", "down"} /\ call \in Names /\ named \subseteq Names
  /\ living \subseteq Workers /\ stale \in BOOLEAN /\ torn \in Nat

IInv == TypeOK /\ LockExcludes /\ SlotsReserved /\ HeadsApart /\ Registers

AllOutside == loc = [w \in Workers |-> Outside]

DeadAreOutside == \A w \in Workers \ living : loc[w] = Outside

\* The names come and go in the order of the calls.
NamesInOrder ==
  /\ phase = "create" => /\ call \in Semaphores
                         /\ living # {} => named = Names
                         /\ call \in {"used", "lock"} => "free" \in named
                         /\ call = "lock" => "used" \in named
  /\ phase = "run" => call = "shm" /\ {"free", "used"} \subseteq named
  /\ phase = "delete" => /\ call \in {"shm", "free"} => "used" \in named
                         /\ call \in {"used", "lock"} => "free" \notin named

\* When used is missing, no worker has seen the free that it will be opened beside.
UsedIsNew ==
  "used" \notin named =>
    /\ phase = "create" => sem.used = 0 /\ sem.free <= Size /\ living = {}
    /\ phase = "down" /\ "free" \in named => sem.free <= Size /\ living = {}

\* What pizzeria_create has opened when it finds nothing.
NewSoFar ==
  phase = "create" /\ ~stale =>
    /\ living = {} /\ ring.read_head = 0 /\ ring.write_head = 0 /\ ring.usage = 0
    /\ call = "free" => {"free", "used", "lock"} \cap named = {}
    /\ call = "used" => {"used", "lock"} \cap named = {} /\ sem.free = Size
    /\ call = "lock" => "lock" \notin named /\ sem.free = Size /\ sem.used = 0

RInv ==
  /\ AnyRunType
  /\ CapacityNeverGrows
  /\ DeadAreOutside /\ NamesInOrder /\ UsedIsNew /\ NewSoFar
  /\ Fresh => IInv

-----------------------------------------------------------------------------
(* The memory of the ring, which SemRingProofs has the proofs about.       *)

\* The two modules say the same of it.
LEMMA SameRing ==
  /\ Slots = Sem!Slots /\ (RingType <=> Sem!RingType) /\ Contents = Sem!Contents
  /\ (HeadsApart <=> Sem!HeadsApart) /\ (Registers <=> Sem!Registers)
<1>1. Slots = Sem!Slots BY DEF Slots, Sem!Slots
<1>2. \A i : Slot(i) = Sem!Slot(i) BY DEF Slot, Sem!Slot
<1>3. RingType <=> Sem!RingType BY <1>1 DEF RingType, Sem!RingType
<1>4. Contents = Sem!Contents BY <1>2 DEF Contents, Sem!Contents
<1>5. HeadsApart <=> Sem!HeadsApart BY <1>2 DEF HeadsApart, Sem!HeadsApart
<1>6. Registers <=> Sem!Registers BY DEF Registers, Sem!Registers
<1> QED BY <1>1, <1>3, <1>4, <1>5, <1>6

\* (head + 1) % SIZE moves a head to the next slot, back to the first after the last.
LEMMA NextSlot ==
  ASSUME NEW h \in Slots
  PROVE  /\ (h + 1) % Size \in Slots
         /\ (h + 1) % Size = IF h + 1 = Size THEN 0 ELSE h + 1
BY SameRing, Sem!NextSlot, SizeAssumption, WorkersAssumption DEF IsFiniteSet, Sem!IsFiniteSet

\* The contents read through the heads form a sequence of usage pizzas.
LEMMA ContentsSeq ==
  RingType => Contents \in Seq(Pizzas \cup {NoPizza}) /\ Len(Contents) = ring.usage
BY SameRing, Sem!ContentsSeq, SizeAssumption, WorkersAssumption DEF IsFiniteSet, Sem!IsFiniteSet

\* A put writes the slot behind the last pizza and disturbs none of the others.
LEMMA PutAppends ==
  ASSUME RingType, HeadsApart, Registers, ring.usage < Size, NEW w \in Workers, PutStore(w)
  PROVE  /\ RingType' /\ HeadsApart'
         /\ ring'.usage = ring.usage + 1
         /\ Contents' = Append(Contents, loc[w].pizza)
<1>1. Sem!PutStore(w) BY DEF PutStore, Sem!PutStore, Goto, Sem!Goto, Frame, Sem!Frame
<1>2. /\ Sem!RingType' /\ Sem!HeadsApart'
      /\ ring'.usage = ring.usage + 1
      /\ Sem!Contents' = Append(Sem!Contents, loc[w].pizza)
  BY <1>1, SameRing, Sem!PutAppends, SizeAssumption, WorkersAssumption
     DEF IsFiniteSet, Sem!IsFiniteSet
<1>3. (Contents = Sem!Contents)' /\ (RingType <=> Sem!RingType)' /\ (HeadsApart <=> Sem!HeadsApart)'
  BY SameRing, PTL
<1> QED BY <1>2, <1>3, SameRing

\* A get takes the oldest pizza and leaves the others in their order.
LEMMA GetTakesOldest ==
  ASSUME RingType, HeadsApart, Registers, ring.usage > 0, NEW w \in Workers, GetStore(w)
  PROVE  /\ RingType' /\ HeadsApart'
         /\ ring'.usage = ring.usage - 1
         /\ Contents # <<>> /\ Head(Contents) = loc[w].pizza
         /\ Contents' = Tail(Contents)
<1>1. Sem!GetStore(w) BY DEF GetStore, Sem!GetStore, Goto, Sem!Goto, Frame, Sem!Frame
<1>2. /\ Sem!RingType' /\ Sem!HeadsApart'
      /\ ring'.usage = ring.usage - 1
      /\ Sem!Contents # <<>> /\ Head(Sem!Contents) = loc[w].pizza
      /\ Sem!Contents' = Tail(Sem!Contents)
  BY <1>1, SameRing, Sem!GetTakesOldest, SizeAssumption, WorkersAssumption
     DEF IsFiniteSet, Sem!IsFiniteSet
<1>3. (Contents = Sem!Contents)' /\ (RingType <=> Sem!RingType)' /\ (HeadsApart <=> Sem!HeadsApart)'
  BY SameRing, PTL
<1> QED BY <1>2, <1>3, SameRing

\* A worker that moves on changes its own call only.
LEMMA CallMoves ==
  ASSUME NEW S, loc \in [Workers -> S], NEW w \in Workers, NEW f, Goto(w, f)
  PROVE  /\ Calls[w] = CallOf(loc[w])
         /\ Calls' = [Calls EXCEPT ![w] = CallOf(f)]
<1>1. \A v \in Workers : loc'[v] = IF v = w THEN f ELSE loc[v] BY DEF Goto
<1>2. Calls = [v \in Workers |-> CallOf(loc[v])] BY DEF Calls
<1>3. Calls' = [v \in Workers |-> CallOf(loc'[v])] BY DEF Calls
<1>4. \A v \in Workers : CallOf(loc'[v]) = IF v = w THEN CallOf(f) ELSE CallOf(loc[v])
  BY <1>1
<1> QED BY <1>2, <1>3, <1>4

\* The call each frame stands for.
LEMMA CallsOfFrames ==
  ASSUME NEW z, NEW h, NEW n
  PROVE  /\ \A l \in {"reserved", "put", "store"} : CallOf(Frame(l, z, h, n)) = Fifo!Putting(z)
         /\ \A l \in {"wanted", "get", "remove"} : CallOf(Frame(l, z, h, n)) = Fifo!Getting
         /\ \A l \in {"stored", "removed", "unlock"} :
              CallOf(Frame(l, z, h, n)) = Fifo!Returning(z, n)
         /\ CallOf(Frame("out", z, h, n)) = Fifo!Idle
         /\ Fifo!Returning(z, n).op = "return"
BY DEF CallOf, Frame, Fifo!Putting, Fifo!Getting, Fifo!Returning, Fifo!Idle

-----------------------------------------------------------------------------
(* Counting the workers at some places.                                    *)

\* A worker that moves is counted where it goes and no longer where it was.
LEMMA CountMoves ==
  ASSUME NEW S, loc \in [Workers -> S], NEW w \in Workers, NEW f, Goto(w, f), NEW l
  PROVE  /\ Cardinality(At(l)) \in Nat
         /\ loc[w].at \in l => Cardinality(At(l)) > 0
         /\ Cardinality(At(l)') = Cardinality(At(l)) + (IF f.at \in l THEN 1 ELSE 0)
                                                     - (IF loc[w].at \in l THEN 1 ELSE 0)
<1>1. IsFiniteSet(At(l)) BY WorkersAssumption, FS_Subset DEF At
<1>2. Cardinality(At(l)) \in Nat BY <1>1, FS_CardinalityType
<1>3. w \in At(l) <=> loc[w].at \in l BY DEF At
<1>4. At(l)' = IF f.at \in l THEN At(l) \cup {w} ELSE At(l) \ {w} BY DEF At, Goto
<1>5. Cardinality(At(l) \cup {w}) = IF w \in At(l) THEN Cardinality(At(l)) ELSE Cardinality(At(l)) + 1
  BY <1>1, FS_AddElement
<1>6. Cardinality(At(l) \ {w}) = IF w \in At(l) THEN Cardinality(At(l)) - 1 ELSE Cardinality(At(l))
  BY <1>1, FS_RemoveElement
<1>7. loc[w].at \in l => Cardinality(At(l)) > 0 BY <1>1, <1>2, <1>3, FS_EmptySet
<1> QED BY <1>2, <1>3, <1>4, <1>5, <1>6, <1>7

\* Nobody is at any place when all are outside.
LEMMA NobodyInside ==
  ASSUME AllOutside, NEW l, "out" \notin l
  PROVE  At(l) = {} /\ Cardinality(At(l)) = 0
BY FS_EmptySet DEF AllOutside, At, Outside, Frame

-----------------------------------------------------------------------------
(* Any run.                                                                *)

InCall == Places \ {"out", "unlock"}

LEMMA InFlightAreInCall == AnyRunType => InFlight = At(InCall)
BY DEF AnyRunType, Frames, InFlight, At, InCall

\* what the worker at a place holds of the semaphores
Held(l) == IF l \in InCall THEN 1 ELSE 0

\* Whoever moves takes along the token it holds.
LEMMA TokensMove ==
  ASSUME AnyRunType, AnyRunType', CapacityNeverGrows, NEW w \in Workers, NEW f, Goto(w, f),
         sem'.used + sem'.free + Held(f.at) = sem.used + sem.free + Held(loc[w].at), UNCHANGED torn
  PROVE  CapacityNeverGrows'
<1>1. InFlight = At(InCall) BY InFlightAreInCall
<1>2. InFlight' = At(InCall)'
  <2>1. (AnyRunType => InFlight = At(InCall))' BY InFlightAreInCall, PTL
  <2> QED BY <2>1
<1>3. /\ Cardinality(At(InCall)) \in Nat
      /\ Cardinality(At(InCall)') = Cardinality(At(InCall)) + Held(f.at) - Held(loc[w].at)
  BY CountMoves DEF AnyRunType, Held
<1>4. {sem.used, sem.free, sem'.used, sem'.free} \subseteq Nat BY DEF AnyRunType
<1>5. {Held(f.at), Held(loc[w].at)} \subseteq Int BY DEF Held
<1>6. PICK room : room = Size * (1 + torn) OBVIOUS
<1>7. room \in Nat BY <1>6, SizeAssumption DEF AnyRunType
<1> QED BY <1>1, <1>2, <1>3, <1>4, <1>5, <1>6, <1>7 DEF CapacityNeverGrows

\* A worker that moves keeps a register only of its type.
LEMMA FramesMove ==
  ASSUME loc \in [Workers -> Frames], NEW w \in Workers, NEW l \in Places,
         NEW z \in Pizzas \cup {NoPizza}, NEW h \in Slots, NEW n \in Int, Goto(w, Frame(l, z, h, n))
  PROVE  loc' \in [Workers -> Frames]
<1>1. Frame(l, z, h, n) \in Frames BY DEF Frame, Frames
<1> QED BY <1>1 DEF Goto

LEMMA FirstSlot == 0 \in Slots
BY SizeAssumption DEF Slots

LEMMA OutsideFrame == Outside \in Frames
<1> NoPizza \in Pizzas \cup {NoPizza} /\ 0 \in Int /\ "out" \in Places BY DEF Places
<1> QED BY FirstSlot DEF Outside, Frame, Frames

LEMMA AnyRunStep ==
  ASSUME AnyRunType, CapacityNeverGrows, Next,
         UNCHANGED <<phase, call, named, living, stale, torn>>
  PROVE  AnyRunType' /\ CapacityNeverGrows'
<1> USE FirstSlot
<1>1. ASSUME NEW w \in Workers, NEW z \in Pizzas, PutReserve(w, z)
      PROVE  AnyRunType' /\ CapacityNeverGrows'
  <2>1. Goto(w, Frame("reserved", z, 0, 0)) BY <1>1 DEF PutReserve
  <2>2. loc' \in [Workers -> Frames]
    BY <1>1, <2>1, FramesMove DEF AnyRunType, Frames, Places, PutReserve
  <2>3. AnyRunType'
    BY <1>1, <2>2 DEF AnyRunType, PutReserve, SemWait
  <2>4. sem'.used + sem'.free + Held(Frame("reserved", z, 0, 0).at)
          = sem.used + sem.free + Held(loc[w].at)
    BY <1>1 DEF AnyRunType, Held, InCall, Places, Frame, PutReserve, SemWait
  <2> QED BY <2>1, <2>3, <2>4, TokensMove
<1>2. ASSUME NEW w \in Workers, GetReserve(w)
      PROVE  AnyRunType' /\ CapacityNeverGrows'
  <2>1. Goto(w, Frame("wanted", NoPizza, 0, 0)) BY <1>2 DEF GetReserve
  <2> NoPizza \in Pizzas \cup {NoPizza} /\ "wanted" \in Places /\ 0 \in Int BY DEF Places
  <2>2. loc' \in [Workers -> Frames] BY <2>1, FramesMove DEF AnyRunType
  <2>3. AnyRunType'
    BY <1>2, <2>2 DEF AnyRunType, GetReserve, SemWait
  <2>4. sem'.used + sem'.free + Held(Frame("wanted", NoPizza, 0, 0).at)
          = sem.used + sem.free + Held(loc[w].at)
    BY <1>2 DEF AnyRunType, Held, InCall, Places, Frame, GetReserve, SemWait
  <2> QED BY <2>1, <2>3, <2>4, TokensMove
<1>3. ASSUME NEW w \in Workers, Lock(w)
      PROVE  AnyRunType' /\ CapacityNeverGrows'
  <2>1. PICK l \in {"put", "get"} : Goto(w, [loc[w] EXCEPT !.at = l]) BY <1>3 DEF Lock
  <2>2. loc' \in [Workers -> Frames] BY <2>1 DEF AnyRunType, Frames, Places, Goto
  <2>3. AnyRunType' BY <1>3, <2>2 DEF AnyRunType, Lock, SemWait
  <2>4. sem'.used + sem'.free + Held([loc[w] EXCEPT !.at = l].at)
          = sem.used + sem.free + Held(loc[w].at)
    BY <1>3, <2>1 DEF AnyRunType, Frames, Held, InCall, Places, Lock, SemWait
  <2> QED BY <2>1, <2>3, <2>4, TokensMove
<1>4. ASSUME NEW w \in Workers, Post(w)
      PROVE  AnyRunType' /\ CapacityNeverGrows'
  <2>1. PICK l \in {"unlock"} : Goto(w, [loc[w] EXCEPT !.at = l]) BY <1>4 DEF Post
  <2>2. loc' \in [Workers -> Frames] BY <2>1 DEF AnyRunType, Frames, Places, Goto
  <2>3. AnyRunType' BY <1>4, <2>2 DEF AnyRunType, Post, SemPost
  <2>4. sem'.used + sem'.free + Held([loc[w] EXCEPT !.at = l].at)
          = sem.used + sem.free + Held(loc[w].at)
    BY <1>4, <2>1 DEF AnyRunType, Frames, Held, InCall, Places, Post, SemPost
  <2> QED BY <2>1, <2>3, <2>4, TokensMove
<1>5. ASSUME NEW w \in Workers, Unlock(w)
      PROVE  AnyRunType' /\ CapacityNeverGrows'
  <2>1. Goto(w, Frame("out", NoPizza, 0, 0)) BY <1>5 DEF Unlock, Outside
  <2> NoPizza \in Pizzas \cup {NoPizza} /\ "out" \in Places /\ 0 \in Int BY DEF Places
  <2>2. loc' \in [Workers -> Frames] BY <2>1, FramesMove DEF AnyRunType
  <2>3. AnyRunType'
    BY <1>5, <2>2 DEF AnyRunType, Unlock, SemPost
  <2>4. sem'.used + sem'.free + Held(Frame("out", NoPizza, 0, 0).at)
          = sem.used + sem.free + Held(loc[w].at)
    BY <1>5 DEF AnyRunType, Held, InCall, Places, Frame, Unlock, SemPost
  <2> QED BY <2>1, <2>3, <2>4, TokensMove
<1>6. ASSUME NEW w \in Workers, PutLoad(w), UNCHANGED sem
      PROVE  AnyRunType' /\ CapacityNeverGrows'
  <2>1. Goto(w, Frame("store", loc[w].pizza, ring.write_head, ring.usage)) BY <1>6 DEF PutLoad
  <2>2. loc' \in [Workers -> Frames]
    BY <1>6, <2>1, FramesMove DEF AnyRunType, Frames, Places, PutLoad
  <2>3. AnyRunType'
    BY <1>6, <2>2 DEF AnyRunType, PutLoad
  <2>4. sem'.used + sem'.free + Held(Frame("store", loc[w].pizza, ring.write_head, ring.usage).at)
          = sem.used + sem.free + Held(loc[w].at)
    BY <1>6 DEF AnyRunType, Held, InCall, Places, Frame, PutLoad
  <2> QED BY <2>1, <2>3, <2>4, TokensMove
<1>7. ASSUME NEW w \in Workers, GetLoad(w), UNCHANGED sem
      PROVE  AnyRunType' /\ CapacityNeverGrows'
  <2>1. Goto(w, Frame("remove", ring.arr[ring.read_head], ring.read_head, ring.usage)) BY <1>7 DEF GetLoad
  <2>2. loc' \in [Workers -> Frames]
    BY <1>7, <2>1, FramesMove DEF AnyRunType, Frames, Places, GetLoad
  <2>3. AnyRunType'
    BY <1>7, <2>2 DEF AnyRunType, GetLoad
  <2>4. sem'.used + sem'.free + Held(Frame("remove", ring.arr[ring.read_head], ring.read_head, ring.usage).at)
          = sem.used + sem.free + Held(loc[w].at)
    BY <1>7 DEF AnyRunType, Held, InCall, Places, Frame, GetLoad
  <2> QED BY <2>1, <2>3, <2>4, TokensMove
<1>8. ASSUME NEW w \in Workers, PutStore(w), UNCHANGED sem
      PROVE  AnyRunType' /\ CapacityNeverGrows'
  <2>1. Goto(w, Frame("stored", loc[w].pizza, 0, loc[w].usage + 1)) BY <1>8 DEF PutStore
  <2> /\ loc[w].pizza \in Pizzas \cup {NoPizza} /\ "stored" \in Places
      /\ loc[w].usage \in Int /\ loc[w].usage + 1 \in Int /\ loc[w].head \in Slots
    BY DEF AnyRunType, Frames, Places
  <2> (loc[w].head + 1) % Size \in Slots BY NextSlot
  <2>2. loc' \in [Workers -> Frames] BY <2>1, FramesMove DEF AnyRunType
  <2>3. AnyRunType'
    BY <1>8, <2>2 DEF AnyRunType, PutStore
  <2>4. sem'.used + sem'.free + Held(Frame("stored", loc[w].pizza, 0, loc[w].usage + 1).at)
          = sem.used + sem.free + Held(loc[w].at)
    BY <1>8 DEF AnyRunType, Held, InCall, Places, Frame, PutStore
  <2> QED BY <2>1, <2>3, <2>4, TokensMove
<1>9. ASSUME NEW w \in Workers, GetStore(w), UNCHANGED sem
      PROVE  AnyRunType' /\ CapacityNeverGrows'
  <2>1. Goto(w, Frame("removed", loc[w].pizza, 0, loc[w].usage - 1)) BY <1>9 DEF GetStore
  <2> /\ loc[w].pizza \in Pizzas \cup {NoPizza} /\ "removed" \in Places
      /\ loc[w].usage \in Int /\ loc[w].usage - 1 \in Int /\ loc[w].head \in Slots
    BY DEF AnyRunType, Frames, Places
  <2> (loc[w].head + 1) % Size \in Slots BY NextSlot
  <2>2. loc' \in [Workers -> Frames] BY <2>1, FramesMove DEF AnyRunType
  <2>3. AnyRunType'
    BY <1>9, <2>2 DEF AnyRunType, GetStore
  <2>4. sem'.used + sem'.free + Held(Frame("removed", loc[w].pizza, 0, loc[w].usage - 1).at)
          = sem.used + sem.free + Held(loc[w].at)
    BY <1>9 DEF AnyRunType, Held, InCall, Places, Frame, GetStore
  <2> QED BY <2>1, <2>3, <2>4, TokensMove
<1> QED BY <1>1, <1>2, <1>3, <1>4, <1>5, <1>6, <1>7, <1>8, <1>9 DEF Next, Step, Inner, Access

-----------------------------------------------------------------------------
(* A fresh run.                                                            *)

\* the state pizzeria_create makes of new semaphores and any slots
NewRing ==
  /\ AllOutside /\ sem = InitSem
  /\ ring.arr \in [Slots -> Pizzas \cup {NoPizza}]
  /\ ring = [arr |-> ring.arr, read_head |-> 0, write_head |-> 0, usage |-> 0]

LEMMA NewRingIInv == NewRing => IInv
<1> SUFFICES ASSUME NewRing PROVE IInv
  OBVIOUS
<1> USE SizeAssumption DEF InitSem, NewRing
<1>1. TypeOK BY DEF AllOutside, Outside, Frame, TypeOK, RingType, Slots
<1>2. LockExcludes BY DEF AllOutside, Outside, Frame, LockExcludes, Inside, At
<1>3. SlotsReserved BY NobodyInside DEF SlotsReserved
<1>4. HeadsApart /\ Registers BY DEF AllOutside, Outside, Frame, HeadsApart, Registers, Slot
<1> QED BY <1>1, <1>2, <1>3, <1>4 DEF IInv

\* While the lock is down only its holder is inside.
LEMMA AloneInside ==
  ASSUME IInv, NEW w \in Inside
  PROVE  \A v \in Workers : v # w => v \notin Inside
BY DEF IInv, LockExcludes

\* The sums of SlotsReserved follow the worker that moves.
Due(f, l) == IF f.at \in l THEN 1 ELSE 0

Taken == {"wanted", "get", "remove"}
Claimed == {"reserved", "put", "store"}

LEMMA SlotsMove ==
  ASSUME IInv, NEW w \in Workers, NEW f, Goto(w, f), sem' \in [lock : Nat, used : Nat, free : Nat],
         ring'.usage \in Int,
         ring'.usage - ring.usage
           = sem'.used - sem.used + Due(f, Taken) - Due(loc[w], Taken)
                                  + Due(f, {"stored"}) - Due(loc[w], {"stored"}),
         ring.usage - ring'.usage
           = sem'.free - sem.free + Due(f, Claimed) - Due(loc[w], Claimed)
                                  + Due(f, {"removed"}) - Due(loc[w], {"removed"})
  PROVE  SlotsReserved'
<1> DEFINE Count(l) == Cardinality(At(l))
<1>1. \A l : Due(f, l) \in Int /\ Due(loc[w], l) \in Int BY DEF Due
<1>2. ASSUME NEW l PROVE /\ Count(l) \in Nat
                         /\ Count(l)' = Count(l) + Due(f, l) - Due(loc[w], l)
  BY CountMoves DEF IInv, TypeOK, Due
<1>3. /\ ring.usage = sem.used + Count(Taken) + Count({"stored"})
      /\ Size - ring.usage = sem.free + Count(Claimed) + Count({"removed"})
  BY DEF IInv, SlotsReserved, Taken, Claimed
<1>4. {sem.used, sem.free, sem'.used, sem'.free, ring.usage} \subseteq Int
  BY DEF IInv, TypeOK, RingType
<1>5. /\ Count(Taken) \in Nat
      /\ Count(Taken)' = Count(Taken) + Due(f, Taken) - Due(loc[w], Taken) BY <1>2
<1>6. /\ Count({"stored"}) \in Nat
      /\ Count({"stored"})' = Count({"stored"}) + Due(f, {"stored"}) - Due(loc[w], {"stored"})
  BY <1>2
<1>7. /\ Count(Claimed) \in Nat
      /\ Count(Claimed)' = Count(Claimed) + Due(f, Claimed) - Due(loc[w], Claimed) BY <1>2
<1>8. /\ Count({"removed"}) \in Nat
      /\ Count({"removed"})' = Count({"removed"}) + Due(f, {"removed"}) - Due(loc[w], {"removed"})
  BY <1>2
<1> HIDE DEF Count
<1>9. ring'.usage = sem'.used + Count(Taken)' + Count({"stored"})'
  BY <1>1, <1>3, <1>4, <1>5, <1>6
<1>10. Size - ring'.usage = sem'.free + Count(Claimed)' + Count({"removed"})'
  BY <1>1, <1>3, <1>4, <1>7, <1>8, SizeAssumption
<1> QED BY <1>9, <1>10 DEF SlotsReserved, Count, Taken, Claimed

FrameTypes == [at : Places, pizza : Pizzas \cup {NoPizza}, head : Slots, usage : 0 .. Size]

InsidePlaces == {"put", "store", "stored", "get", "remove", "removed", "unlock"}

\* What a move has to show, besides what it does to the lock and the registers.
LEMMA Moved ==
  ASSUME IInv, NEW w \in Workers, NEW f \in FrameTypes, Goto(w, f), RingType', HeadsApart',
         sem' \in [lock : 0 .. 1, used : Nat, free : Nat],
         ring'.usage - ring.usage
           = sem'.used - sem.used + Due(f, Taken) - Due(loc[w], Taken)
                                  + Due(f, {"stored"}) - Due(loc[w], {"stored"}),
         ring.usage - ring'.usage
           = sem'.free - sem.free + Due(f, Claimed) - Due(loc[w], Claimed)
                                  + Due(f, {"removed"}) - Due(loc[w], {"removed"}),
         LockExcludes', Registers'
  PROVE  IInv'
<1>1. ring'.usage \in 0 .. Size /\ sem' \in [lock : Nat, used : Nat, free : Nat]
  BY DEF RingType
<1>2. SlotsReserved' BY <1>1, SlotsMove
<1>3. loc' \in [Workers -> FrameTypes]
  BY DEF IInv, TypeOK, FrameTypes, Places, Goto
<1>4. \A l : Cardinality(At(l)') \in Nat
  <2>1. SUFFICES ASSUME NEW l PROVE Cardinality(At(l)') \in Nat
    OBVIOUS
  <2>2. At(l)' \subseteq Workers BY DEF At
  <2>3. IsFiniteSet(At(l)') BY <2>2, WorkersAssumption, FS_Subset
  <2> QED BY <2>3, FS_CardinalityType
<1>5. sem'.used <= ring'.usage /\ sem'.free <= Size - ring'.usage
  <2>1. /\ Cardinality(At({"wanted", "get", "remove"})') \in Nat
        /\ Cardinality(At({"stored"})') \in Nat
        /\ Cardinality(At({"reserved", "put", "store"})') \in Nat
        /\ Cardinality(At({"removed"})') \in Nat
    BY <1>4
  <2> QED BY <1>1, <1>2, <2>1, SizeAssumption DEF SlotsReserved
<1>6. TypeOK' BY <1>1, <1>3, <1>5, SizeAssumption DEF TypeOK, FrameTypes, Places
<1> QED BY <1>2, <1>6 DEF IInv

\* Who stays inside, or outside, leaves the lock as it was.
LEMMA LockStays ==
  ASSUME IInv, NEW w \in Workers, NEW f, Goto(w, f), sem'.lock = sem.lock,
         f.at \in InsidePlaces <=> loc[w].at \in InsidePlaces
  PROVE  LockExcludes'
<1>1. Inside' = Inside BY DEF IInv, TypeOK, Inside, At, InsidePlaces, Goto
<1> QED BY <1>1 DEF IInv, LockExcludes

\* The registers of the others, who are not inside, are none that the ring has to agree with.
LEMMA RegistersStay ==
  ASSUME IInv, NEW w \in Workers, NEW f, Goto(w, f),
         ring' = ring \/ w \in Inside,
         f.at \in Claimed => f.pizza \in Pizzas,
         f.at = "store" => f.head = ring'.write_head /\ f.usage = ring'.usage,
         f.at = "remove" => /\ f.head = ring'.read_head /\ f.usage = ring'.usage
                            /\ f.pizza = ring'.arr[ring'.read_head]
  PROVE  Registers'
<1> SUFFICES ASSUME NEW v \in Workers
             PROVE  /\ loc'[v].at \in Claimed => loc'[v].pizza \in Pizzas
                    /\ loc'[v].at = "store" => /\ loc'[v].head = ring'.write_head
                                               /\ loc'[v].usage = ring'.usage
                    /\ loc'[v].at = "remove" => /\ loc'[v].head = ring'.read_head
                                                /\ loc'[v].usage = ring'.usage
                                                /\ loc'[v].pizza = ring'.arr[ring'.read_head]
  BY DEF Registers, Claimed
<1>1. loc'[v] = IF v = w THEN f ELSE loc[v] BY DEF IInv, TypeOK, Goto
<1>2. CASE v = w BY <1>1, <1>2
<1>3. CASE v # w /\ ring' = ring BY <1>1, <1>3 DEF IInv, Registers, Claimed
<1>4. CASE v # w /\ w \in Inside
  <2>1. loc[v].at \notin {"store", "remove"} BY <1>4, AloneInside DEF Inside, At
  <2> QED BY <1>1, <1>4, <2>1 DEF IInv, Registers, Claimed
<1> QED BY <1>2, <1>3, <1>4

LEMMA PutReserveStep ==
  ASSUME IInv, NEW w \in Workers, NEW z \in Pizzas, PutReserve(w, z)
  PROVE  IInv'
<1> USE SizeAssumption, FirstSlot
<1> DEFINE f == Frame("reserved", z, 0, 0)
<1>1. Goto(w, f) BY DEF PutReserve
<1>2. RingType' /\ HeadsApart' BY DEF PutReserve, IInv, TypeOK, RingType, HeadsApart, Slot
<1>3. f \in FrameTypes BY <1>2 DEF PutReserve, IInv, TypeOK, RingType, FrameTypes, Places, Frame
<1>4. sem' \in [lock : 0 .. 1, used : Nat, free : Nat] BY DEF PutReserve, IInv, TypeOK, SemWait
<1>5. /\ ring'.usage - ring.usage
           = sem'.used - sem.used + Due(f, Taken) - Due(loc[w], Taken)
                                  + Due(f, {"stored"}) - Due(loc[w], {"stored"})
      /\ ring.usage - ring'.usage
           = sem'.free - sem.free + Due(f, Claimed) - Due(loc[w], Claimed)
                                  + Due(f, {"removed"}) - Due(loc[w], {"removed"})
  BY <1>2 DEF PutReserve, IInv, TypeOK, RingType, Due, Taken, Claimed, Frame, SemWait
<1>6. LockExcludes' BY <1>1, LockStays DEF PutReserve, IInv, TypeOK, InsidePlaces, Frame, SemWait
<1>7. Registers'
  BY <1>1, RegistersStay DEF PutReserve, IInv, TypeOK, Registers, Claimed, Frame
<1> HIDE DEF f
<1> QED BY <1>1, <1>2, <1>3, <1>4, <1>5, <1>6, <1>7, Moved

LEMMA GetReserveStep ==
  ASSUME IInv, NEW w \in Workers, GetReserve(w)
  PROVE  IInv'
<1> USE SizeAssumption, FirstSlot
<1> DEFINE f == Frame("wanted", NoPizza, 0, 0)
<1>1. Goto(w, f) BY DEF GetReserve
<1>2. RingType' /\ HeadsApart' BY DEF GetReserve, IInv, TypeOK, RingType, HeadsApart, Slot
<1>3. f \in FrameTypes BY <1>2 DEF GetReserve, IInv, TypeOK, RingType, FrameTypes, Places, Frame
<1>4. sem' \in [lock : 0 .. 1, used : Nat, free : Nat] BY DEF GetReserve, IInv, TypeOK, SemWait
<1>5. /\ ring'.usage - ring.usage
           = sem'.used - sem.used + Due(f, Taken) - Due(loc[w], Taken)
                                  + Due(f, {"stored"}) - Due(loc[w], {"stored"})
      /\ ring.usage - ring'.usage
           = sem'.free - sem.free + Due(f, Claimed) - Due(loc[w], Claimed)
                                  + Due(f, {"removed"}) - Due(loc[w], {"removed"})
  BY <1>2 DEF GetReserve, IInv, TypeOK, RingType, Due, Taken, Claimed, Frame, SemWait
<1>6. LockExcludes' BY <1>1, LockStays DEF GetReserve, IInv, TypeOK, InsidePlaces, Frame, SemWait
<1>7. Registers'
  BY <1>1, RegistersStay DEF GetReserve, IInv, TypeOK, Registers, Claimed, Frame
<1> HIDE DEF f
<1> QED BY <1>1, <1>2, <1>3, <1>4, <1>5, <1>6, <1>7, Moved

LEMMA LockStep ==
  ASSUME IInv, NEW w \in Workers, Lock(w)
  PROVE  IInv'
<1> USE SizeAssumption, FirstSlot
<1>0. PICK l \in {"put", "get"} : Goto(w, [loc[w] EXCEPT !.at = l])
                             /\ l = IF loc[w].at = "reserved" THEN "put" ELSE "get"
  BY DEF Lock
<1> DEFINE f == [loc[w] EXCEPT !.at = l]
<1>1. Goto(w, f) BY <1>0
<1>2. RingType' /\ HeadsApart' BY DEF Lock, IInv, TypeOK, RingType, HeadsApart, Slot
<1>3. f \in FrameTypes BY <1>0, <1>2 DEF Lock, IInv, TypeOK, RingType, FrameTypes, Places, Frame
<1>4. sem' \in [lock : 0 .. 1, used : Nat, free : Nat] BY DEF Lock, IInv, TypeOK, SemWait
<1>5. /\ ring'.usage - ring.usage
           = sem'.used - sem.used + Due(f, Taken) - Due(loc[w], Taken)
                                  + Due(f, {"stored"}) - Due(loc[w], {"stored"})
      /\ ring.usage - ring'.usage
           = sem'.free - sem.free + Due(f, Claimed) - Due(loc[w], Claimed)
                                  + Due(f, {"removed"}) - Due(loc[w], {"removed"})
  BY <1>0, <1>2 DEF Lock, IInv, TypeOK, RingType, Due, Taken, Claimed, Frame, SemWait
<1>6. LockExcludes' BY <1>0, <1>1, AloneInside DEF Lock, IInv, TypeOK, LockExcludes, Inside, At, Goto, Frame, SemWait
<1>7. Registers'
  BY <1>0, <1>1, RegistersStay DEF Lock, IInv, TypeOK, Registers, Claimed, Frame
<1> HIDE DEF f
<1> QED BY <1>1, <1>2, <1>3, <1>4, <1>5, <1>6, <1>7, Moved

LEMMA PostStep ==
  ASSUME IInv, NEW w \in Workers, Post(w)
  PROVE  IInv'
<1> USE SizeAssumption, FirstSlot
<1>0. PICK l \in {"unlock"} : Goto(w, [loc[w] EXCEPT !.at = l])
  BY DEF Post
<1> DEFINE f == [loc[w] EXCEPT !.at = l]
<1>1. Goto(w, f) BY <1>0
<1>2. RingType' /\ HeadsApart' BY DEF Post, IInv, TypeOK, RingType, HeadsApart, Slot
<1>3. f \in FrameTypes BY <1>0, <1>2 DEF Post, IInv, TypeOK, RingType, FrameTypes, Places, Frame
<1>4. sem' \in [lock : 0 .. 1, used : Nat, free : Nat] BY DEF Post, IInv, TypeOK, SemPost
<1>5. /\ ring'.usage - ring.usage
           = sem'.used - sem.used + Due(f, Taken) - Due(loc[w], Taken)
                                  + Due(f, {"stored"}) - Due(loc[w], {"stored"})
      /\ ring.usage - ring'.usage
           = sem'.free - sem.free + Due(f, Claimed) - Due(loc[w], Claimed)
                                  + Due(f, {"removed"}) - Due(loc[w], {"removed"})
  BY <1>0, <1>2 DEF Post, IInv, TypeOK, RingType, Due, Taken, Claimed, Frame, SemPost
<1>6. LockExcludes' BY <1>0, <1>1, LockStays DEF Post, IInv, TypeOK, InsidePlaces, Frame, SemPost
<1>7. Registers'
  BY <1>0, <1>1, RegistersStay DEF Post, IInv, TypeOK, Registers, Claimed, Frame
<1> HIDE DEF f
<1> QED BY <1>1, <1>2, <1>3, <1>4, <1>5, <1>6, <1>7, Moved

LEMMA UnlockStep ==
  ASSUME IInv, NEW w \in Workers, Unlock(w)
  PROVE  IInv'
<1> USE SizeAssumption, FirstSlot
<1> DEFINE f == Frame("out", NoPizza, 0, 0)
<1>1. Goto(w, f) BY DEF Unlock, Outside
<1>2. RingType' /\ HeadsApart' BY DEF Unlock, IInv, TypeOK, RingType, HeadsApart, Slot
<1>3. f \in FrameTypes BY <1>2 DEF Unlock, IInv, TypeOK, RingType, FrameTypes, Places, Frame
<1>4. sem' \in [lock : 0 .. 1, used : Nat, free : Nat] BY DEF Unlock, IInv, TypeOK, LockExcludes, Inside, At, SemPost, Outside
<1>5. /\ ring'.usage - ring.usage
           = sem'.used - sem.used + Due(f, Taken) - Due(loc[w], Taken)
                                  + Due(f, {"stored"}) - Due(loc[w], {"stored"})
      /\ ring.usage - ring'.usage
           = sem'.free - sem.free + Due(f, Claimed) - Due(loc[w], Claimed)
                                  + Due(f, {"removed"}) - Due(loc[w], {"removed"})
  BY <1>2 DEF Unlock, IInv, TypeOK, RingType, Due, Taken, Claimed, Frame, SemPost, Outside
<1>6. LockExcludes' BY <1>1, AloneInside DEF Unlock, IInv, TypeOK, LockExcludes, Inside, At, Goto, Frame, SemPost, Outside
<1>7. Registers'
  BY <1>1, RegistersStay DEF Unlock, IInv, TypeOK, Registers, Claimed, Frame
<1> HIDE DEF f
<1> QED BY <1>1, <1>2, <1>3, <1>4, <1>5, <1>6, <1>7, Moved

LEMMA PutLoadStep ==
  ASSUME IInv, NEW w \in Workers, PutLoad(w), UNCHANGED sem
  PROVE  IInv'
<1> USE SizeAssumption, FirstSlot
<1> DEFINE f == Frame("store", loc[w].pizza, ring.write_head, ring.usage)
<1>1. Goto(w, f) BY DEF PutLoad
<1>2. RingType' /\ HeadsApart' BY DEF PutLoad, IInv, TypeOK, RingType, HeadsApart, Slot
<1>3. f \in FrameTypes BY <1>2 DEF PutLoad, IInv, TypeOK, RingType, FrameTypes, Places, Frame
<1>4. sem' \in [lock : 0 .. 1, used : Nat, free : Nat] BY DEF PutLoad, IInv, TypeOK
<1>5. /\ ring'.usage - ring.usage
           = sem'.used - sem.used + Due(f, Taken) - Due(loc[w], Taken)
                                  + Due(f, {"stored"}) - Due(loc[w], {"stored"})
      /\ ring.usage - ring'.usage
           = sem'.free - sem.free + Due(f, Claimed) - Due(loc[w], Claimed)
                                  + Due(f, {"removed"}) - Due(loc[w], {"removed"})
  BY <1>2 DEF PutLoad, IInv, TypeOK, RingType, Due, Taken, Claimed, Frame
<1>6. LockExcludes' BY <1>1, LockStays DEF PutLoad, IInv, TypeOK, InsidePlaces, Frame
<1>7. Registers'
  BY <1>1, RegistersStay DEF PutLoad, IInv, TypeOK, Registers, Claimed, Frame
<1> HIDE DEF f
<1> QED BY <1>1, <1>2, <1>3, <1>4, <1>5, <1>6, <1>7, Moved

LEMMA GetLoadStep ==
  ASSUME IInv, NEW w \in Workers, GetLoad(w), UNCHANGED sem
  PROVE  IInv'
<1> USE SizeAssumption, FirstSlot
<1> DEFINE f == Frame("remove", ring.arr[ring.read_head], ring.read_head, ring.usage)
<1>1. Goto(w, f) BY DEF GetLoad
<1>2. RingType' /\ HeadsApart' BY DEF GetLoad, IInv, TypeOK, RingType, HeadsApart, Slot
<1>3. f \in FrameTypes BY <1>2 DEF GetLoad, IInv, TypeOK, RingType, FrameTypes, Places, Frame
<1>4. sem' \in [lock : 0 .. 1, used : Nat, free : Nat] BY DEF GetLoad, IInv, TypeOK
<1>5. /\ ring'.usage - ring.usage
           = sem'.used - sem.used + Due(f, Taken) - Due(loc[w], Taken)
                                  + Due(f, {"stored"}) - Due(loc[w], {"stored"})
      /\ ring.usage - ring'.usage
           = sem'.free - sem.free + Due(f, Claimed) - Due(loc[w], Claimed)
                                  + Due(f, {"removed"}) - Due(loc[w], {"removed"})
  BY <1>2 DEF GetLoad, IInv, TypeOK, RingType, Due, Taken, Claimed, Frame
<1>6. LockExcludes' BY <1>1, LockStays DEF GetLoad, IInv, TypeOK, InsidePlaces, Frame
<1>7. Registers'
  BY <1>1, RegistersStay DEF GetLoad, IInv, TypeOK, Registers, Claimed, Frame
<1> HIDE DEF f
<1> QED BY <1>1, <1>2, <1>3, <1>4, <1>5, <1>6, <1>7, Moved

\* A call that has reserved and locked finds a free slot, or a pizza.
LEMMA CallHasSlot ==
  ASSUME IInv, NEW w \in Workers
  PROVE  /\ loc[w].at \in Claimed => ring.usage < Size
         /\ loc[w].at \in Taken => ring.usage > 0
<1>1. \A l : IsFiniteSet(At(l)) BY WorkersAssumption, FS_Subset DEF At
<1>2. \A l : Cardinality(At(l)) \in Nat BY <1>1, FS_CardinalityType
<1>3. \A l : loc[w].at \in l => Cardinality(At(l)) > 0
  BY <1>1, <1>2, FS_EmptySet DEF At
<1>4. sem.used \in Nat /\ sem.free \in Nat /\ ring.usage \in 0 .. Size
  BY DEF IInv, TypeOK, RingType
<1>5. loc[w].at \in Claimed => ring.usage < Size
  BY <1>2, <1>3, <1>4, SizeAssumption DEF IInv, SlotsReserved, Claimed
<1>6. loc[w].at \in Taken => ring.usage > 0
  BY <1>2, <1>3, <1>4 DEF IInv, SlotsReserved, Taken
<1> QED BY <1>5, <1>6

LEMMA PutStoreStep ==
  ASSUME IInv, NEW w \in Workers, PutStore(w), UNCHANGED sem
  PROVE  IInv'
<1> USE SizeAssumption, FirstSlot
<1> DEFINE f == Frame("stored", loc[w].pizza, 0, ring.usage + 1)
<1>0. /\ ring.usage \in 0 .. Size /\ loc[w].usage = ring.usage /\ ring.usage < Size
      /\ w \in Inside
  BY CallHasSlot DEF PutStore, IInv, TypeOK, RingType, Registers, Inside, At, Claimed
<1>1. Goto(w, f) BY <1>0 DEF PutStore
<1>2. RingType' /\ HeadsApart' /\ ring'.usage = ring.usage + 1
  BY <1>0, PutAppends DEF IInv, TypeOK
<1>3. f \in FrameTypes BY <1>0, <1>2 DEF PutStore, IInv, TypeOK, RingType, FrameTypes, Places, Frame
<1>4. sem' \in [lock : 0 .. 1, used : Nat, free : Nat] BY DEF PutStore, IInv, TypeOK
<1>5. /\ ring'.usage - ring.usage
           = sem'.used - sem.used + Due(f, Taken) - Due(loc[w], Taken)
                                  + Due(f, {"stored"}) - Due(loc[w], {"stored"})
      /\ ring.usage - ring'.usage
           = sem'.free - sem.free + Due(f, Claimed) - Due(loc[w], Claimed)
                                  + Due(f, {"removed"}) - Due(loc[w], {"removed"})
  BY <1>0, <1>2 DEF PutStore, IInv, TypeOK, RingType, Due, Taken, Claimed, Frame
<1>6. LockExcludes' BY <1>0, <1>1, LockStays DEF PutStore, IInv, TypeOK, InsidePlaces, Frame
<1>7. Registers'
  BY <1>0, <1>1, RegistersStay DEF PutStore, IInv, TypeOK, Registers, Claimed, Frame
<1> HIDE DEF f
<1> QED BY <1>1, <1>2, <1>3, <1>4, <1>5, <1>6, <1>7, Moved

LEMMA GetStoreStep ==
  ASSUME IInv, NEW w \in Workers, GetStore(w), UNCHANGED sem
  PROVE  IInv'
<1> USE SizeAssumption, FirstSlot
<1> DEFINE f == Frame("removed", loc[w].pizza, 0, ring.usage - 1)
<1>0. /\ ring.usage \in 0 .. Size /\ loc[w].usage = ring.usage /\ ring.usage > 0
      /\ w \in Inside
  BY CallHasSlot DEF GetStore, IInv, TypeOK, RingType, Registers, Inside, At, Taken
<1>1. Goto(w, f) BY <1>0 DEF GetStore
<1>2. RingType' /\ HeadsApart' /\ ring'.usage = ring.usage - 1
  BY <1>0, GetTakesOldest DEF IInv, TypeOK
<1>3. f \in FrameTypes BY <1>0, <1>2 DEF GetStore, IInv, TypeOK, RingType, FrameTypes, Places, Frame
<1>4. sem' \in [lock : 0 .. 1, used : Nat, free : Nat] BY DEF GetStore, IInv, TypeOK
<1>5. /\ ring'.usage - ring.usage
           = sem'.used - sem.used + Due(f, Taken) - Due(loc[w], Taken)
                                  + Due(f, {"stored"}) - Due(loc[w], {"stored"})
      /\ ring.usage - ring'.usage
           = sem'.free - sem.free + Due(f, Claimed) - Due(loc[w], Claimed)
                                  + Due(f, {"removed"}) - Due(loc[w], {"removed"})
  BY <1>0, <1>2 DEF GetStore, IInv, TypeOK, RingType, Due, Taken, Claimed, Frame
<1>6. LockExcludes' BY <1>0, <1>1, LockStays DEF GetStore, IInv, TypeOK, InsidePlaces, Frame
<1>7. Registers'
  BY <1>0, <1>1, RegistersStay DEF GetStore, IInv, TypeOK, Registers, Claimed, Frame
<1> HIDE DEF f
<1> QED BY <1>1, <1>2, <1>3, <1>4, <1>5, <1>6, <1>7, Moved

LEMMA FreshStep == ASSUME IInv, Next PROVE IInv'
BY PutReserveStep, GetReserveStep, LockStep, PostStep, UnlockStep, PutLoadStep, GetLoadStep,
   PutStoreStep, GetStoreStep DEF Next, Step, Inner, Access

-----------------------------------------------------------------------------
(* One run after another.                                                  *)

LEMMA InitRInv == RestartInit => RInv
<1> SUFFICES ASSUME RestartInit PROVE RInv
  OBVIOUS
<1> USE FirstSlot, SizeAssumption DEF RestartInit, Init
<1>1. AllOutside BY DEF AllOutside
<1>2. IInv BY <1>1, NewRingIInv DEF NewRing, InitRing
<1>3. AnyRunType
  <2>1. ring.arr \in [Slots -> Pizzas \cup {NoPizza}] BY DEF InitRing
  <2>2. ring \in [arr : [Slots -> Pizzas \cup {NoPizza}], read_head : Slots, write_head : Slots,
                  usage : Int]
    BY <2>1 DEF InitRing
  <2>3. sem \in [lock : Nat, used : Nat, free : Nat] BY DEF InitSem
  <2>4. loc \in [Workers -> Frames] BY OutsideFrame
  <2> QED BY <2>2, <2>3, <2>4 DEF AnyRunType, Names
<1>4. CapacityNeverGrows BY <1>1, <1>3, InFlightAreInCall, NobodyInside DEF CapacityNeverGrows, InCall, InitSem
<1>5. DeadAreOutside /\ NamesInOrder /\ UsedIsNew /\ NewSoFar
  BY DEF DeadAreOutside, NamesInOrder, UsedIsNew, NewSoFar
<1> QED BY <1>1, <1>2, <1>3, <1>4, <1>5 DEF RInv

\* What nobody counts any more is not more than before.
LEMMA FewerInFlight ==
  ASSUME AnyRunType, CapacityNeverGrows, InFlight' \subseteq InFlight, UNCHANGED torn,
         sem' \in [lock : Nat, used : Nat, free : Nat], sem'.used <= sem.used, sem'.free <= sem.free
  PROVE  CapacityNeverGrows'
<1>1. IsFiniteSet(InFlight)
  <2>1. InFlight \subseteq Workers BY DEF InFlight
  <2> QED BY <2>1, WorkersAssumption, FS_Subset
<1>2. IsFiniteSet(InFlight') BY <1>1, FS_Subset
<1>3. Cardinality(InFlight') <= Cardinality(InFlight) BY <1>1, FS_Subset
<1>4. Cardinality(InFlight') \in Nat /\ Cardinality(InFlight) \in Nat
  BY <1>1, <1>2, FS_CardinalityType
<1>5. PICK room : room = Size * (1 + torn) OBVIOUS
<1>6. room \in Nat BY <1>5, SizeAssumption DEF AnyRunType
<1> QED BY <1>3, <1>4, <1>5, <1>6 DEF CapacityNeverGrows, AnyRunType

LEMMA NobodyInFlight == AllOutside => Cardinality(InFlight) = 0
<1>1. AllOutside => InFlight = {} BY DEF AllOutside, InFlight, Outside, Frame
<1> QED BY <1>1, FS_EmptySet

\* A worker that lives makes a step of the ring.
LEMMA WorksRInv ==
  ASSUME RInv, NEW w \in living, Works(w)
  PROVE  RInv'
<1>0. w \in Workers /\ UNCHANGED <<phase, call, named, living, stale, torn>>
  BY DEF RInv, AnyRunType, Works, master
<1>1. Next BY <1>0 DEF Works, Next
<1>2. AnyRunType' /\ CapacityNeverGrows' BY <1>0, <1>1, AnyRunStep DEF RInv
<1>3. DeadAreOutside'
  <2>1. \A v \in Workers : v # w => loc'[v] = loc[v]
    BY <1>0 DEF RInv, AnyRunType, Works, Step, Lock, Inner, Access, PutLoad, PutStore, GetLoad, GetStore, Post,
       Unlock, GetReserve, PutReserve, Goto
  <2> QED BY <1>0, <2>1 DEF RInv, DeadAreOutside
<1>4. NamesInOrder' /\ UsedIsNew' /\ NewSoFar'
  <2>1. living # {} OBVIOUS
  <2> QED BY <1>0, <2>1 DEF RInv, NamesInOrder, UsedIsNew, NewSoFar
<1>5. Fresh' => IInv' BY <1>0, <1>1, FreshStep DEF RInv, Fresh
<1> QED BY <1>2, <1>3, <1>4, <1>5 DEF RInv

\* The ring itself is left alone.
LEMMA SameRingIInv == UNCHANGED <<sem, ring, loc>> => (IInv <=> IInv')
BY DEF IInv, TypeOK, RingType, LockExcludes, SlotsReserved, HeadsApart, Registers, Slot, Inside, At

LEMMA CreateRInv == RInv /\ pizzeria_create => RInv'
<1> SUFFICES ASSUME RInv, pizzeria_create PROVE RInv'
  OBVIOUS
<1>0. AnyRunType BY DEF RInv
<1>1. /\ phase = "down" /\ phase' = "create" /\ call' = "free" /\ UNCHANGED torn
      /\ named' = named \cup {"shm"}
  BY DEF pizzeria_create
<1>2. /\ sem' \in [lock : Nat, used : Nat, free : Nat]
      /\ sem'.used = Left("used") /\ sem'.free = Left("free")
      /\ sem'.used <= sem.used /\ sem'.free <= sem.free
  BY <1>0 DEF pizzeria_create, Remaining, Left, AnyRunType
<1>3. /\ ring'.read_head = 0 /\ ring'.write_head = 0 /\ ring'.usage = 0
      /\ ring' \in [arr : [Slots -> Pizzas \cup {NoPizza}], read_head : Slots, write_head : Slots,
                    usage : Int]
  <2> 0 \in Int OBVIOUS
  <2>1. ring' = [ring EXCEPT !.read_head = 0, !.write_head = 0, !.usage = 0]
    BY DEF pizzeria_create
  <2> QED BY <1>0, <2>1, FirstSlot DEF AnyRunType
<1>4. AnyRunType'
  <2>1. loc' \in [Workers -> Frames] BY <1>0, OutsideFrame DEF pizzeria_create, AnyRunType
  <2>2. living' \subseteq Workers /\ stale' \in BOOLEAN BY <1>0 DEF pizzeria_create, AnyRunType
  <2> QED BY <1>0, <1>1, <1>2, <1>3, <2>1, <2>2 DEF AnyRunType, Names, Semaphores
<1>5. InFlight' \subseteq InFlight BY DEF pizzeria_create, InFlight, Outside, Frame
<1>6. CapacityNeverGrows' BY <1>0, <1>1, <1>2, <1>5, FewerInFlight DEF RInv
<1>7. DeadAreOutside' BY DEF RInv, DeadAreOutside, pizzeria_create
<1>8. NamesInOrder' BY <1>0, <1>1 DEF NamesInOrder, pizzeria_create, AnyRunType, Semaphores, Names
<1>9. UsedIsNew'
  BY <1>0, <1>1, <1>2, SizeAssumption
     DEF RInv, UsedIsNew, pizzeria_create, AnyRunType, Left, Names, Semaphores
<1>10. NewSoFar'
  <2> SUFFICES ASSUME ~stale' PROVE NewSoFar'
    BY DEF NewSoFar
  <2>1. named \cap Semaphores = {} BY DEF pizzeria_create
  <2>2. living' = {} BY <2>1 DEF pizzeria_create, Names, Semaphores
  <2> QED BY <1>1, <1>3, <2>1, <2>2 DEF NewSoFar, Semaphores
<1> QED BY <1>1, <1>4, <1>6, <1>7, <1>8, <1>9, <1>10 DEF RInv, Fresh

LEMMA OpensRInv == RInv /\ Opens => RInv'
<1> SUFFICES ASSUME RInv, Opens PROVE RInv'
  OBVIOUS
<1>0. /\ AnyRunType /\ phase = "create" /\ UNCHANGED <<ring, loc, stale>>
      /\ call \in {"free", "used", "lock"} /\ named' = named \cup {call}
  BY DEF RInv, NamesInOrder, Semaphores, Opens
<1>1. sem' \in [lock : Nat, used : Nat, free : Nat]
  BY <1>0, SizeAssumption DEF Opens, Opened, InitSem, AnyRunType
<1>2. AnyRunType'
  <2>1. torn' \in Nat BY <1>0 DEF Opens, AnyRunType
  <2>2. call' \in Names BY <1>0 DEF Opens, Following, Names, Semaphores
  <2>3. living' \subseteq Workers /\ phase' \in {"create", "run", "delete", "down"}
    BY <1>0 DEF Opens, AnyRunType
  <2> QED BY <1>0, <1>1, <2>1, <2>2, <2>3 DEF AnyRunType, Names, Semaphores
<1>3. UNCHANGED InFlight BY <1>0 DEF InFlight
<1>4. living # {} => UNCHANGED sem
  BY <1>0 DEF RInv, NamesInOrder, Opens, Opened, Names, Semaphores
<1>5. "used" \notin named => AllOutside
  BY <1>0 DEF RInv, UsedIsNew, DeadAreOutside, AllOutside, AnyRunType
<1>6. CapacityNeverGrows'
  <2>1. Cardinality(InFlight) \in Nat
    <3>1. InFlight \subseteq Workers BY DEF InFlight
    <3> QED BY <3>1, WorkersAssumption, FS_Subset, FS_CardinalityType
  <2>2. PICK room : room = Size * (1 + torn) OBVIOUS
  <2>3. room \in Nat /\ room >= Size /\ Size * (1 + (torn + 1)) = room + Size /\ Size * (1 + 0) = Size
    BY <1>0, <2>2, SizeAssumption DEF AnyRunType
  <2>4. sem.used + sem.free + Cardinality(InFlight) <= room
    BY <2>2 DEF RInv, CapacityNeverGrows
  <2>5. {sem.used, sem.free} \subseteq Nat BY <1>0 DEF AnyRunType
  <2>6. CASE call = "free" /\ "free" \notin named /\ "used" \in named
    <3>1. sem'.free = Size /\ sem'.used = sem.used /\ torn' = torn + 1
      BY <1>0, <2>6 DEF Opens, Opened, InitSem, AnyRunType
    <3> QED BY <1>3, <2>1, <2>2, <2>3, <2>4, <2>5, <3>1, SizeAssumption DEF CapacityNeverGrows
  <2>7. CASE call = "free" /\ "free" \notin named /\ "used" \notin named
    <3>1. sem'.free = Size /\ sem'.used = 0 /\ torn' = torn
      BY <1>0, <2>7 DEF Opens, Opened, InitSem, AnyRunType, RInv, UsedIsNew
    <3>2. Cardinality(InFlight) = 0 BY <1>5, <2>7, NobodyInFlight
    <3> QED BY <1>3, <2>2, <2>3, <3>1, <3>2, SizeAssumption DEF CapacityNeverGrows
  <2>8. CASE call = "used" /\ "used" \notin named
    <3>1. sem'.free = sem.free /\ sem'.used = 0 /\ torn' = 0
      BY <1>0, <2>8 DEF Opens, Opened, InitSem, AnyRunType
    <3>2. Cardinality(InFlight) = 0 BY <1>5, <2>8, NobodyInFlight
    <3>3. sem.free <= Size BY <1>0, <2>8 DEF RInv, UsedIsNew
    <3> QED BY <1>3, <2>3, <2>5, <3>1, <3>2, <3>3, SizeAssumption DEF CapacityNeverGrows
  <2>9. CASE call = "lock" \/ call \in named
    <3>1. sem'.free = sem.free /\ sem'.used = sem.used /\ torn' = torn
      BY <1>0, <2>9 DEF Opens, Opened, InitSem, AnyRunType
    <3> QED BY <1>3, <2>2, <2>4, <3>1 DEF CapacityNeverGrows
  <2> QED BY <1>0, <2>6, <2>7, <2>8, <2>9
<1>7. DeadAreOutside'
  BY <1>0 DEF RInv, DeadAreOutside, Opens, AnyRunType
<1>8. NamesInOrder'
  BY <1>0 DEF RInv, NamesInOrder, Opens, Following, Semaphores, Names
<1>9. UsedIsNew'
  <2> SUFFICES ASSUME "used" \notin named' PROVE UsedIsNew'
    BY DEF UsedIsNew
  <2>1. call = "free" BY <1>0 DEF RInv, NamesInOrder
  <2>2. /\ "used" \notin named /\ sem.used = 0 /\ sem.free <= Size /\ living = {}
        /\ UNCHANGED <<phase, living>>
    BY <1>0, <2>1 DEF RInv, UsedIsNew, Opens
  <2>3. sem'.used = 0 /\ sem'.free <= Size
    BY <1>0, <2>1, <2>2, SizeAssumption DEF Opens, Opened, InitSem, AnyRunType
  <2> QED BY <1>0, <2>2, <2>3 DEF UsedIsNew
<1>10. NewSoFar'
  <2> SUFFICES ASSUME phase' = "create", ~stale' PROVE NewSoFar'
    BY DEF NewSoFar
  <2>1. call # "lock" /\ UNCHANGED living BY DEF Opens
  <2>2. ~stale BY <1>0
  <2>3. CASE call = "free"
    <3>1. call' = "used" /\ sem'.free = Size
      BY <1>0, <2>2, <2>3 DEF RInv, NewSoFar, Opens, Opened, InitSem, Following, AnyRunType
    <3> QED BY <1>0, <2>1, <2>2, <2>3, <3>1 DEF RInv, NewSoFar
  <2>4. CASE call = "used"
    <3>1. call' = "lock" /\ sem'.free = Size /\ sem'.used = 0
      BY <1>0, <2>2, <2>4 DEF RInv, NewSoFar, Opens, Opened, InitSem, Following, AnyRunType
    <3> QED BY <1>0, <2>1, <2>2, <2>4, <3>1 DEF RInv, NewSoFar
  <2> QED BY <1>0, <2>1, <2>3, <2>4
<1>11. Fresh' => IInv'
  <2> SUFFICES ASSUME Fresh' PROVE IInv'
    OBVIOUS
  <2>1. call = "lock" /\ ~stale BY <1>0 DEF Fresh, Opens
  <2>2. /\ living = {} /\ ring.read_head = 0 /\ ring.write_head = 0 /\ ring.usage = 0
        /\ "lock" \notin named /\ sem.free = Size /\ sem.used = 0
    BY <1>0, <2>1 DEF RInv, NewSoFar
  <2>3. sem' = InitSem BY <1>0, <2>1, <2>2 DEF Opens, Opened, InitSem, AnyRunType
  <2>4. AllOutside' BY <1>0, <2>2 DEF RInv, DeadAreOutside, AllOutside, AnyRunType
  <2>5. /\ ring.arr \in [Slots -> Pizzas \cup {NoPizza}]
        /\ ring = [arr |-> ring.arr, read_head |-> 0, write_head |-> 0, usage |-> 0]
    BY <1>0, <2>2 DEF AnyRunType
  <2>6. NewRing' BY <1>0, <2>3, <2>4, <2>5 DEF NewRing, InitSem
  <2>7. (NewRing => IInv)' BY NewRingIInv, PTL
  <2> QED BY <2>6, <2>7
<1> QED BY <1>2, <1>6, <1>7, <1>8, <1>9, <1>10, <1>11 DEF RInv

LEMMA EndsRInv == RInv /\ (Interrupted \/ Unlinks \/ Killed) => RInv'
<1> SUFFICES ASSUME RInv, Interrupted \/ Unlinks \/ Killed PROVE RInv'
  OBVIOUS
<1> USE DEF Interrupted, Unlinks, Killed
<1>1. UNCHANGED <<sem, ring, loc, living, stale, torn>> /\ named' \subseteq named OBVIOUS
<1>2. AnyRunType'
  <2>1. call' \in Names /\ phase' \in {"create", "run", "delete", "down"}
    BY DEF RInv, AnyRunType, Following, Names, Semaphores
  <2> QED BY <1>1, <2>1 DEF RInv, AnyRunType
<1>3. CapacityNeverGrows' BY <1>1 DEF RInv, CapacityNeverGrows, InFlight
<1>4. DeadAreOutside' BY <1>1 DEF RInv, DeadAreOutside
<1>5. NamesInOrder'
  <2>1. CASE Interrupted BY <2>1 DEF RInv, NamesInOrder, AnyRunType
  <2>2. CASE Unlinks
    BY <2>2 DEF RInv, NamesInOrder, AnyRunType, Following, Names, Semaphores
  <2>3. CASE Killed BY <2>3 DEF NamesInOrder
  <2> QED BY <2>1, <2>2, <2>3
<1>6. UsedIsNew'
  BY DEF RInv, UsedIsNew, NamesInOrder, AnyRunType, Following, Names, Semaphores
<1>7. NewSoFar' BY DEF NewSoFar
<1>8. Fresh' => IInv'
  <2>1. Fresh' => Fresh \/ phase = "create" BY <1>1 DEF Fresh
  <2>2. CASE phase = "create" /\ ~stale
    <3>1. living = {} BY <2>2 DEF RInv, NewSoFar
    <3> QED BY <1>1, <3>1 DEF Fresh
  <2> QED BY <1>1, <2>1, <2>2, SameRingIInv DEF RInv, Fresh
<1> QED BY <1>2, <1>3, <1>4, <1>5, <1>6, <1>7, <1>8 DEF RInv

LEMMA DiesRInv ==
  ASSUME RInv, NEW w \in living, Dies(w)
  PROVE  RInv'
<1>0. /\ AnyRunType /\ UNCHANGED <<sem, ring, phase, call, named, stale, torn>>
      /\ phase \in {"delete", "down"} /\ living' = living \ {w}
      /\ loc' = [loc EXCEPT ![w] = Outside]
  BY DEF RInv, Dies, master
<1>1. AnyRunType' BY <1>0, OutsideFrame DEF AnyRunType
<1>2. InFlight' \subseteq InFlight BY <1>0 DEF InFlight, Outside, Frame, AnyRunType
<1>3. CapacityNeverGrows' BY <1>0, <1>2, FewerInFlight DEF RInv, AnyRunType
<1>4. DeadAreOutside' BY <1>0 DEF RInv, DeadAreOutside, AnyRunType
<1>5. NamesInOrder' /\ UsedIsNew' /\ NewSoFar'
  BY <1>0 DEF RInv, NamesInOrder, UsedIsNew, NewSoFar
<1>6. ~Fresh'
  <2>1. w \in Workers /\ w \notin living' BY <1>0 DEF AnyRunType
  <2> QED BY <2>1 DEF Fresh
<1> QED BY <1>1, <1>3, <1>4, <1>5, <1>6 DEF RInv

LEMMA NextRInv == RInv /\ [RestartNext]_allvars => RInv'
<1> SUFFICES ASSUME RInv, [RestartNext]_allvars PROVE RInv'
  OBVIOUS
<1>1. CASE UNCHANGED allvars
  <2>1. UNCHANGED <<sem, ring, loc, phase, call, named, stale, torn, living>>
    BY <1>1 DEF allvars, master
  <2>2. AnyRunType' /\ CapacityNeverGrows' /\ DeadAreOutside'
    BY <2>1 DEF RInv, AnyRunType, CapacityNeverGrows, InFlight, DeadAreOutside
  <2>3. NamesInOrder' /\ UsedIsNew' /\ NewSoFar'
    BY <2>1 DEF RInv, NamesInOrder, UsedIsNew, NewSoFar
  <2>4. Fresh' => IInv' BY <2>1, SameRingIInv DEF RInv, Fresh
  <2> QED BY <2>2, <2>3, <2>4 DEF RInv
<1>2. CASE RestartNext
  BY <1>2, CreateRInv, OpensRInv, EndsRInv, WorksRInv, DiesRInv DEF RestartNext
<1> QED BY <1>1, <1>2

\* The invariant of all runs, fresh and stale.
THEOREM RunsInvariant == RestartSpec => []RInv
BY InitRInv, NextRInv, PTL DEF RestartSpec

\* However many runs were killed, wherever in their calls, the semaphores never let in
\* more calls than the ring has slots, and as many again for each of the runs killed between
\* the unlinks of free and used.
THEOREM CapacityIsBounded == RestartSpec => []CapacityNeverGrows
BY RunsInvariant, PTL DEF RInv

-----------------------------------------------------------------------------
(* The refinement of a fresh run.  Reserving is Begin, the store is Put or *)
(* Get, unlocking is Return; locking, the loads and the posts are stutters.*)

\* A worker's frame is one of those CallsOfFrames speaks of.
LEMMA FrameOf ==
  ASSUME TypeOK, NEW w \in Workers
  PROVE  loc[w] = Frame(loc[w].at, loc[w].pizza, loc[w].head, loc[w].usage)
BY DEF TypeOK, Frame

\* A worker that goes on in the same call changes nothing its caller can see.
LEMMA SameCall ==
  ASSUME TypeOK, NEW w \in Workers, NEW f, Goto(w, f), CallOf(f) = CallOf(loc[w])
  PROVE  UNCHANGED Calls
<1>1. Calls' = [Calls EXCEPT ![w] = Calls[w]] BY CallMoves DEF TypeOK
<1> QED BY <1>1 DEF Calls

LEMMA NewRingIsEmpty == ring.usage = 0 /\ AllOutside => Fifo!Init
BY DEF AllOutside, Outside, Frame, Fifo!Init, Fifo!Idle, Contents, Calls, CallOf

LEMMA StepRefines == ASSUME IInv, Next PROVE [Fifo!Next]_<<Contents, Calls>>
<1>0. TypeOK BY DEF IInv
<1>1. ASSUME NEW w \in Workers, NEW z \in Pizzas, PutReserve(w, z) PROVE Fifo!Begin(w)
  <2>1. CallOf(loc[w]) = Fifo!Idle BY <1>0, <1>1, FrameOf, CallsOfFrames DEF PutReserve
  <2>2. Goto(w, Frame("reserved", z, 0, 0)) BY <1>1 DEF PutReserve
  <2>3. CallOf(Frame("reserved", z, 0, 0)) = Fifo!Putting(z) BY CallsOfFrames
  <2>4. Calls[w] = Fifo!Idle /\ Calls' = [Calls EXCEPT ![w] = Fifo!Putting(z)]
    BY <1>0, <2>1, <2>2, <2>3, CallMoves DEF TypeOK
  <2>5. UNCHANGED Contents BY <1>1 DEF PutReserve, Contents, Slot
  <2> QED BY <2>4, <2>5 DEF Fifo!Begin
<1>2. ASSUME NEW w \in Workers, GetReserve(w) PROVE Fifo!Begin(w)
  <2>1. CallOf(loc[w]) = Fifo!Idle BY <1>0, <1>2, FrameOf, CallsOfFrames DEF GetReserve
  <2>2. Goto(w, Frame("wanted", NoPizza, 0, 0)) BY <1>2 DEF GetReserve
  <2>3. CallOf(Frame("wanted", NoPizza, 0, 0)) = Fifo!Getting BY CallsOfFrames
  <2>4. Calls[w] = Fifo!Idle /\ Calls' = [Calls EXCEPT ![w] = Fifo!Getting]
    BY <1>0, <2>1, <2>2, <2>3, CallMoves DEF TypeOK
  <2>5. UNCHANGED Contents BY <1>2 DEF GetReserve, Contents, Slot
  <2> QED BY <2>4, <2>5 DEF Fifo!Begin
<1>3. ASSUME NEW w \in Workers, Lock(w) \/ Post(w) PROVE UNCHANGED <<Contents, Calls>>
  <2>1. PICK l : /\ Goto(w, [loc[w] EXCEPT !.at = l])
                 /\ \/ loc[w].at = "reserved" /\ l = "put"
                    \/ loc[w].at = "wanted" /\ l = "get"
                    \/ loc[w].at \in {"stored", "removed"} /\ l = "unlock"
    BY <1>3 DEF Lock, Post
  <2>2. [loc[w] EXCEPT !.at = l] = Frame(l, loc[w].pizza, loc[w].head, loc[w].usage)
    BY <1>0 DEF TypeOK, Frame
  <2>3. CallOf([loc[w] EXCEPT !.at = l]) = CallOf(loc[w])
    BY <1>0, <2>1, <2>2, FrameOf, CallsOfFrames
  <2>4. UNCHANGED Calls BY <1>0, <2>1, <2>3, SameCall
  <2>5. UNCHANGED Contents BY <1>3 DEF Lock, Post, Contents, Slot
  <2> QED BY <2>4, <2>5
<1>4. ASSUME NEW w \in Workers, PutLoad(w) \/ GetLoad(w) PROVE UNCHANGED <<Contents, Calls>>
  <2>1. PICK f : Goto(w, f) /\ CallOf(f) = CallOf(loc[w])
    BY <1>0, <1>4, FrameOf, CallsOfFrames DEF PutLoad, GetLoad
  <2>2. UNCHANGED Calls BY <1>0, <2>1, SameCall
  <2>3. UNCHANGED Contents BY <1>4 DEF PutLoad, GetLoad, Contents, Slot
  <2> QED BY <2>2, <2>3
<1>5. ASSUME NEW w \in Workers, PutStore(w)
      PROVE  loc[w].pizza \in Pizzas /\ Fifo!Put(w, loc[w].pizza)
  <2>1. /\ loc[w].pizza \in Pizzas /\ loc[w].usage = ring.usage /\ ring.usage < Size
        /\ ring.usage \in Nat
    BY <1>5, CallHasSlot DEF PutStore, IInv, TypeOK, RingType, Registers, Claimed
  <2>2. Contents' = Append(Contents, loc[w].pizza) BY <1>0, <1>5, <2>1, PutAppends DEF IInv, TypeOK
  <2>3. Len(Contents) = ring.usage /\ Len(Contents') = ring.usage + 1
    BY <1>0, <2>1, <2>2, ContentsSeq, AppendProperties DEF TypeOK
  <2>4. CallOf(loc[w]) = Fifo!Putting(loc[w].pizza)
    BY <1>0, <1>5, FrameOf, CallsOfFrames DEF PutStore
  <2>5. Goto(w, Frame("stored", loc[w].pizza, 0, ring.usage + 1)) BY <1>5, <2>1 DEF PutStore
  <2>6. CallOf(Frame("stored", loc[w].pizza, 0, ring.usage + 1))
          = Fifo!Returning(loc[w].pizza, ring.usage + 1)
    BY CallsOfFrames
  <2>7. /\ Calls[w] = Fifo!Putting(loc[w].pizza)
        /\ Calls' = [Calls EXCEPT ![w] = Fifo!Returning(loc[w].pizza, ring.usage + 1)]
    BY <1>0, <2>4, <2>5, <2>6, CallMoves DEF TypeOK
  <2> QED BY <2>1, <2>2, <2>3, <2>7 DEF Fifo!Put
<1>6. ASSUME NEW w \in Workers, GetStore(w) PROVE Fifo!Get(w)
  <2>1. loc[w].usage = ring.usage /\ ring.usage > 0
    BY <1>6, CallHasSlot DEF GetStore, IInv, Registers, Taken
  <2>2. Contents # <<>> /\ Head(Contents) = loc[w].pizza /\ Contents' = Tail(Contents)
    BY <1>0, <1>6, <2>1, GetTakesOldest DEF IInv, TypeOK
  <2>3. Len(Contents') = ring.usage - 1
    BY <1>0, <2>2, ContentsSeq, HeadTailProperties DEF TypeOK
  <2>4. CallOf(loc[w]) = Fifo!Getting BY <1>0, <1>6, FrameOf, CallsOfFrames DEF GetStore
  <2>5. Goto(w, Frame("removed", loc[w].pizza, 0, ring.usage - 1)) BY <1>6, <2>1 DEF GetStore
  <2>6. CallOf(Frame("removed", loc[w].pizza, 0, ring.usage - 1))
          = Fifo!Returning(loc[w].pizza, ring.usage - 1)
    BY CallsOfFrames
  <2>7. /\ Calls[w] = Fifo!Getting
        /\ Calls' = [Calls EXCEPT ![w] = Fifo!Returning(loc[w].pizza, ring.usage - 1)]
    BY <1>0, <2>4, <2>5, <2>6, CallMoves DEF TypeOK
  <2> QED BY <2>2, <2>3, <2>7 DEF Fifo!Get
<1>7. ASSUME NEW w \in Workers, Unlock(w) PROVE Fifo!Return(w)
  <2>1. CallOf(loc[w]) = Fifo!Returning(loc[w].pizza, loc[w].usage)
    BY <1>0, <1>7, FrameOf, CallsOfFrames DEF Unlock
  <2>2. Goto(w, Frame("out", NoPizza, 0, 0)) BY <1>7 DEF Unlock, Outside
  <2>3. CallOf(Frame("out", NoPizza, 0, 0)) = Fifo!Idle BY CallsOfFrames
  <2>4. Fifo!Returning(loc[w].pizza, loc[w].usage).op = "return" BY CallsOfFrames
  <2>5. Calls[w].op = "return" /\ Calls' = [Calls EXCEPT ![w] = Fifo!Idle]
    BY <1>0, <2>1, <2>2, <2>3, <2>4, CallMoves DEF TypeOK
  <2>6. UNCHANGED Contents BY <1>7 DEF Unlock, Contents, Slot
  <2> QED BY <2>5, <2>6 DEF Fifo!Return
<1>8. ASSUME NEW w \in Workers, NEW z \in Pizzas, PutReserve(w, z)
      PROVE  Fifo!Next
  BY <1>1, <1>8 DEF Fifo!Next
<1>9. ASSUME NEW w \in Workers, Lock(w) \/ Inner(w) \/ Post(w) \/ Unlock(w) \/ GetReserve(w)
      PROVE  Fifo!Next \/ UNCHANGED <<Contents, Calls>>
  BY <1>9, <1>2, <1>3, <1>4, <1>5, <1>6, <1>7 DEF Inner, Access, Fifo!Next
<1> QED BY <1>8, <1>9 DEF Next, Step

\* A run on new semaphores is a run of the bounded queue, and its invariants hold, whatever
\* happened to the runs before it.
THEOREM FreshRunsImplementFifo == RestartSpec => FreshRunsAreFifo
<1> DEFINE FreshStepIsFifo ==
      Fresh' => /\ (TypeOK /\ LockExcludes /\ SlotsReserved)'
                /\ IF Fresh THEN [Fifo!Next]_<<Contents, Calls>>
                   ELSE Contents' = <<>> /\ Calls' = [w \in Workers |-> [op |-> "idle"]]
<1>1. ASSUME RInv, RInv', RestartNext, Fresh' PROVE FreshStepIsFifo
  <2>1. (TypeOK /\ LockExcludes /\ SlotsReserved)' BY <1>1 DEF RInv, IInv
  <2>2. CASE Fresh
    <3>1. CASE \E w \in living : Works(w)
      <4>1. Next /\ IInv
        BY <1>1, <2>2, <3>1 DEF RInv, AnyRunType, Works, Next
      <4> QED BY <2>1, <2>2, <4>1, StepRefines
    <3>2. CASE UNCHANGED <<ring, loc>>
      <4>1. UNCHANGED <<Contents, Calls>> BY <3>2 DEF Contents, Slot, Calls
      <4> QED BY <2>1, <2>2, <4>1
    <3>3. CASE \E w \in living : Dies(w)
      <4>1. FALSE BY <1>1, <3>3 DEF Dies, Fresh, RInv, AnyRunType
      <4> QED BY <4>1
    <3> QED BY <1>1, <2>2, <3>1, <3>2, <3>3
        DEF RestartNext, pizzeria_create, Opens, Interrupted, Unlinks, Killed, Fresh
  <2>3. CASE ~Fresh
    <3>1. Opens /\ call = "lock" /\ phase = "create" /\ ~stale
      <4>1. RestartNext => Opens \/ UNCHANGED <<phase, stale, living>>
                             \/ (UNCHANGED <<stale, living>> /\ phase \in {"create", "run", "delete"})
                             \/ phase' = "create"
                             \/ \E w \in living : Dies(w)
        BY DEF RestartNext, pizzeria_create, Interrupted, Unlinks, Killed, Works, master
      <4>2. ~ \E w \in living : Dies(w) BY <1>1 DEF Dies, Fresh, RInv, AnyRunType
      <4>3. ASSUME UNCHANGED <<stale, living>>, phase = "create" PROVE FALSE
        BY <1>1, <4>3 DEF Fresh, RInv, NewSoFar
      <4>4. Opens BY <1>1, <2>3, <4>1, <4>2, <4>3 DEF Fresh
      <4> QED BY <1>1, <4>4 DEF Opens, Fresh
    <3>2. ring'.usage = 0 /\ AllOutside'
      <4>1. ring.usage = 0 /\ living = {} /\ UNCHANGED <<ring, loc>>
        BY <1>1, <3>1 DEF RInv, NewSoFar, Opens
      <4> QED BY <1>1, <4>1 DEF RInv, DeadAreOutside, AllOutside, AnyRunType
    <3>3. Fifo!Init'
      <4>1. (ring.usage = 0 /\ AllOutside => Fifo!Init)' BY NewRingIsEmpty, PTL
      <4> QED BY <3>2, <4>1
    <3> QED BY <2>1, <2>3, <3>3 DEF Fifo!Init, Fifo!Idle
  <2> QED BY <2>2, <2>3
<1>2. RInv /\ RInv' /\ [RestartNext]_allvars => [FreshStepIsFifo]_allvars BY <1>1
<1> HIDE DEF FreshStepIsFifo
<1>3. RestartSpec => [][FreshStepIsFifo]_allvars BY <1>2, RunsInvariant, PTL DEF RestartSpec
<1> QED BY <1>3 DEF FreshRunsAreFifo, FreshStepIsFifo
=============================================================================
