--------------------------- MODULE WorkshopProofs ---------------------------
(***************************************************************************)
(* Proofs about Workshop for any number of elves and reindeer, any size of *)
(* the group and any number of deliveries.                                 *)
(***************************************************************************)
EXTENDS Workshop, FiniteSetTheorems, TLAPS

\* Each kind of thread stays in its own part of the program.
Places ==
  /\ pc[Santa] \in {"sleep", "deliver", "drain", "help", "done"}
  /\ \A e \in Elves : pc[e] \in {"ready", "queued", "done"}
  /\ \A r \in Reindeer : pc[r] \in {"away", "harnessed", "done"}

\* What Santa relies on at each point of his round.
SantaKnows ==
  /\ reindeer_vacation_permits > 0 => pc[Santa] = "drain"
  /\ pc[Santa] = "deliver" => reindeers = N_REINDEER
  /\ pc[Santa] = "help" => elfs = Group
  /\ pc[Santa] = "done" => elfs < Group /\ stopped

\* The stop comes with the last delivery, whose permits are for the reindeer
\* that wait then and for no others.
StopKnows ==
  /\ stopped <=> delivered = Years
  /\ stopped => /\ pc[Santa] \in {"drain", "help", "done"}
                /\ reindeers = reindeer_vacation_permits

IInv ==
  TypeOK /\ CountersCountThreads /\ NoLostWakeup /\ Places /\ SantaKnows /\ StopKnows

-----------------------------------------------------------------------------
\* A part of a finite set of threads has a natural number of members, zero
\* only when it is empty and all of them only when it is the whole.
LEMMA Counts ==
  ASSUME NEW S, IsFiniteSet(S), NEW A \in SUBSET S
  PROVE  /\ IsFiniteSet(A)
         /\ Cardinality(A) \in 0..Cardinality(S)
         /\ Cardinality(S) \in Nat
         /\ Cardinality(A) = 0 <=> A = {}
         /\ Cardinality(A) = Cardinality(S) => A = S
<1>1. IsFiniteSet(A) /\ Cardinality(A) <= Cardinality(S) /\ (Cardinality(A) = Cardinality(S) => S = A)
  BY FS_Subset
<1>2. Cardinality(A) \in Nat /\ Cardinality(S) \in Nat BY <1>1, FS_CardinalityType
<1>3. Cardinality(A) = 0 <=> A = {} BY <1>1, FS_EmptySet
<1> QED BY <1>1, <1>2, <1>3

\* What Goto does to the threads, in the two ways the steps need it.
LEMMA GotoPointwise ==
  ASSUME TypeOK, NEW t \in Threads, NEW l, Goto(t, l)
  PROVE  \A u \in Threads : pc'[u] = IF u = t THEN l ELSE pc[u]
BY DEF Goto, TypeOK

LEMMA SantaMoves ==
  ASSUME TypeOK, NEW l, Goto(Santa, l)
  PROVE  Harnessed' = Harnessed /\ Queued' = Queued
BY GotoPointwise, ConstantsAssumption DEF Harnessed, Queued, Threads

LEMMA ElfMoves ==
  ASSUME TypeOK, NEW e \in Elves, NEW l, Goto(e, l)
  PROVE  /\ Harnessed' = Harnessed
         /\ pc[e] # "queued" /\ l = "queued" => Cardinality(Queued') = Cardinality(Queued) + 1
         /\ pc[e] = "queued" /\ l # "queued" => Cardinality(Queued') = Cardinality(Queued) - 1
         /\ pc[e] # "queued" /\ l # "queued" => Queued' = Queued
<1> USE ConstantsAssumption DEF Threads
<1>1. \A u \in Threads : pc'[u] = IF u = e THEN l ELSE pc[u] BY GotoPointwise
<1>2. Harnessed' = Harnessed BY <1>1 DEF Harnessed
<1>f. IsFiniteSet(Queued) BY FS_Subset DEF Queued
<1>3. CASE pc[e] # "queued" /\ l = "queued"
  <2>1. Queued' = Queued \cup {e} /\ e \notin Queued BY <1>1, <1>3 DEF Queued
  <2> QED BY <1>2, <1>3, <1>f, <2>1, FS_AddElement
<1>4. CASE pc[e] = "queued" /\ l # "queued"
  <2>1. Queued' = Queued \ {e} /\ e \in Queued BY <1>1, <1>4 DEF Queued
  <2> QED BY <1>2, <1>4, <1>f, <2>1, FS_RemoveElement
<1>5. CASE pc[e] # "queued" /\ l # "queued" BY <1>1, <1>2, <1>5 DEF Queued
<1> QED BY <1>2, <1>3, <1>4, <1>5

LEMMA ReindeerMoves ==
  ASSUME TypeOK, NEW r \in Reindeer, NEW l, Goto(r, l)
  PROVE  /\ Queued' = Queued
         /\ pc[r] # "harnessed" /\ l = "harnessed" => Cardinality(Harnessed') = Cardinality(Harnessed) + 1
         /\ pc[r] = "harnessed" /\ l # "harnessed" => Cardinality(Harnessed') = Cardinality(Harnessed) - 1
         /\ pc[r] # "harnessed" /\ l # "harnessed" => Harnessed' = Harnessed
<1> USE ConstantsAssumption DEF Threads
<1>1. \A u \in Threads : pc'[u] = IF u = r THEN l ELSE pc[u] BY GotoPointwise
<1>2. Queued' = Queued BY <1>1 DEF Queued
<1>f. IsFiniteSet(Harnessed) BY FS_Subset DEF Harnessed
<1>3. CASE pc[r] # "harnessed" /\ l = "harnessed"
  <2>1. Harnessed' = Harnessed \cup {r} /\ r \notin Harnessed BY <1>1, <1>3 DEF Harnessed
  <2> QED BY <1>2, <1>3, <1>f, <2>1, FS_AddElement
<1>4. CASE pc[r] = "harnessed" /\ l # "harnessed"
  <2>1. Harnessed' = Harnessed \ {r} /\ r \in Harnessed BY <1>1, <1>4 DEF Harnessed
  <2> QED BY <1>2, <1>4, <1>f, <2>1, FS_RemoveElement
<1>5. CASE pc[r] # "harnessed" /\ l # "harnessed" BY <1>1, <1>2, <1>5 DEF Harnessed
<1> QED BY <1>2, <1>3, <1>4, <1>5

LEMMA CountRanges ==
  /\ Cardinality(Harnessed) \in 0..N_REINDEER /\ N_REINDEER \in Nat \ {0}
  /\ Cardinality(Queued) \in Nat
<1> USE ConstantsAssumption
<1>1. Cardinality(Harnessed) \in 0..N_REINDEER /\ N_REINDEER \in Nat
  BY Counts, Harnessed \in SUBSET Reindeer DEF Harnessed, N_REINDEER
<1>2. N_REINDEER # 0 BY FS_EmptySet DEF N_REINDEER
<1>3. Cardinality(Queued) \in 0..Cardinality(Elves) /\ Cardinality(Elves) \in Nat
  BY Counts, Queued \in SUBSET Elves DEF Queued
<1> QED BY <1>1, <1>2, <1>3

-----------------------------------------------------------------------------
LEMMA InitIInv == Init => IInv
<1> SUFFICES ASSUME Init PROVE IInv OBVIOUS
<1> USE ConstantsAssumption
<1>1. N_REINDEER \in Nat BY CountRanges
<1>2. Places BY DEF Init, Places, Threads
<1>3. Cardinality(Harnessed) = 0 /\ Cardinality(Queued) = 0
  <2>1. \A r \in Reindeer : pc[r] # "harnessed" BY DEF Init, Threads
  <2>2. \A e \in Elves : pc[e] # "queued" BY DEF Init, Threads
  <2>3. Harnessed = {} /\ Queued = {} BY <2>1, <2>2 DEF Harnessed, Queued
  <2> QED BY <2>3, FS_EmptySet
<1>4. TypeOK
  <2>1. pc \in [Threads -> {"sleep", "deliver", "drain", "help", "ready", "queued",
                            "away", "harnessed", "done"}]
    BY DEF Init
  <2>2. /\ waiting = {} /\ stopped = FALSE
        /\ reindeers = 0 /\ reindeer_vacation_permits = 0
        /\ elfs = 0 /\ elf_helps = 0 /\ delivered = 0
    BY DEF Init
  <2>3. waiting \subseteq Threads /\ stopped \in BOOLEAN BY <2>2
  <2>4. /\ reindeers \in 0..N_REINDEER /\ reindeer_vacation_permits \in 0..N_REINDEER
        /\ elfs \in 0..Group /\ elf_helps \in Nat /\ delivered \in 0..Years
    BY <1>1, <2>2
  <2> QED BY <2>1, <2>3, <2>4 DEF TypeOK
<1>5. CountersCountThreads BY <1>3 DEF Init, CountersCountThreads
<1>6. NoLostWakeup BY DEF Init, NoLostWakeup
<1>7. SantaKnows /\ StopKnows BY DEF Init, SantaKnows, StopKnows, Threads
<1> QED BY <1>2, <1>4, <1>5, <1>6, <1>7 DEF IInv

\* A thread blocks only when what it waits for is false.
LEMMA BlockStep ==
  ASSUME IInv, NEW t \in Threads, ~CanProceed(t), Block(t)
  PROVE  IInv'
<1> USE DEF IInv, Block, shared
<1>1. TypeOK' BY DEF TypeOK
<1>2. CountersCountThreads' BY DEF CountersCountThreads, Harnessed, Queued
<1>3. NoLostWakeup' BY DEF NoLostWakeup, CanProceed
<1>4. Places' /\ SantaKnows' /\ StopKnows' BY DEF Places, SantaKnows, StopKnows
<1> QED BY <1>1, <1>2, <1>3, <1>4

LEMMA SpuriousStep ==
  ASSUME IInv, NEW t \in Threads, SpuriousWakeup(t)
  PROVE  IInv'
<1> USE DEF IInv, SpuriousWakeup, shared
<1>1. TypeOK' BY DEF TypeOK
<1>2. CountersCountThreads' BY DEF CountersCountThreads, Harnessed, Queued
<1>3. NoLostWakeup' BY DEF NoLostWakeup, CanProceed
<1>4. Places' /\ SantaKnows' /\ StopKnows' BY DEF Places, SantaKnows, StopKnows
<1> QED BY <1>1, <1>2, <1>3, <1>4

-----------------------------------------------------------------------------
(* Santa's steps.                                                          *)

\* The choice at the top of Santa's loop, taken with the mutex held: the
\* counters are those he reads, except elfs, which the caller may have set.
LEMMA SantaSleepStep ==
  ASSUME IInv, Santa \notin waiting,
         reindeer_vacation_permits = 0,
         UNCHANGED <<stopped, reindeers, reindeer_vacation_permits, delivered>>,
         elfs' \in 0..Group, elf_helps' \in Nat,
         elfs' + elf_helps' = elfs + elf_helps,
         stopped => elfs' < Group,
         NEW blocked, SantaSleep(elfs', blocked),
         \/ blocked = {}
         \/ blocked = waiting /\ elfs' = elfs /\ elf_helps' = elf_helps
  PROVE  IInv'
<1> USE ConstantsAssumption, CountRanges
<1> DEFINE l == pc'[Santa]
<1>1. /\ Goto(Santa, l)
      /\ l \in {"done", "deliver", "help", "sleep"}
      /\ waiting' \subseteq blocked \cup {Santa}
      /\ l # "sleep" => waiting' = blocked
  BY DEF SantaSleep, Goto, IInv, TypeOK, Threads
<1>2. \A u \in Threads : pc'[u] = IF u = Santa THEN l ELSE pc[u]
  BY <1>1, GotoPointwise DEF IInv, Threads
<1>3. Harnessed' = Harnessed /\ Queued' = Queued BY <1>1, SantaMoves DEF IInv
<1>4. TypeOK'
  <2>1. pc' \in [Threads -> {"sleep", "deliver", "drain", "help", "ready", "queued",
                             "away", "harnessed", "done"}]
    BY <1>1 DEF Goto, IInv, TypeOK
  <2>2. waiting' \subseteq Threads BY <1>1 DEF IInv, TypeOK, Threads
  <2> QED BY <2>1, <2>2 DEF IInv, TypeOK
<1>5. CountersCountThreads' BY <1>3 DEF IInv, CountersCountThreads
<1>6. Places' BY <1>1, <1>2 DEF IInv, Places, Threads
<1>7. SantaKnows'
  BY <1>1, <1>2 DEF IInv, SantaKnows, SantaSleep, Goto, TypeOK, Threads
<1>8. StopKnows'
  BY <1>1, <1>2 DEF IInv, StopKnows, SantaSleep, Goto, TypeOK, Threads
<1>9. NoLostWakeup'
  <2> SUFFICES ASSUME NEW t \in waiting' PROVE ~CanProceed(t)' BY DEF NoLostWakeup
  <2>1. CASE t = Santa
    <3>1. ~stopped /\ reindeers # N_REINDEER /\ elfs' # Group /\ l = "sleep"
      BY <2>1, <1>1 DEF SantaSleep, Goto, IInv, TypeOK, Threads
    <3> QED BY <2>1, <3>1 DEF CanProceed
  <2>2. CASE t # Santa
    <3>1. t \in waiting /\ elfs' = elfs /\ elf_helps' = elf_helps BY <2>2, <1>1
    <3>2. t \in Threads /\ pc'[t] = pc[t] BY <3>1, <2>2, <1>2 DEF IInv, TypeOK
    <3>3. ~CanProceed(t) BY <3>1 DEF IInv, NoLostWakeup
    <3> QED BY <3>1, <3>2, <3>3 DEF CanProceed
  <2> QED BY <2>1, <2>2
<1> QED BY <1>4, <1>5, <1>6, <1>7, <1>8, <1>9 DEF IInv

LEMMA SantaWakesStep == ASSUME IInv, SantaWakes PROVE IInv'
<1>1. reindeer_vacation_permits = 0 /\ ~stopped
  BY DEF IInv, SantaWakes, Running, SantaKnows, StopKnows, TypeOK
<1> QED BY <1>1, SantaSleepStep DEF SantaWakes, Running, IInv, TypeOK, shared

LEMMA SantaHelpedStep == ASSUME IInv, SantaHelped PROVE IInv'
<1> USE ConstantsAssumption
<1>1. reindeer_vacation_permits = 0 /\ elfs = Group
  BY DEF IInv, SantaHelped, Running, SantaKnows, TypeOK
<1>2. elfs' = 0 /\ elf_helps' \in Nat /\ elfs' + elf_helps' = elfs + elf_helps
  BY <1>1 DEF SantaHelped, IInv, TypeOK
<1> QED BY <1>1, <1>2, SantaSleepStep DEF SantaHelped, Running

LEMMA SantaDeliveredStep == ASSUME IInv, SantaDelivered PROVE IInv'
<1> USE ConstantsAssumption, CountRanges
<1>1. /\ reindeer_vacation_permits = 0 /\ reindeers = N_REINDEER
      /\ ~stopped /\ delivered < Years
  BY DEF IInv, SantaDelivered, Running, SantaKnows, StopKnows, TypeOK
<1>2. Goto(Santa, "drain") /\ waiting' = {Santa} BY DEF SantaDelivered
<1>3. \A u \in Threads : pc'[u] = IF u = Santa THEN "drain" ELSE pc[u]
  BY <1>2, GotoPointwise DEF IInv, Threads
<1>4. Harnessed' = Harnessed /\ Queued' = Queued BY <1>2, SantaMoves DEF IInv
<1>5. TypeOK'
  <2>1. pc' \in [Threads -> {"sleep", "deliver", "drain", "help", "ready", "queued",
                             "away", "harnessed", "done"}]
    BY <1>2 DEF Goto, IInv, TypeOK
  <2>2. waiting' \subseteq Threads BY <1>2 DEF Threads
  <2> QED BY <1>1, <2>1, <2>2 DEF IInv, TypeOK, SantaDelivered
<1>s. /\ delivered' = delivered + 1 /\ stopped' = (stopped \/ delivered + 1 >= Years)
      /\ reindeer_vacation_permits' = N_REINDEER
      /\ UNCHANGED <<reindeers, elfs, elf_helps>>
  BY <1>1 DEF SantaDelivered
<1>6. CountersCountThreads'
  <2>1. reindeers = Cardinality(Harnessed) /\ elfs + elf_helps = Cardinality(Queued)
    BY DEF IInv, CountersCountThreads
  <2>2. reindeer_vacation_permits' <= reindeers' BY <1>1, <1>s
  <2> QED BY <1>4, <1>s, <2>1, <2>2 DEF CountersCountThreads
<1>7. Places' BY <1>3 DEF IInv, Places, Threads
<1>8. SantaKnows' BY <1>3 DEF SantaKnows, Threads
<1>9. StopKnows'
  <2>1. pc'[Santa] = "drain" BY <1>3 DEF Threads
  <2>2. delivered \in Nat BY DEF IInv, TypeOK
  <2>3. stopped' <=> delivered' = Years
    <3>1. delivered + 1 >= Years <=> delivered + 1 = Years BY <1>1, <2>2
    <3> QED BY <1>1, <1>s, <3>1
  <2>4. reindeers' = reindeer_vacation_permits' BY <1>1, <1>s
  <2> QED BY <2>1, <2>3, <2>4 DEF StopKnows
<1>10. NoLostWakeup'
  BY <1>1, <1>2, <1>3 DEF NoLostWakeup, CanProceed, SantaDelivered, Threads
<1> QED BY <1>5, <1>6, <1>7, <1>8, <1>9, <1>10 DEF IInv

LEMMA SantaDrainsStep == ASSUME IInv, SantaDrains PROVE IInv'
<1> USE ConstantsAssumption, CountRanges
<1>a. pc[Santa] = "drain" /\ Santa \notin waiting BY DEF SantaDrains, Running
<1>1. CASE reindeer_vacation_permits > 0
  <2>1. ~CanProceed(Santa) BY <1>1, <1>a DEF CanProceed, IInv, TypeOK
  <2>2. Block(Santa) BY <1>1 DEF SantaDrains, IInv, TypeOK
  <2> QED BY <2>1, <2>2, BlockStep DEF Threads
<1>2. CASE reindeer_vacation_permits = 0 /\ elfs # Group
  <2>1. SantaSleep(elfs, waiting) /\ UNCHANGED <<shared, delivered>> BY <1>2 DEF SantaDrains
  <2>2. elfs' = elfs /\ elfs < Group BY <2>1, <1>2 DEF shared, IInv, TypeOK
  <2> QED BY <1>a, <1>2, <2>1, <2>2, SantaSleepStep DEF shared, IInv, TypeOK
<1>3. CASE reindeer_vacation_permits = 0 /\ elfs = Group
  <2>1. Goto(Santa, "help") /\ UNCHANGED <<waiting, shared, delivered>>
    BY <1>3 DEF SantaDrains
  <2>2. \A u \in Threads : pc'[u] = IF u = Santa THEN "help" ELSE pc[u]
    BY <2>1, GotoPointwise DEF IInv, Threads
  <2>3. Harnessed' = Harnessed /\ Queued' = Queued BY <2>1, SantaMoves DEF IInv
  <2>4. TypeOK' BY <2>1 DEF Goto, IInv, TypeOK, shared
  <2>5. CountersCountThreads' BY <2>1, <2>3 DEF IInv, CountersCountThreads, shared
  <2>6. Places' BY <2>2 DEF IInv, Places, Threads
  <2>7. SantaKnows' BY <1>3, <2>1, <2>2 DEF SantaKnows, Threads, shared
  <2>8. StopKnows' BY <2>1, <2>2 DEF IInv, StopKnows, Threads, shared
  <2>9. NoLostWakeup'
    BY <1>a, <2>1, <2>2 DEF IInv, TypeOK, NoLostWakeup, CanProceed, Threads, shared
  <2> QED BY <2>4, <2>5, <2>6, <2>7, <2>8, <2>9 DEF IInv
<1> QED BY <1>1, <1>2, <1>3 DEF IInv, TypeOK

-----------------------------------------------------------------------------
(* The elves' and the reindeer's steps.                                    *)

\* A thread other than Santa moves and wakes everybody, or ends with nothing
\* changed: what the invariant needs of the counters it leaves.
LEMMA WorkerStep ==
  ASSUME IInv, NEW t \in Elves \cup Reindeer, t \notin waiting,
         NEW l, Goto(t, l),
         l \in IF t \in Elves THEN {"ready", "queued", "done"} ELSE {"away", "harnessed", "done"},
         \/ waiting' \subseteq {t} /\ (t \in waiting' => ~CanProceed(t)')
         \/ UNCHANGED <<waiting, shared>>,
         UNCHANGED <<stopped, delivered>>,
         reindeer_vacation_permits' \in Nat, elfs' \in 0..Group, elf_helps' \in Nat,
         CountersCountThreads',
         reindeer_vacation_permits' > 0 => reindeer_vacation_permits > 0,
         pc[Santa] = "deliver" => reindeers' = reindeers,
         pc[Santa] = "help" => elfs' = elfs,
         stopped => elfs' = elfs /\ reindeers' = reindeer_vacation_permits'
  PROVE  IInv'
<1> USE ConstantsAssumption
<1>1. \A u \in Threads : pc'[u] = IF u = t THEN l ELSE pc[u]
  BY GotoPointwise DEF IInv, Threads
<1>2. TypeOK'
  <2>1. pc' \in [Threads -> {"sleep", "deliver", "drain", "help", "ready", "queued",
                             "away", "harnessed", "done"}]
    BY DEF Goto, IInv, TypeOK
  <2>2. waiting' \subseteq Threads BY DEF IInv, TypeOK, Threads
  <2>3. Harnessed' \in SUBSET Reindeer BY DEF Harnessed
  <2>4. Cardinality(Harnessed') \in 0..N_REINDEER BY <2>3, Counts DEF N_REINDEER
  <2>5. reindeers' \in 0..N_REINDEER /\ reindeer_vacation_permits' \in 0..N_REINDEER
    BY <2>4, CountRanges DEF CountersCountThreads
  <2> QED BY <2>1, <2>2, <2>5 DEF IInv, TypeOK
<1>3. Places' BY <1>1 DEF IInv, Places, Threads
<1>4. SantaKnows'
  BY <1>1 DEF IInv, TypeOK, SantaKnows, Threads
<1>5. StopKnows' BY <1>1 DEF IInv, StopKnows, Threads
<1>6. NoLostWakeup'
  <2> SUFFICES ASSUME NEW u \in waiting' PROVE ~CanProceed(u)' BY DEF NoLostWakeup
  <2>1. CASE u = t BY <2>1
  <2>2. CASE u # t
    <3>1. UNCHANGED <<waiting, shared>> /\ u \in waiting BY <2>2
    <3>2. u \in Threads /\ pc'[u] = pc[u] BY <3>1, <2>2, <1>1 DEF IInv, TypeOK
    <3> QED BY <3>1, <3>2 DEF IInv, NoLostWakeup, CanProceed, shared
  <2> QED BY <2>1, <2>2
<1> QED BY <1>2, <1>3, <1>4, <1>5, <1>6 DEF IInv

LEMMA ElfQueuesStep == ASSUME IInv, NEW e \in Elves, ElfQueues(e) PROVE IInv'
<1> USE ConstantsAssumption, CountRanges
<1>a. pc[e] = "ready" /\ e \notin waiting BY DEF ElfQueues, Running
<1>1. CASE ~stopped /\ elfs >= Group
  <2>1. ~CanProceed(e) BY <1>1, <1>a DEF CanProceed, IInv, TypeOK
  <2>2. Block(e) BY <1>1 DEF ElfQueues, IInv, TypeOK
  <2> QED BY <2>1, <2>2, BlockStep DEF Threads
<1>2. CASE stopped
  <2>1. Goto(e, "done") /\ UNCHANGED <<waiting, shared, delivered>> BY <1>2 DEF ElfQueues
  <2>2. Harnessed' = Harnessed /\ Queued' = Queued BY <1>a, <2>1, ElfMoves DEF IInv
  <2>3. CountersCountThreads' BY <2>1, <2>2 DEF IInv, CountersCountThreads, shared
  <2> QED BY <1>a, <1>2, <2>1, <2>3, WorkerStep DEF IInv, TypeOK, StopKnows, shared
<1>3. CASE ~stopped /\ elfs < Group
  <2>1. elfs' = elfs + 1 /\ UNCHANGED <<stopped, reindeers, reindeer_vacation_permits, delivered>>
    BY <1>3 DEF ElfQueues, IInv, TypeOK
  <2>2. pc[Santa] # "help" BY <1>3 DEF IInv, SantaKnows, TypeOK
  <2>3. elfs' \in 0..Group BY <1>3, <2>1 DEF IInv, TypeOK
  <2>4. CASE elf_helps > 0
    <3>1. elf_helps' = elf_helps - 1 /\ Goto(e, "ready") /\ waiting' = {}
      BY <1>3, <2>4 DEF ElfQueues, TakeHelp, Broadcast, IInv, TypeOK
    <3>2. Harnessed' = Harnessed /\ Queued' = Queued BY <1>a, <3>1, ElfMoves DEF IInv
    <3>3. CountersCountThreads' BY <2>1, <3>1, <3>2 DEF IInv, TypeOK, CountersCountThreads
    <3>4. elf_helps' \in Nat /\ reindeer_vacation_permits' \in Nat BY <2>1, <2>4, <3>1 DEF IInv, TypeOK
    <3> QED BY <1>a, <1>3, <2>1, <2>2, <2>3, <3>1, <3>3, <3>4, WorkerStep
  <2>5. CASE elf_helps = 0
    <3>1. elf_helps' = elf_helps /\ Goto(e, "queued") /\ waiting' = {e}
      BY <1>3, <2>5 DEF ElfQueues, IInv, TypeOK
    <3>2. Harnessed' = Harnessed /\ Cardinality(Queued') = Cardinality(Queued) + 1
      BY <1>a, <3>1, ElfMoves DEF IInv
    <3>3. CountersCountThreads' BY <2>1, <3>1, <3>2 DEF IInv, TypeOK, CountersCountThreads
    <3>4. elf_helps' \in Nat /\ reindeer_vacation_permits' \in Nat BY <2>1, <2>5, <3>1 DEF IInv, TypeOK
    <3>5. ~CanProceed(e)'
      <4>1. pc'[e] = "queued" BY <3>1, GotoPointwise DEF IInv, Threads
      <4> QED BY <4>1, <2>5, <3>1 DEF CanProceed
    <3> QED BY <1>a, <1>3, <2>1, <2>2, <2>3, <3>1, <3>3, <3>4, <3>5, WorkerStep
  <2> QED BY <2>4, <2>5 DEF IInv, TypeOK
<1> QED BY <1>1, <1>2, <1>3 DEF IInv, TypeOK

LEMMA ElfGetsHelpStep == ASSUME IInv, NEW e \in Elves, ElfGetsHelp(e) PROVE IInv'
<1> USE ConstantsAssumption, CountRanges
<1>a. pc[e] = "queued" /\ e \notin waiting BY DEF ElfGetsHelp, Running
<1>1. CASE elf_helps = 0
  <2>1. ~CanProceed(e) BY <1>1, <1>a DEF CanProceed
  <2>2. Block(e) BY <1>1 DEF ElfGetsHelp
  <2> QED BY <2>1, <2>2, BlockStep DEF Threads
<1>2. CASE elf_helps > 0
  <2> DEFINE l == IF stopped THEN "done" ELSE "ready"
  <2>1. /\ elf_helps' = elf_helps - 1 /\ Goto(e, l) /\ waiting' = {}
        /\ UNCHANGED <<stopped, reindeers, reindeer_vacation_permits, elfs, delivered>>
    BY <1>2 DEF ElfGetsHelp, TakeHelp, Broadcast
  <2>2. l # "queued" /\ l \in {"ready", "queued", "done"} OBVIOUS
  <2> HIDE DEF l
  <2>3. Harnessed' = Harnessed /\ Cardinality(Queued') = Cardinality(Queued) - 1
    BY <1>a, <2>1, <2>2, ElfMoves DEF IInv
  <2>4. CountersCountThreads' BY <2>1, <2>3 DEF IInv, TypeOK, CountersCountThreads
  <2>5. elf_helps' \in Nat /\ reindeer_vacation_permits' \in Nat /\ elfs' \in 0..Group
    BY <1>2, <2>1 DEF IInv, TypeOK
  <2>6. stopped => reindeers' = reindeer_vacation_permits' BY <2>1 DEF IInv, StopKnows
  <2> QED BY <1>a, <2>1, <2>2, <2>4, <2>5, <2>6, WorkerStep
<1> QED BY <1>1, <1>2 DEF IInv, TypeOK

LEMMA ReindeerReturnsStep == ASSUME IInv, NEW r \in Reindeer, ReindeerReturns(r) PROVE IInv'
<1> USE ConstantsAssumption, CountRanges
<1>a. pc[r] = "away" /\ r \notin waiting /\ r \notin Elves BY DEF ReindeerReturns, Running
<1>1. CASE stopped
  <2>1. Goto(r, "done") /\ UNCHANGED <<waiting, shared, delivered>> BY <1>1 DEF ReindeerReturns
  <2>2. Harnessed' = Harnessed /\ Queued' = Queued BY <1>a, <2>1, ReindeerMoves DEF IInv
  <2>3. CountersCountThreads' BY <2>1, <2>2 DEF IInv, CountersCountThreads, shared
  <2> QED BY <1>a, <1>1, <2>1, <2>3, WorkerStep DEF IInv, TypeOK, StopKnows, shared
<1>2. CASE ~stopped
  <2>1. UNCHANGED <<stopped, elfs, elf_helps, delivered>> BY <1>2 DEF ReindeerReturns
  <2>2. elfs' \in 0..Group /\ elf_helps' \in Nat BY <2>1 DEF IInv, TypeOK
  <2>3. CASE reindeer_vacation_permits > 0
    <3>1. /\ reindeer_vacation_permits' = reindeer_vacation_permits - 1
          /\ reindeers' = reindeers + 1 - 1 /\ Goto(r, "away") /\ waiting' = {}
      BY <1>2, <2>3 DEF ReindeerReturns, Leave, Broadcast, IInv, TypeOK
    <3>2. Harnessed' = Harnessed /\ Queued' = Queued BY <1>a, <3>1, ReindeerMoves DEF IInv
    <3>3. reindeers' = reindeers /\ reindeer_vacation_permits' \in Nat
      BY <2>3, <3>1 DEF IInv, TypeOK
    <3>4. CountersCountThreads' BY <2>1, <3>1, <3>2, <3>3 DEF IInv, TypeOK, CountersCountThreads
    <3> QED BY <1>a, <1>2, <2>1, <2>2, <2>3, <3>1, <3>3, <3>4, WorkerStep
  <2>4. CASE reindeer_vacation_permits = 0
    <3>1. /\ reindeer_vacation_permits' = 0
          /\ reindeers' = reindeers + 1 /\ Goto(r, "harnessed") /\ waiting' = {r}
      BY <1>2, <2>4 DEF ReindeerReturns, IInv, TypeOK
    <3>2. Queued' = Queued /\ Cardinality(Harnessed') = Cardinality(Harnessed) + 1
      BY <1>a, <3>1, ReindeerMoves DEF IInv
    <3>3. CountersCountThreads' BY <2>1, <3>1, <3>2 DEF IInv, TypeOK, CountersCountThreads
    <3>4. ~CanProceed(r)'
      <4>1. pc'[r] = "harnessed" BY <3>1, GotoPointwise DEF IInv, Threads
      <4> QED BY <4>1, <3>1 DEF CanProceed
    <3>5. pc[Santa] # "deliver"
      <4>1. r \notin Harnessed BY <1>a DEF Harnessed
      <4>2. Cardinality(Harnessed) # N_REINDEER
        BY <4>1, Counts, Harnessed \in SUBSET Reindeer DEF N_REINDEER, Harnessed
      <4> QED BY <4>2 DEF IInv, SantaKnows, CountersCountThreads
    <3> QED BY <1>a, <1>2, <2>1, <2>2, <3>1, <3>3, <3>4, <3>5, WorkerStep
  <2> QED BY <2>3, <2>4 DEF IInv, TypeOK
<1> QED BY <1>1, <1>2

LEMMA ReindeerLeavesStep == ASSUME IInv, NEW r \in Reindeer, ReindeerLeaves(r) PROVE IInv'
<1> USE ConstantsAssumption, CountRanges
<1>a. pc[r] = "harnessed" /\ r \notin waiting /\ r \notin Elves BY DEF ReindeerLeaves, Running
<1>1. CASE reindeer_vacation_permits = 0
  <2>1. ~CanProceed(r) BY <1>1, <1>a DEF CanProceed
  <2>2. Block(r) BY <1>1 DEF ReindeerLeaves
  <2> QED BY <2>1, <2>2, BlockStep DEF Threads
<1>2. CASE reindeer_vacation_permits > 0
  <2>1. /\ reindeer_vacation_permits' = reindeer_vacation_permits - 1
        /\ reindeers' = reindeers - 1 /\ Goto(r, "away") /\ waiting' = {}
        /\ UNCHANGED <<stopped, elfs, elf_helps, delivered>>
    BY <1>2 DEF ReindeerLeaves, Leave, Broadcast
  <2>2. Queued' = Queued /\ Cardinality(Harnessed') = Cardinality(Harnessed) - 1
    BY <1>a, <2>1, ReindeerMoves DEF IInv
  <2>3. CountersCountThreads' BY <2>1, <2>2 DEF IInv, TypeOK, CountersCountThreads
  <2>4. reindeer_vacation_permits' \in Nat /\ elfs' \in 0..Group /\ elf_helps' \in Nat
    BY <1>2, <2>1 DEF IInv, TypeOK
  <2>5. pc[Santa] = "drain" BY <1>2 DEF IInv, SantaKnows
  <2>6. stopped => reindeers' = reindeer_vacation_permits' BY <2>1 DEF IInv, StopKnows
  <2> QED BY <1>a, <1>2, <2>1, <2>3, <2>4, <2>5, <2>6, WorkerStep
<1> QED BY <1>1, <1>2 DEF IInv, TypeOK

-----------------------------------------------------------------------------
LEMMA NextIInv == IInv /\ [Next]_vars => IInv'
<1> SUFFICES ASSUME IInv, [Next]_vars PROVE IInv' OBVIOUS
<1>1. CASE SantaTask
  BY <1>1, SantaWakesStep, SantaDeliveredStep, SantaDrainsStep, SantaHelpedStep DEF SantaTask
<1>2. CASE \E e \in Elves : ElfTask(e) BY <1>2, ElfQueuesStep, ElfGetsHelpStep DEF ElfTask
<1>3. CASE \E r \in Reindeer : ReindeerTask(r)
  BY <1>3, ReindeerReturnsStep, ReindeerLeavesStep DEF ReindeerTask
<1>4. CASE \E t \in Threads : SpuriousWakeup(t) BY <1>4, SpuriousStep
<1>5. CASE UNCHANGED vars
  <2>1. TypeOK' /\ CountersCountThreads'
    BY <1>5 DEF vars, shared, IInv, TypeOK, CountersCountThreads, Harnessed, Queued
  <2>2. NoLostWakeup' BY <1>5 DEF vars, shared, IInv, NoLostWakeup, CanProceed
  <2>3. Places' /\ SantaKnows' /\ StopKnows'
    BY <1>5 DEF vars, shared, IInv, Places, SantaKnows, StopKnows
  <2> QED BY <2>1, <2>2, <2>3 DEF IInv
<1> QED BY <1>1, <1>2, <1>3, <1>4, <1>5 DEF Next

LEMMA InductiveInvariant == Spec => []IInv
BY InitIInv, NextIInv, PTL DEF Spec

\* Type correctness: no counter of workshop.c leaves its range.
THEOREM TypeCorrect == Spec => []TypeOK
BY InductiveInvariant, PTL DEF IInv

\* The counters of workshop.c count the threads that wait.
THEOREM CountersAreRight == Spec => []CountersCountThreads
BY InductiveInvariant, PTL DEF IInv

\* No wake-up is lost on the one condition variable the threads share.
THEOREM WakeupsAreNotLost == Spec => []NoLostWakeup
BY InductiveInvariant, PTL DEF IInv

\* Presents are only ever delivered by the whole team.
THEOREM DeliveryNeedsWholeTeam == Spec => []WholeTeamDelivers
<1>1. IInv => WholeTeamDelivers
  <2> SUFFICES ASSUME IInv, pc[Santa] = "deliver"
               PROVE  Harnessed = Reindeer /\ reindeer_vacation_permits = 0
    BY DEF WholeTeamDelivers, Harnessed
  <2>1. Cardinality(Harnessed) = Cardinality(Reindeer)
    BY DEF IInv, SantaKnows, CountersCountThreads, N_REINDEER
  <2>2. Harnessed = Reindeer
    BY <2>1, Counts, ConstantsAssumption, Harnessed \in SUBSET Reindeer DEF Harnessed
  <2> QED BY <2>2 DEF IInv, SantaKnows, TypeOK
<1> QED BY <1>1, InductiveInvariant, PTL

\* When Santa has stopped he owes no reindeer a permit and no group help.
THEOREM NobodyOwed == Spec => []NobodyOwedWhenSantaStops
<1>1. IInv => NobodyOwedWhenSantaStops
  <2> SUFFICES ASSUME IInv, pc[Santa] = "done"
               PROVE  /\ stopped /\ reindeer_vacation_permits = 0
                      /\ Harnessed = {} /\ elfs < Group
    BY DEF NobodyOwedWhenSantaStops
  <2>1. stopped /\ elfs < Group /\ reindeer_vacation_permits = 0 /\ reindeers = 0
    BY DEF IInv, SantaKnows, StopKnows, TypeOK
  <2>2. Harnessed = {}
    <3>1. Cardinality(Harnessed) = 0 BY <2>1 DEF IInv, CountersCountThreads
    <3>2. Harnessed \in SUBSET Reindeer BY DEF Harnessed
    <3> QED BY <3>1, <3>2, Counts, ConstantsAssumption
  <2> QED BY <2>1, <2>2
<1> QED BY <1>1, InductiveInvariant, PTL
=============================================================================
