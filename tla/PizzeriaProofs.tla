--------------------------- MODULE PizzeriaProofs ---------------------------
(***************************************************************************)
(* No pizza of the pizzeria is lost or doubled, no cook waits at an empty  *)
(* furnace, and a SIGINT leaves nobody inside a ring with another, for any *)
(* number of cooks, deliverers and pizzas and any sizes of the rings.      *)
(*                                                                         *)
(* The two rings keep the invariant of SemRingProofs as long as their      *)
(* semaphores exist.  Posture says which hand each worker has its pizza in *)
(* at each place of its loop, so that every step moves one pizza at most.  *)
(***************************************************************************)
EXTENDS Pizzeria, FiniteSetTheorems, SequenceTheorems, TLAPS

FP == INSTANCE SemRingProofs WITH
        Workers <- Cooks, Size <- FURNACE_SIZE,
        sem <- furnaceSem, ring <- furnace, loc <- furnaceLoc
TP == INSTANCE SemRingProofs WITH
        Size <- TABLE_SIZE, sem <- tableSem, ring <- table, loc <- tableLoc

\* the rings, with and without their semaphores
Rings ==
  /\ FP!Wide /\ TP!Wide
  /\ ~removed => FP!IInv /\ TP!IInv

Loops ==
  /\ pc \in [Workers -> {"prepare", "put", "putting", "bake", "getting", "serve", "serving",
                         "take", "taking", "deliver"}]
  /\ pizza \in [Workers -> Pizzas \cup {NoPizza}]
  /\ made \subseteq Pizzas /\ received \subseteq Signals
  /\ master \in {"wait", "delete", "gone"}
  /\ life \in [Workers -> {"alive", "dying", "dead"}]

\* where a cook is in the furnace and on the table, and whether it has a pizza in its hands
CookPosture(c) ==
  /\ pc[c] \in {"prepare", "put", "putting", "bake", "getting", "serve", "serving"}
  /\ pc[c] = "putting" => furnaceLoc[c].at \in {"put", "store", "stored"}
  /\ pc[c] = "getting" => furnaceLoc[c].at \in {"get", "remove", "removed"}
  /\ pc[c] \notin {"putting", "getting"} => furnaceLoc[c].at = "out"
  /\ IF pc[c] = "serving" THEN tableLoc[c].at \in {"put", "store", "stored"}
                          ELSE tableLoc[c].at = "out"
  /\ IF pc[c] \in {"put", "serve"} THEN pizza[c] \in Pizzas ELSE pizza[c] = NoPizza
  /\ furnaceLoc[c].at = "removed" => furnaceLoc[c].pizza \in Pizzas

JanuszPosture(j) ==
  /\ pc[j] \in {"take", "taking", "deliver"}
  /\ IF pc[j] = "taking" THEN tableLoc[j].at \in {"get", "remove", "removed"}
                         ELSE tableLoc[j].at = "out"
  /\ IF pc[j] = "deliver" THEN pizza[j] \in Pizzas ELSE pizza[j] = NoPizza
  /\ tableLoc[j].at = "removed" => tableLoc[j].pizza \in Pizzas

Posture ==
  /\ \A c \in Cooks : CookPosture(c)
  /\ \A j \in Janusze : JanuszPosture(j)

\* between the heads there are pizzas
RingsHoldPizzas ==
  /\ \A i \in DOMAIN FP!Contents : FP!Contents[i] \in Pizzas
  /\ \A i \in DOMAIN TP!Contents : TP!Contents[i] \in Pizzas

Carriers(z) == {w \in Workers : Carrying(w, z)}
Count(z) == Cardinality(Carriers(z)) + Copies(FP!Contents, z) + Copies(TP!Contents, z)
Counted == \A z \in Pizzas : Count(z) = IF z \in made THEN 1 ELSE 0
Bakers == {c \in Cooks : Baking(c)}

WhileLocked == Posture /\ RingsHoldPizzas /\ Counted /\ furnace.usage = Cardinality(Bakers)

\* after a SIGINT no worker makes another call
Ends ==
  /\ removed => master = "gone"
  /\ master # "wait" => received # {}
  /\ "SIGINT" \in received => \A w \in Workers : life[w] # "alive"

IInv ==
  /\ Rings /\ Loops /\ Ends /\ SigintKeepsLocks
  /\ ~removed => WhileLocked

-----------------------------------------------------------------------------
(* Counting.                                                               *)

One(p) == IF p THEN 1 ELSE 0

\* A set that changes in one element only.
LEMMA ChangeAt ==
  ASSUME NEW S, NEW R, NEW w, IsFiniteSet(S), S \ {w} = R \ {w}
  PROVE  /\ IsFiniteSet(R) /\ Cardinality(S) \in Nat /\ Cardinality(R) \in Nat
         /\ Cardinality(R) = Cardinality(S) + One(w \in R) - One(w \in S)
<1> DEFINE K == S \ {w}
<1>1. IsFiniteSet(K) /\ Cardinality(K) \in Nat BY FS_Subset, FS_CardinalityType
<1>2. IsFiniteSet(K \cup {w}) /\ Cardinality(K \cup {w}) = Cardinality(K) + 1
  BY <1>1, FS_AddElement
<1>3. S = IF w \in S THEN K \cup {w} ELSE K OBVIOUS
<1>4. R = IF w \in R THEN K \cup {w} ELSE K OBVIOUS
<1> HIDE DEF K
<1>5. Cardinality(S) = Cardinality(K) + One(w \in S)
  <2>1. CASE w \in S BY <1>2, <1>3, <2>1 DEF One
  <2>2. CASE w \notin S BY <1>1, <1>3, <2>2 DEF One
  <2> QED BY <2>1, <2>2
<1>6. Cardinality(R) = Cardinality(K) + One(w \in R)
  <2>1. CASE w \in R BY <1>2, <1>4, <2>1 DEF One
  <2>2. CASE w \notin R BY <1>1, <1>4, <2>2 DEF One
  <2> QED BY <2>1, <2>2
<1>7. IsFiniteSet(R) BY <1>1, <1>2, <1>4
<1> QED BY <1>1, <1>5, <1>6, <1>7 DEF One

LEMMA CopiesNat ==
  ASSUME NEW S, NEW s \in Seq(S), NEW z
  PROVE  IsFiniteSet({i \in DOMAIN s : s[i] = z}) /\ Copies(s, z) \in Nat
<1>1. DOMAIN s = 1 .. Len(s) /\ Len(s) \in Nat BY LenProperties
<1>2. IsFiniteSet(1 .. Len(s)) BY <1>1, FS_Interval
<1>3. IsFiniteSet({i \in DOMAIN s : s[i] = z}) BY <1>1, <1>2, FS_Subset
<1> QED BY <1>3, FS_CardinalityType DEF Copies

\* A put makes one copy more.
LEMMA CopiesAppend ==
  ASSUME NEW S, NEW s \in Seq(S), NEW x \in S, NEW z
  PROVE  Copies(Append(s, x), z) = Copies(s, z) + One(x = z)
<1> DEFINE n == Len(s)
           A == {i \in DOMAIN s : s[i] = z}
           B == {i \in DOMAIN Append(s, x) : Append(s, x)[i] = z}
<1>1. n \in Nat /\ DOMAIN s = 1 .. n /\ DOMAIN Append(s, x) = 1 .. n + 1
      /\ \A i \in 1 .. n : Append(s, x)[i] = s[i]
      /\ Append(s, x)[n + 1] = x
  BY LenProperties, AppendProperties
<1>2. A \ {n + 1} = B \ {n + 1} BY <1>1
<1>3. n + 1 \notin A /\ (n + 1 \in B <=> x = z) BY <1>1
<1>4. IsFiniteSet(A) BY CopiesNat
<1>5. Cardinality(B) = Cardinality(A) + One(n + 1 \in B) - One(n + 1 \in A) /\ Cardinality(A) \in Nat
  <2> HIDE DEF A, B
  <2> QED BY <1>2, <1>4, ChangeAt
<1>6. Copies(s, z) = Cardinality(A) /\ Copies(Append(s, x), z) = Cardinality(B) BY DEF Copies
<1> HIDE DEF A, B
<1> QED BY <1>3, <1>5, <1>6 DEF One

\* A get leaves one copy less.
LEMMA CopiesTail ==
  ASSUME NEW S, NEW s \in Seq(S), s # <<>>, NEW z
  PROVE  Copies(Tail(s), z) = Copies(s, z) - One(Head(s) = z)
<1> DEFINE n == Len(s)
           A == {i \in DOMAIN s : s[i] = z}
           C == A \ {1}
           B == {i \in DOMAIN Tail(s) : Tail(s)[i] = z}
           f == [i \in C |-> i - 1]
<1>1. /\ n \in Nat /\ n >= 1 /\ DOMAIN s = 1 .. n /\ DOMAIN Tail(s) = 1 .. n - 1
      /\ \A i \in 1 .. n - 1 : Tail(s)[i] = s[i + 1]
      /\ Head(s) = s[1]
  BY LenProperties, HeadTailProperties, EmptySeq
<1>2. f \in Bijection(C, B)
  <2>1. f \in [C -> B] BY <1>1
  <2>2. \A i, j \in C : f[i] = f[j] => i = j BY <1>1
  <2>3. \A j \in B : \E i \in C : f[i] = j
    <3> SUFFICES ASSUME NEW j \in B PROVE j + 1 \in C /\ f[j + 1] = j OBVIOUS
    <3> QED BY <1>1
  <2> HIDE DEF B, C, f
  <2>4. f \in Injection(C, B) BY <2>1, <2>2 DEF Injection, IsInjective
  <2>5. f \in Surjection(C, B) BY <2>1, <2>3 DEF Surjection
  <2> QED BY <2>4, <2>5 DEF Bijection
<1>3. IsFiniteSet(A) /\ IsFiniteSet(C)
  <2>1. IsFiniteSet(A) BY CopiesNat
  <2> HIDE DEF A
  <2> QED BY <2>1, FS_Subset
<1>4. IsFiniteSet(B) /\ Cardinality(B) = Cardinality(C)
  <2>1. ExistsBijection(C, B) BY <1>2 DEF ExistsBijection
  <2> HIDE DEF A, B, C, f
  <2> QED BY <1>3, <2>1, FS_Bijection
<1>5. Cardinality(C) = Cardinality(A) - One(1 \in A) /\ Cardinality(A) \in Nat
  <2>1. A \ {1} = C \ {1} /\ 1 \notin C OBVIOUS
  <2> HIDE DEF A, C
  <2>2. Cardinality(C) = Cardinality(A) + One(1 \in C) - One(1 \in A) /\ Cardinality(A) \in Nat
    BY <1>3, <2>1, ChangeAt
  <2> QED BY <2>1, <2>2 DEF One
<1>6. 1 \in A <=> Head(s) = z BY <1>1
<1>7. Copies(s, z) = Cardinality(A) /\ Copies(Tail(s), z) = Cardinality(B) BY DEF Copies
<1> HIDE DEF A, B, C
<1> QED BY <1>4, <1>5, <1>6, <1>7 DEF One

-----------------------------------------------------------------------------
(* The furnace and the table are the ring of SemRingProofs.                *)

LEMMA FurnaceFits == FURNACE_SIZE \in Nat \ {0} /\ FP!IsFiniteSet(Cooks)
BY PizzeriaAssumption DEF IsFiniteSet, FP!IsFiniteSet

LEMMA TableFits == TABLE_SIZE \in Nat \ {0} /\ TP!IsFiniteSet(Workers)
<1>1. IsFiniteSet(Workers) BY PizzeriaAssumption, FS_Union DEF Workers
<1>2. TP!IsFiniteSet(Workers) BY <1>1 DEF IsFiniteSet, TP!IsFiniteSet
<1> QED BY <1>2, PizzeriaAssumption

LEMMA SameFurnace ==
  ASSUME NEW c, NEW z
  PROVE  /\ F!PutEnter(c, z) <=> FP!PutEnter(c, z)
         /\ F!GetEnter(c) <=> FP!GetEnter(c)
         /\ F!Unlock(c) <=> FP!Unlock(c)
         /\ F!Inner(c) <=> FP!Inner(c)
<1>1. F!PutEnter(c, z) <=> FP!PutEnter(c, z)
  BY DEF F!PutEnter, FP!PutEnter, F!Semop, FP!Semop, F!Goto, FP!Goto, F!Frame, FP!Frame
<1>2. F!GetEnter(c) <=> FP!GetEnter(c)
  BY DEF F!GetEnter, FP!GetEnter, F!Semop, FP!Semop, F!Goto, FP!Goto, F!Frame, FP!Frame
<1>3. F!Unlock(c) <=> FP!Unlock(c)
  BY DEF F!Unlock, FP!Unlock, F!Semop, FP!Semop, F!Goto, FP!Goto, F!Outside, FP!Outside,
         F!Frame, FP!Frame
<1>4. /\ F!PutLoad(c) <=> FP!PutLoad(c)
      /\ F!GetLoad(c) <=> FP!GetLoad(c)
  BY DEF F!PutLoad, FP!PutLoad, F!GetLoad, FP!GetLoad, F!Goto, FP!Goto, F!Frame, FP!Frame
<1>5. F!PutStore(c) <=> FP!PutStore(c)
  BY DEF F!PutStore, FP!PutStore, F!Goto, FP!Goto, F!Frame, FP!Frame
<1>6. F!GetStore(c) <=> FP!GetStore(c)
  BY DEF F!GetStore, FP!GetStore, F!Goto, FP!Goto, F!Frame, FP!Frame
<1>7. F!Inner(c) <=> FP!Inner(c) BY <1>4, <1>5, <1>6 DEF F!Inner, FP!Inner, F!Access, FP!Access
<1> QED BY <1>1, <1>2, <1>3, <1>7

LEMMA SameTable ==
  ASSUME NEW w, NEW z
  PROVE  /\ T!PutEnter(w, z) <=> TP!PutEnter(w, z)
         /\ T!GetEnter(w) <=> TP!GetEnter(w)
         /\ T!Unlock(w) <=> TP!Unlock(w)
         /\ T!Inner(w) <=> TP!Inner(w)
<1>1. T!PutEnter(w, z) <=> TP!PutEnter(w, z)
  BY DEF T!PutEnter, TP!PutEnter, T!Semop, TP!Semop, T!Goto, TP!Goto, T!Frame, TP!Frame
<1>2. T!GetEnter(w) <=> TP!GetEnter(w)
  BY DEF T!GetEnter, TP!GetEnter, T!Semop, TP!Semop, T!Goto, TP!Goto, T!Frame, TP!Frame
<1>3. T!Unlock(w) <=> TP!Unlock(w)
  BY DEF T!Unlock, TP!Unlock, T!Semop, TP!Semop, T!Goto, TP!Goto, T!Outside, TP!Outside,
         T!Frame, TP!Frame
<1>4. /\ T!PutLoad(w) <=> TP!PutLoad(w)
      /\ T!GetLoad(w) <=> TP!GetLoad(w)
  BY DEF T!PutLoad, TP!PutLoad, T!GetLoad, TP!GetLoad, T!Goto, TP!Goto, T!Frame, TP!Frame
<1>5. T!PutStore(w) <=> TP!PutStore(w)
  BY DEF T!PutStore, TP!PutStore, T!Goto, TP!Goto, T!Frame, TP!Frame
<1>6. T!GetStore(w) <=> TP!GetStore(w)
  BY DEF T!GetStore, TP!GetStore, T!Goto, TP!Goto, T!Frame, TP!Frame
<1>7. T!Inner(w) <=> TP!Inner(w) BY <1>4, <1>5, <1>6 DEF T!Inner, TP!Inner, T!Access, TP!Access
<1> QED BY <1>1, <1>2, <1>3, <1>7

\* A step in the furnace keeps both rings as they should be.
LEMMA FurnaceStep ==
  ASSUME Rings, UNCHANGED <<removed, tableSem, table, tableLoc>>, NEW c \in Cooks,
         \/ F!GetEnter(c) \/ F!Unlock(c) \/ F!Inner(c)
         \/ \E z \in Pizzas \cup {NoPizza} : F!PutEnter(c, z) /\ (removed \/ z \in Pizzas)
  PROVE  Rings'
<1>1. TP!Wide' BY DEF Rings, TP!Wide, TP!Spots, TP!Slots
<1>2. ~removed => TP!IInv'
  BY TP!NextIInv, TableFits DEF Rings, TP!vars
<1>3. FP!Wide'
  <2>1. \A z \in Pizzas \cup {NoPizza} :
          FP!PutEnter(c, z) \/ FP!GetEnter(c) \/ FP!Unlock(c) \/ FP!Inner(c) => FP!Wide'
    BY FP!WideKept, FurnaceFits DEF Rings
  <2> QED BY <2>1, SameFurnace
<1>4. ~removed => FP!IInv'
  <2>1. ~removed => FP!Next BY SameFurnace DEF FP!Next
  <2> QED BY <2>1, FP!NextIInv, FurnaceFits DEF Rings
<1> QED BY <1>1, <1>2, <1>3, <1>4 DEF Rings

\* A step at the table does too.
LEMMA TableStep ==
  ASSUME Rings, UNCHANGED <<removed, furnaceSem, furnace, furnaceLoc>>, NEW w \in Workers,
         \/ T!GetEnter(w) \/ T!Unlock(w) \/ T!Inner(w)
         \/ \E z \in Pizzas \cup {NoPizza} : T!PutEnter(w, z) /\ (removed \/ z \in Pizzas)
  PROVE  Rings'
<1>1. FP!Wide' BY DEF Rings, FP!Wide, FP!Spots, FP!Slots
<1>2. ~removed => FP!IInv'
  BY FP!NextIInv, FurnaceFits DEF Rings, FP!vars
<1>3. TP!Wide'
  <2>1. \A z \in Pizzas \cup {NoPizza} :
          TP!PutEnter(w, z) \/ TP!GetEnter(w) \/ TP!Unlock(w) \/ TP!Inner(w) => TP!Wide'
    BY TP!WideKept, TableFits DEF Rings
  <2> QED BY <2>1, SameTable
<1>4. ~removed => TP!IInv'
  <2>1. ~removed => TP!Next BY SameTable DEF TP!Next
  <2> QED BY <2>1, TP!NextIInv, TableFits DEF Rings
<1> QED BY <1>1, <1>2, <1>3, <1>4 DEF Rings

\* Where nobody touches them they stay as they are; deleting the semaphores asks less of them.
LEMMA RingsRest ==
  ASSUME Rings, UNCHANGED <<furnaceVars, tableVars>>, (removed' = removed) \/ removed'
  PROVE  Rings'
<1>1. UNCHANGED <<furnaceSem, furnace, furnaceLoc, tableSem, table, tableLoc>> BY DEF furnaceVars, tableVars
<1>2. TP!Wide' /\ FP!Wide'
  BY <1>1 DEF Rings, TP!Wide, TP!Spots, TP!Slots, FP!Wide, FP!Spots, FP!Slots
<1>3. ~removed' => TP!IInv' /\ FP!IInv'
  BY <1>1, TP!NextIInv, TableFits, FP!NextIInv, FurnaceFits DEF Rings, TP!vars, FP!vars
<1> QED BY <1>2, <1>3 DEF Rings

-----------------------------------------------------------------------------
(* One step of one worker.                                                 *)

Others(w) ==
  \A v \in Workers \ {w} :
    /\ pc'[v] = pc[v] /\ pizza'[v] = pizza[v] /\ tableLoc'[v] = tableLoc[v]
    /\ v \in Cooks => furnaceLoc'[v] = furnaceLoc[v]

Stands(w) == (w \in Cooks => CookPosture(w)) /\ (w \in Janusze => JanuszPosture(w))

Balanced(w) ==
  /\ \A y \in Pizzas :
       One(Carrying(w, y)') + Copies(FP!Contents', y) + Copies(TP!Contents', y) + One(y \in made)
         = One(Carrying(w, y)) + Copies(FP!Contents, y) + Copies(TP!Contents, y) + One(y \in made')
  /\ furnace'.usage - furnace.usage = One((w \in Cooks /\ Baking(w))') - One(w \in Cooks /\ Baking(w))

RingTypes ==
  /\ FP!Contents \in Seq(Pizzas \cup {NoPizza}) /\ TP!Contents \in Seq(Pizzas \cup {NoPizza})
  /\ furnace.usage \in Int

\* Where each pizza is counts once: what w gives away is put where w puts it.
LEMMA OneMoves ==
  ASSUME WhileLocked, NEW w \in Workers, Others(w), Stands(w)', RingsHoldPizzas', Balanced(w),
         RingTypes, RingTypes'
  PROVE  WhileLocked'
<1> USE DEF RingTypes, Balanced
<1>1. Posture'
  <2>1. ASSUME NEW c \in Cooks PROVE CookPosture(c)'
    <3>1. CASE c = w BY <3>1 DEF Stands
    <3>2. CASE c # w
      <4>1. /\ pc'[c] = pc[c] /\ pizza'[c] = pizza[c] /\ tableLoc'[c] = tableLoc[c]
            /\ furnaceLoc'[c] = furnaceLoc[c]
        BY <3>2 DEF Others, Workers
      <4> QED BY <4>1 DEF WhileLocked, Posture, CookPosture
    <3> QED BY <3>1, <3>2
  <2>2. ASSUME NEW j \in Janusze PROVE JanuszPosture(j)'
    <3>1. CASE j = w BY <3>1 DEF Stands
    <3>2. CASE j # w
      <4>1. pc'[j] = pc[j] /\ pizza'[j] = pizza[j] /\ tableLoc'[j] = tableLoc[j]
        BY <3>2 DEF Others, Workers
      <4> QED BY <4>1 DEF WhileLocked, Posture, JanuszPosture
    <3> QED BY <3>1, <3>2
  <2> QED BY <2>1, <2>2 DEF Posture
<1>2. IsFiniteSet(Workers) BY PizzeriaAssumption, FS_Union DEF Workers
<1>3. ASSUME NEW y \in Pizzas PROVE Count(y)' = IF y \in made' THEN 1 ELSE 0
  <2>1. IsFiniteSet(Carriers(y)) BY <1>2, FS_Subset DEF Carriers
  <2>2. Carriers(y) \ {w} = Carriers(y)' \ {w} BY DEF Carriers, Others, Carrying
  <2> DEFINE C1 == Carriers(y)
             C2 == Carriers(y)'
  <2>3. /\ Cardinality(C1) \in Nat /\ Cardinality(C2) \in Nat
        /\ Cardinality(C2) = Cardinality(C1) + One(w \in C2) - One(w \in C1)
    <3> HIDE DEF C1, C2
    <3> QED BY <2>1, <2>2, ChangeAt DEF C1, C2
  <2> DEFINE f1 == Copies(FP!Contents, y)
             f2 == Copies(FP!Contents', y)
             t1 == Copies(TP!Contents, y)
             t2 == Copies(TP!Contents', y)
             c1 == One(Carrying(w, y))
             c2 == One(Carrying(w, y)')
             m1 == One(y \in made)
             m2 == One(y \in made')
  <2>4. One(w \in C2) = c2 /\ One(w \in C1) = c1 BY DEF Carriers, One
  <2>5. f1 \in Nat /\ f2 \in Nat /\ t1 \in Nat /\ t2 \in Nat BY CopiesNat
  <2>6. Cardinality(C1) + f1 + t1 = m1 BY DEF WhileLocked, Counted, Count, One
  <2>7. c2 + f2 + t2 + m1 = c1 + f1 + t1 + m2 OBVIOUS
  <2>8. Count(y)' = Cardinality(C2) + f2 + t2 BY DEF Count, Copies
  <2>9. c2 \in Nat /\ c1 \in Nat /\ m1 \in Nat /\ m2 \in Nat BY DEF One
  <2>10. m2 = IF y \in made' THEN 1 ELSE 0 BY DEF One
  <2> HIDE DEF C1, C2, f1, f2, t1, t2, c1, c2, m1, m2
  <2> DEFINE k1 == Cardinality(C1)
             k2 == Cardinality(C2)
  <2>11. k1 \in Nat /\ k2 \in Nat /\ k2 = k1 + c2 - c1 /\ k1 + f1 + t1 = m1 BY <2>3, <2>4, <2>6
  <2> HIDE DEF k1, k2
  <2>12. k2 + f2 + t2 = m2 BY <2>5, <2>7, <2>9, <2>11
  <2> QED BY <2>8, <2>10, <2>12 DEF k2
<1>4. furnace'.usage = Cardinality(Bakers')
  <2>1. IsFiniteSet(Bakers) BY PizzeriaAssumption, FS_Subset DEF Bakers
  <2>2. Bakers \ {w} = Bakers' \ {w} BY DEF Bakers, Baking, Others, Workers
  <2> DEFINE B1 == Bakers
             B2 == Bakers'
  <2>3. /\ Cardinality(B1) \in Nat /\ Cardinality(B2) \in Nat
        /\ Cardinality(B2) = Cardinality(B1) + One(w \in B2) - One(w \in B1)
    <3> HIDE DEF B1, B2
    <3> QED BY <2>1, <2>2, ChangeAt DEF B1, B2
  <2> DEFINE b1 == One(w \in Cooks /\ Baking(w))
             b2 == One((w \in Cooks /\ Baking(w))')
  <2>4. One(w \in B2) = b2 /\ One(w \in B1) = b1 BY DEF Bakers, One
  <2>5. furnace.usage = Cardinality(B1) BY DEF WhileLocked
  <2>6. b1 \in Nat /\ b2 \in Nat BY DEF One
  <2>7. furnace'.usage - furnace.usage = b2 - b1 OBVIOUS
  <2> HIDE DEF B1, B2, b1, b2
  <2>8. furnace'.usage = Cardinality(B2) BY <2>3, <2>4, <2>5, <2>6, <2>7
  <2> QED BY <2>8 DEF B2
<1> QED BY <1>1, <1>3, <1>4 DEF WhileLocked, Counted

LEMMA RingsTyped == Rings /\ ~removed => RingTypes
<1> SUFFICES ASSUME Rings, ~removed PROVE RingTypes OBVIOUS
<1>1. FP!RingType /\ TP!RingType /\ furnace.usage \in Int
  BY PizzeriaAssumption DEF Rings, FP!IInv, FP!TypeOK, TP!IInv, TP!TypeOK, FP!RingType
<1>2. FP!Contents \in Seq(Pizzas \cup {NoPizza}) BY <1>1, FP!ContentsSeq, FurnaceFits
<1>3. TP!Contents \in Seq(Pizzas \cup {NoPizza}) BY <1>1, TP!ContentsSeq, TableFits
<1> QED BY <1>1, <1>2, <1>3 DEF RingTypes

\* What is left to show of a step of a worker.
LEMMA WorkerStep ==
  ASSUME IInv, UNCHANGED signalVars, NEW w \in Workers, Rings', Loops',
         ~removed => Others(w) /\ Stands(w)' /\ RingsHoldPizzas' /\ Balanced(w),
         life[w] = "alive" \/ UNCHANGED <<F!Inside, T!Inside>>
  PROVE  IInv'
<1>1. UNCHANGED <<removed, master, received, life>> BY DEF signalVars
<1>2. Ends' BY <1>1 DEF IInv, Ends
<1>3. ~removed' => WhileLocked'
  <2>1. (Rings /\ ~removed => RingTypes)' BY RingsTyped, PTL
  <2> QED BY <1>1, <2>1, RingsTyped, OneMoves DEF IInv
<1>4. SigintKeepsLocks'
  <2> SUFFICES ASSUME "SIGTERM" \notin received' PROVE Alone(F!Inside)' /\ Alone(T!Inside)'
    BY DEF SigintKeepsLocks
  <2>1. CASE ~removed
    <3>1. FP!LockExcludes' /\ TP!LockExcludes' BY <1>1, <2>1 DEF Rings, FP!IInv, TP!IInv
    <3> QED BY <3>1 DEF FP!LockExcludes, FP!Inside, TP!LockExcludes, TP!Inside, Alone, F!Inside, T!Inside
  <2>2. CASE removed
    <3>1. "SIGINT" \in received
      BY <1>1, <2>2, PizzeriaAssumption DEF IInv, Ends, Loops
    <3>2. life[w] # "alive" BY <3>1 DEF IInv, Ends
    <3>3. Alone(F!Inside) /\ Alone(T!Inside) BY <1>1 DEF IInv, SigintKeepsLocks
    <3> QED BY <3>2, <3>3 DEF Alone
  <2> QED BY <2>1, <2>2
<1> QED BY <1>2, <1>3, <1>4 DEF IInv

\* A step that leaves the pizza of w in its hands and the rings as they are.
LEMMA NothingMoves ==
  ASSUME NEW w, UNCHANGED <<made, FP!Contents, TP!Contents>>, furnace.usage \in Int,
         UNCHANGED furnace.usage,
         \A y \in Pizzas : Carrying(w, y)' <=> Carrying(w, y),
         (w \in Cooks /\ Baking(w))' <=> (w \in Cooks /\ Baking(w)),
         RingsHoldPizzas, RingTypes
  PROVE  Balanced(w) /\ RingsHoldPizzas'
<1>1. RingsHoldPizzas' BY DEF RingsHoldPizzas
<1>2. ASSUME NEW y \in Pizzas
      PROVE  One(Carrying(w, y)') + Copies(FP!Contents', y) + Copies(TP!Contents', y) + One(y \in made)
               = One(Carrying(w, y)) + Copies(FP!Contents, y) + Copies(TP!Contents, y) + One(y \in made')
  <2>1. One(Carrying(w, y)') = One(Carrying(w, y)) BY DEF One
  <2>2. UNCHANGED <<made, FP!Contents, TP!Contents>> OBVIOUS
  <2> QED BY <2>1, <2>2
<1>3. furnace'.usage - furnace.usage = One((w \in Cooks /\ Baking(w))') - One(w \in Cooks /\ Baking(w))
  BY DEF One
<1> QED BY <1>1, <1>2, <1>3 DEF Balanced

\* The frames of the workers, whatever became of the semaphores.
LEMMA Frames ==
  ASSUME IInv
  PROVE  /\ furnaceLoc \in [Cooks -> [at : FP!Spots, pizza : Pizzas \cup {NoPizza},
                                     head : FP!Slots, usage : Int]]
         /\ tableLoc \in [Workers -> [at : TP!Spots, pizza : Pizzas \cup {NoPizza},
                                     head : TP!Slots, usage : Int]]
         /\ pc \in [Workers -> {"prepare", "put", "putting", "bake", "getting", "serve", "serving",
                                "take", "taking", "deliver"}]
         /\ pizza \in [Workers -> Pizzas \cup {NoPizza}] /\ made \subseteq Pizzas
         /\ NoPizza \notin Pizzas
BY PizzeriaAssumption DEF IInv, Rings, FP!Wide, TP!Wide, Loops

LEMMA PrepareStep ==
  ASSUME IInv, UNCHANGED signalVars, NEW c \in Cooks, cook_prepare_pizza(c), life[c] = "alive"
  PROVE  IInv'
<1>1. PICK z \in Pizzas : /\ z \notin made /\ made' = made \cup {z}
                          /\ pc' = [pc EXCEPT ![c] = "put"] /\ pizza' = [pizza EXCEPT ![c] = z]
  <2>1. \E z \in Pizzas : z \notin made BY Frames DEF cook_prepare_pizza
  <2> QED BY <2>1 DEF cook_prepare_pizza, Goto
<1>2. /\ pc[c] = "prepare" /\ UNCHANGED <<furnaceSem, furnace, furnaceLoc, tableSem, table, tableLoc>>
  BY DEF cook_prepare_pizza, furnaceVars, tableVars
<1>3. c \in Workers /\ c \notin Janusze BY PizzeriaAssumption DEF Workers
<1>4. Rings' BY RingsRest DEF IInv, cook_prepare_pizza, signalVars
<1>5. Loops' BY <1>1, <1>3 DEF IInv, Loops, signalVars
<1>6. pc'[c] = "put" /\ pizza'[c] = z BY <1>1, <1>3, Frames
<1>7. ASSUME ~removed PROVE Others(c) /\ Stands(c)' /\ RingsHoldPizzas' /\ Balanced(c)
  <2>1. Others(c) BY <1>1, <1>2, Frames DEF Others
  <2>2. /\ furnaceLoc[c].at = "out" /\ tableLoc[c].at = "out" /\ pizza[c] = NoPizza
    BY <1>2, <1>7 DEF IInv, WhileLocked, Posture, CookPosture
  <2>3. Stands(c)' BY <1>2, <1>3, <1>6, <2>2 DEF Stands, CookPosture
  <2>4. UNCHANGED <<FP!Contents, TP!Contents>> /\ furnace.usage \in Int
    BY <1>2, <1>7, RingsTyped DEF FP!Contents, FP!Slot, TP!Contents, TP!Slot, IInv, RingTypes
  <2>5. RingsHoldPizzas' BY <1>7, <2>4 DEF IInv, WhileLocked, RingsHoldPizzas
  <2>6. ASSUME NEW y \in Pizzas PROVE Carrying(c, y)' = (y = z) /\ ~Carrying(c, y)
    BY <1>2, <1>6, <2>2, Frames DEF Carrying
  <2>7. ~Baking(c) /\ ~Baking(c)' BY <1>2, <1>6 DEF Baking
  <2>8. ASSUME NEW y \in Pizzas
        PROVE  One(Carrying(c, y)') + Copies(FP!Contents', y) + Copies(TP!Contents', y) + One(y \in made)
                 = One(Carrying(c, y)) + Copies(FP!Contents, y) + Copies(TP!Contents, y) + One(y \in made')
    <3> DEFINE c1 == One(Carrying(c, y))
               c2 == One(Carrying(c, y)')
               m1 == One(y \in made)
               m2 == One(y \in made')
               f == Copies(FP!Contents, y)
               t == Copies(TP!Contents, y)
    <3>1. c1 = 0 /\ c2 = IF y = z THEN 1 ELSE 0 BY <2>6 DEF One
    <3>2. m1 \in Nat /\ m2 = IF y = z THEN m1 + 1 ELSE m1 BY <1>1 DEF One
    <3>3. f \in Nat /\ t \in Nat BY <1>7, RingsTyped, CopiesNat DEF IInv, RingTypes
    <3>4. Copies(FP!Contents', y) = f /\ Copies(TP!Contents', y) = t BY <2>4
    <3> HIDE DEF c1, c2, m1, m2, f, t
    <3>5. c2 + f + t + m1 = c1 + f + t + m2 BY <3>1, <3>2, <3>3
    <3> QED BY <3>4, <3>5 DEF c1, c2, m1, m2, f, t
  <2>9. furnace'.usage - furnace.usage = One((c \in Cooks /\ Baking(c))') - One(c \in Cooks /\ Baking(c))
    BY <1>2, <2>4, <2>7 DEF One
  <2> QED BY <2>1, <2>3, <2>5, <2>8, <2>9 DEF Balanced
<1> QED BY <1>3, <1>4, <1>5, <1>7, WorkerStep

\* In and out of the furnace: the pizza goes with the cook.
LEMMA BakesStep ==
  ASSUME IInv, UNCHANGED signalVars, NEW c \in Cooks, Bakes(c), life[c] = "alive"
  PROVE  IInv'
<1>1. PICK l \in {"putting", "bake", "getting", "serve"}, z \in Pizzas \cup {NoPizza} :
        /\ pc' = [pc EXCEPT ![c] = l] /\ pizza' = [pizza EXCEPT ![c] = z]
        /\ \/ /\ pc[c] = "put" /\ l = "putting" /\ z = NoPizza
              /\ FP!PutEnter(c, pizza[c])
           \/ pc[c] = "putting" /\ l = "bake" /\ z = NoPizza /\ FP!Unlock(c)
           \/ pc[c] = "bake" /\ l = "getting" /\ z = NoPizza /\ FP!GetEnter(c)
           \/ pc[c] = "getting" /\ l = "serve" /\ z = furnaceLoc[c].pizza /\ FP!Unlock(c)
  <2>1. furnaceLoc[c].pizza \in Pizzas \cup {NoPizza} BY Frames
  <2> QED BY <2>1, SameFurnace DEF Bakes, Goto
<1>2. UNCHANGED <<made, tableSem, table, tableLoc>> /\ UNCHANGED <<removed, received, master, life>>
  BY DEF Bakes, tableVars, signalVars
<1>3. c \in Workers /\ c \notin Janusze BY PizzeriaAssumption DEF Workers
<1>4. Rings'
  <2>1. pizza[c] \in Pizzas \cup {NoPizza} BY <1>3, Frames
  <2>2. ~removed /\ pc[c] = "put" => pizza[c] \in Pizzas
    BY DEF IInv, WhileLocked, Posture, CookPosture
  <2>3. \/ F!GetEnter(c) \/ F!Unlock(c)
        \/ \E y \in Pizzas \cup {NoPizza} : F!PutEnter(c, y) /\ (removed \/ y \in Pizzas)
    BY <1>1, <2>1, <2>2, SameFurnace
  <2> QED BY <1>2, <2>3, FurnaceStep DEF IInv
<1>5. Loops' BY <1>1, <1>2, <1>3 DEF IInv, Loops
<1>6. pc'[c] = l /\ pizza'[c] = z BY <1>1, <1>3, Frames
<1>7. ASSUME ~removed PROVE Others(c) /\ Stands(c)' /\ RingsHoldPizzas' /\ Balanced(c)
  <2>1. /\ \A v \in Cooks : v # c => furnaceLoc'[v] = furnaceLoc[v]
        /\ UNCHANGED <<furnace, FP!Contents, TP!Contents>>
        /\ FP!PutEnter(c, pizza[c]) => furnaceLoc[c].at = "out" /\ furnaceLoc'[c].at = "put"
                                      /\ furnaceLoc'[c].pizza = pizza[c]
        /\ FP!GetEnter(c) => furnaceLoc[c].at = "out" /\ furnaceLoc'[c].at = "get"
        /\ FP!Unlock(c) => furnaceLoc[c].at \in {"stored", "removed"} /\ furnaceLoc'[c].at = "out"
    BY <1>1, <1>2, FP!BorderEffect, FurnaceFits, Frames DEF TP!Contents, TP!Slot
  <2>2. Others(c) BY <1>1, <1>2, <2>1, Frames DEF Others
  <2>3. CookPosture(c) BY <1>7 DEF IInv, WhileLocked, Posture
  <2>4. Stands(c)' BY <1>1, <1>2, <1>3, <1>6, <2>1, <2>3, Frames DEF Stands, CookPosture
  <2>5. ASSUME NEW y \in Pizzas PROVE Carrying(c, y)' <=> Carrying(c, y)
    BY <1>1, <1>2, <1>6, <2>1, <2>3, Frames DEF CookPosture, Carrying
  <2>6. (c \in Cooks /\ Baking(c))' <=> (c \in Cooks /\ Baking(c))
    BY <1>1, <1>2, <1>6, <2>1, <2>3 DEF CookPosture, Baking
  <2>7. RingsHoldPizzas /\ RingTypes BY <1>7, RingsTyped DEF IInv, WhileLocked
  <2> QED BY <1>2, <2>1, <2>2, <2>4, <2>5, <2>6, <2>7, NothingMoves DEF RingTypes
<1> QED BY <1>2, <1>3, <1>4, <1>5, <1>7, WorkerStep

\* On to the table.
LEMMA ServesStep ==
  ASSUME IInv, UNCHANGED signalVars, NEW c \in Cooks, Serves(c), life[c] = "alive"
  PROVE  IInv'
<1>1. PICK l \in {"serving", "prepare"} :
        /\ pc' = [pc EXCEPT ![c] = l] /\ pizza' = [pizza EXCEPT ![c] = NoPizza]
        /\ \/ pc[c] = "serve" /\ l = "serving" /\ TP!PutEnter(c, pizza[c])
           \/ pc[c] = "serving" /\ l = "prepare" /\ TP!Unlock(c)
  BY SameTable DEF Serves, Goto
<1>2. UNCHANGED <<made, furnaceSem, furnace, furnaceLoc>> /\ UNCHANGED <<removed, received, master, life>>
  BY DEF Serves, furnaceVars, signalVars
<1>3. c \in Workers /\ c \notin Janusze BY PizzeriaAssumption DEF Workers
<1>4. Rings'
  <2>1. pizza[c] \in Pizzas \cup {NoPizza} BY <1>3, Frames
  <2>2. ~removed /\ pc[c] = "serve" => pizza[c] \in Pizzas
    BY DEF IInv, WhileLocked, Posture, CookPosture
  <2>3. \/ T!GetEnter(c) \/ T!Unlock(c)
        \/ \E y \in Pizzas \cup {NoPizza} : T!PutEnter(c, y) /\ (removed \/ y \in Pizzas)
    BY <1>1, <2>1, <2>2, SameTable
  <2> QED BY <1>2, <1>3, <2>3, TableStep DEF IInv
<1>5. Loops' BY <1>1, <1>2, <1>3 DEF IInv, Loops
<1>6. pc'[c] = l /\ pizza'[c] = NoPizza BY <1>1, <1>3, Frames
<1>7. ASSUME ~removed PROVE Others(c) /\ Stands(c)' /\ RingsHoldPizzas' /\ Balanced(c)
  <2>1. /\ \A v \in Workers : v # c => tableLoc'[v] = tableLoc[v]
        /\ UNCHANGED <<FP!Contents, TP!Contents>>
        /\ TP!PutEnter(c, pizza[c]) => tableLoc[c].at = "out" /\ tableLoc'[c].at = "put"
                                      /\ tableLoc'[c].pizza = pizza[c]
        /\ TP!Unlock(c) => tableLoc[c].at \in {"stored", "removed"} /\ tableLoc'[c].at = "out"
    BY <1>1, <1>2, <1>3, TP!BorderEffect, TableFits, Frames DEF FP!Contents, FP!Slot
  <2>2. Others(c) BY <1>1, <1>2, <2>1, Frames DEF Others
  <2>3. CookPosture(c) BY <1>7 DEF IInv, WhileLocked, Posture
  <2>4. Stands(c)' BY <1>1, <1>2, <1>3, <1>6, <2>1, <2>3, Frames DEF Stands, CookPosture
  <2>5. ASSUME NEW y \in Pizzas PROVE Carrying(c, y)' <=> Carrying(c, y)
    BY <1>1, <1>2, <1>6, <2>1, <2>3, Frames DEF CookPosture, Carrying
  <2>6. (c \in Cooks /\ Baking(c))' <=> (c \in Cooks /\ Baking(c))
    BY <1>1, <1>2, <1>6, <2>3 DEF CookPosture, Baking
  <2>7. RingsHoldPizzas /\ RingTypes BY <1>7, RingsTyped DEF IInv, WhileLocked
  <2> QED BY <1>2, <2>1, <2>2, <2>4, <2>5, <2>6, <2>7, NothingMoves DEF RingTypes
<1> QED BY <1>2, <1>3, <1>4, <1>5, <1>7, WorkerStep

\* From the table into the hands of a deliverer.
LEMMA TakesStep ==
  ASSUME IInv, UNCHANGED signalVars, NEW j \in Janusze, janusz_take_from_table(j), life[j] = "alive"
  PROVE  IInv'
<1>1. PICK l \in {"taking", "deliver"}, z \in Pizzas \cup {NoPizza} :
        /\ pc' = [pc EXCEPT ![j] = l] /\ pizza' = [pizza EXCEPT ![j] = z]
        /\ \/ pc[j] = "take" /\ l = "taking" /\ z = NoPizza /\ TP!GetEnter(j)
           \/ pc[j] = "taking" /\ l = "deliver" /\ z = tableLoc[j].pizza /\ TP!Unlock(j)
  <2>1. tableLoc[j].pizza \in Pizzas \cup {NoPizza} BY Frames DEF Workers
  <2> QED BY <2>1, SameTable DEF janusz_take_from_table, Goto
<1>2. UNCHANGED <<made, furnaceSem, furnace, furnaceLoc>> /\ UNCHANGED <<removed, received, master, life>>
  BY DEF janusz_take_from_table, furnaceVars, signalVars
<1>3. j \in Workers /\ j \notin Cooks BY PizzeriaAssumption DEF Workers
<1>4. Rings' BY <1>1, <1>2, <1>3, SameTable, TableStep DEF IInv
<1>5. Loops' BY <1>1, <1>2, <1>3 DEF IInv, Loops
<1>6. pc'[j] = l /\ pizza'[j] = z BY <1>1, <1>3, Frames
<1>7. ASSUME ~removed PROVE Others(j) /\ Stands(j)' /\ RingsHoldPizzas' /\ Balanced(j)
  <2>1. /\ \A v \in Workers : v # j => tableLoc'[v] = tableLoc[v]
        /\ UNCHANGED <<FP!Contents, TP!Contents>>
        /\ TP!GetEnter(j) => tableLoc[j].at = "out" /\ tableLoc'[j].at = "get"
        /\ TP!Unlock(j) => tableLoc[j].at \in {"stored", "removed"} /\ tableLoc'[j].at = "out"
    BY <1>1, <1>2, <1>3, TP!BorderEffect, TableFits, Frames DEF FP!Contents, FP!Slot
  <2>2. Others(j) BY <1>1, <1>2, <2>1, Frames DEF Others
  <2>3. JanuszPosture(j) BY <1>7 DEF IInv, WhileLocked, Posture
  <2>4. Stands(j)' BY <1>1, <1>2, <1>3, <1>6, <2>1, <2>3, Frames DEF Stands, JanuszPosture
  <2>5. ASSUME NEW y \in Pizzas PROVE Carrying(j, y)' <=> Carrying(j, y)
    BY <1>1, <1>2, <1>3, <1>6, <2>1, <2>3, Frames DEF JanuszPosture, Carrying
  <2>6. (j \in Cooks /\ Baking(j))' <=> (j \in Cooks /\ Baking(j)) BY <1>3
  <2>7. RingsHoldPizzas /\ RingTypes BY <1>7, RingsTyped DEF IInv, WhileLocked
  <2> QED BY <1>2, <2>1, <2>2, <2>4, <2>5, <2>6, <2>7, NothingMoves DEF RingTypes
<1> QED BY <1>2, <1>3, <1>4, <1>5, <1>7, WorkerStep

LEMMA DeliverStep ==
  ASSUME IInv, UNCHANGED signalVars, NEW j \in Janusze, janusz_deliver(j), life[j] = "alive"
  PROVE  IInv'
<1>1. /\ made' = made \ {pizza[j]}
      /\ pc' = [pc EXCEPT ![j] = "take"] /\ pizza' = [pizza EXCEPT ![j] = NoPizza]
  BY DEF janusz_deliver, Goto
<1>2. /\ pc[j] = "deliver" /\ UNCHANGED <<furnaceSem, furnace, furnaceLoc, tableSem, table, tableLoc>>
      /\ UNCHANGED <<removed, received, master, life>>
  BY DEF janusz_deliver, furnaceVars, tableVars, signalVars
<1>3. j \in Workers /\ j \notin Cooks BY PizzeriaAssumption DEF Workers
<1>4. Rings' BY <1>2, RingsRest DEF IInv, janusz_deliver
<1>5. Loops' BY <1>1, <1>2, <1>3 DEF IInv, Loops
<1>6. pc'[j] = "take" /\ pizza'[j] = NoPizza BY <1>1, <1>3, Frames
<1>7. ASSUME ~removed PROVE Others(j) /\ Stands(j)' /\ RingsHoldPizzas' /\ Balanced(j)
  <2>1. Others(j) BY <1>1, <1>2, Frames DEF Others
  <2>2. tableLoc[j].at = "out" /\ pizza[j] \in Pizzas
    BY <1>2, <1>7 DEF IInv, WhileLocked, Posture, JanuszPosture
  <2>3. Stands(j)' BY <1>2, <1>3, <1>6, <2>2 DEF Stands, JanuszPosture
  <2>4. UNCHANGED <<FP!Contents, TP!Contents>> /\ furnace.usage \in Int
    BY <1>2, <1>7, RingsTyped DEF FP!Contents, FP!Slot, TP!Contents, TP!Slot, IInv, RingTypes
  <2>5. RingsHoldPizzas' BY <1>7, <2>4 DEF IInv, WhileLocked, RingsHoldPizzas
  <2>6. ASSUME NEW y \in Pizzas PROVE Carrying(j, y) = (y = pizza[j]) /\ ~Carrying(j, y)'
    BY <1>2, <1>3, <1>6, <2>2, Frames DEF Carrying
  <2>7. pizza[j] \in made
    <3> DEFINE k == Cardinality(Carriers(pizza[j]))
               f == Copies(FP!Contents, pizza[j])
               t == Copies(TP!Contents, pizza[j])
    <3>1. f \in Nat /\ t \in Nat BY <1>7, RingsTyped, CopiesNat DEF IInv, RingTypes
    <3>2. k \in Nat /\ k # 0
      <4>1. IsFiniteSet(Carriers(pizza[j]))
        BY PizzeriaAssumption, FS_Union, FS_Subset DEF Workers, Carriers
      <4>2. j \in Carriers(pizza[j]) BY <1>3, <2>2, <2>6 DEF Carriers
      <4> QED BY <4>1, <4>2, FS_CardinalityType, FS_EmptySet
    <3>3. k + f + t = IF pizza[j] \in made THEN 1 ELSE 0
      BY <1>7, <2>2 DEF IInv, WhileLocked, Counted, Count
    <3> HIDE DEF k, f, t
    <3> QED BY <3>1, <3>2, <3>3
  <2>8. ASSUME NEW y \in Pizzas
        PROVE  One(Carrying(j, y)') + Copies(FP!Contents', y) + Copies(TP!Contents', y) + One(y \in made)
                 = One(Carrying(j, y)) + Copies(FP!Contents, y) + Copies(TP!Contents, y) + One(y \in made')
    <3> DEFINE c1 == One(Carrying(j, y))
               c2 == One(Carrying(j, y)')
               m1 == One(y \in made)
               m2 == One(y \in made')
               f == Copies(FP!Contents, y)
               t == Copies(TP!Contents, y)
    <3>1. c2 = 0 /\ c1 = IF y = pizza[j] THEN 1 ELSE 0 BY <2>6 DEF One
    <3>2. m1 \in Nat /\ m2 = IF y = pizza[j] THEN m1 - 1 ELSE m1 BY <1>1, <2>7 DEF One
    <3>3. f \in Nat /\ t \in Nat BY <1>7, RingsTyped, CopiesNat DEF IInv, RingTypes
    <3>4. Copies(FP!Contents', y) = f /\ Copies(TP!Contents', y) = t BY <2>4
    <3> HIDE DEF c1, c2, m1, m2, f, t
    <3>5. c2 + f + t + m1 = c1 + f + t + m2 BY <3>1, <3>2, <3>3
    <3> QED BY <3>4, <3>5 DEF c1, c2, m1, m2, f, t
  <2>9. furnace'.usage - furnace.usage = One((j \in Cooks /\ Baking(j))') - One(j \in Cooks /\ Baking(j))
    BY <1>2, <1>3, <2>4 DEF One
  <2> QED BY <2>1, <2>3, <2>5, <2>8, <2>9 DEF Balanced
<1> QED BY <1>2, <1>3, <1>4, <1>5, <1>7, WorkerStep

\* What is put in or left in a ring of pizzas are pizzas.
LEMMA OfPizzas ==
  ASSUME NEW S, NEW P, NEW s \in Seq(S), \A i \in DOMAIN s : s[i] \in P
  PROVE  /\ \A x \in S \cap P : \A i \in DOMAIN Append(s, x) : Append(s, x)[i] \in P
         /\ s # <<>> => Head(s) \in P /\ \A i \in DOMAIN Tail(s) : Tail(s)[i] \in P
<1>1. DOMAIN s = 1 .. Len(s) /\ Len(s) \in Nat BY LenProperties
<1>2. ASSUME NEW x \in S \cap P, NEW i \in DOMAIN Append(s, x) PROVE Append(s, x)[i] \in P
  <2>1. /\ DOMAIN Append(s, x) = 1 .. Len(s) + 1 /\ Append(s, x)[Len(s) + 1] = x
        /\ \A j \in 1 .. Len(s) : Append(s, x)[j] = s[j]
    BY <1>1, AppendProperties, LenProperties
  <2>2. CASE i = Len(s) + 1 BY <2>1, <2>2
  <2>3. CASE i # Len(s) + 1 BY <1>1, <2>1, <2>3
  <2> QED BY <2>2, <2>3
<1>3. ASSUME s # <<>> PROVE Head(s) \in P /\ \A i \in DOMAIN Tail(s) : Tail(s)[i] \in P
  <2>1. /\ Len(s) >= 1 /\ Head(s) = s[1] /\ DOMAIN Tail(s) = 1 .. Len(s) - 1
        /\ \A i \in 1 .. Len(s) - 1 : Tail(s)[i] = s[i + 1]
    BY <1>1, <1>3, HeadTailProperties, EmptySeq, LenProperties
  <2> QED BY <1>1, <2>1
<1> QED BY <1>2, <1>3

\* Inside the furnace: a store puts the pizza of the cook in, or takes one out.
LEMMA TouchFurnace ==
  ASSUME IInv, UNCHANGED signalVars, UNCHANGED <<tableVars, loopVars>>, NEW c \in Cooks, F!Inner(c)
  PROVE  IInv'
<1>1. /\ UNCHANGED <<tableSem, table, tableLoc, pc, pizza, made>>
      /\ UNCHANGED <<removed, received, master, life>>
  BY DEF tableVars, loopVars, signalVars
<1>2. c \in Workers /\ c \notin Janusze /\ FP!Inner(c) BY PizzeriaAssumption, SameFurnace DEF Workers
<1>3. Rings' BY <1>1, FurnaceStep DEF IInv
<1>4. Loops' BY <1>1 DEF IInv, Loops
<1>5. UNCHANGED <<F!Inside, T!Inside>>
  <2>1. /\ furnaceLoc[c].at # "out" /\ furnaceLoc'[c].at # "out"
        /\ \A v \in Cooks : v # c => furnaceLoc'[v] = furnaceLoc[v]
    BY <1>2, Frames
       DEF FP!Inner, FP!Access, FP!PutLoad, FP!PutStore, FP!GetLoad, FP!GetStore, FP!Goto, FP!Frame
  <2>2. F!Inside' = F!Inside BY <2>1 DEF F!Inside
  <2> QED BY <1>1, <2>2 DEF T!Inside
<1>6. ASSUME ~removed PROVE Others(c) /\ Stands(c)' /\ RingsHoldPizzas' /\ Balanced(c)
  <2>0. FP!IInv /\ RingsHoldPizzas /\ RingTypes /\ CookPosture(c)
    BY <1>6, RingsTyped DEF IInv, Rings, WhileLocked, Posture
  <2>t. TP!Contents' = TP!Contents BY <1>1 DEF TP!Contents, TP!Slot
  <2> DEFINE s == FP!Contents
             P == Pizzas \cup {NoPizza}
  <2>1. /\ \A v \in Cooks : v # c => furnaceLoc'[v] = furnaceLoc[v]
        /\ s \in Seq(P)
        /\ \/ /\ furnaceLoc[c].at = "put" /\ furnaceLoc'[c].at = "store"
              /\ furnaceLoc'[c].pizza = furnaceLoc[c].pizza
              /\ s' = s /\ furnace'.usage = furnace.usage
           \/ /\ furnaceLoc[c].at = "get" /\ furnaceLoc'[c].at = "remove"
              /\ s' = s /\ furnace'.usage = furnace.usage
           \/ /\ furnaceLoc[c].at = "store" /\ furnaceLoc'[c].at = "stored" /\ furnaceLoc[c].pizza \in Pizzas
              /\ s' = Append(s, furnaceLoc[c].pizza) /\ furnace'.usage = furnace.usage + 1
           \/ /\ furnaceLoc[c].at = "remove" /\ furnaceLoc'[c].at = "removed"
              /\ s # <<>> /\ furnaceLoc'[c].pizza = Head(s)
              /\ s' = Tail(s) /\ furnace'.usage = furnace.usage - 1
    BY <1>2, <2>0, FP!InnerEffect, FurnaceFits
  <2>2. Others(c) BY <1>1, <2>1 DEF Others
  <2>3. \A i \in DOMAIN s : s[i] \in Pizzas BY <2>0 DEF RingsHoldPizzas
  <2>4. s # <<>> => Head(s) \in Pizzas /\ \A i \in DOMAIN Tail(s) : Tail(s)[i] \in Pizzas
    BY <2>1, <2>3, OfPizzas
  <2>5. Stands(c)' BY <1>1, <1>2, <2>0, <2>1, <2>4, Frames DEF Stands, CookPosture
  <2>6. pizza[c] \notin Pizzas /\ tableLoc[c].at = "out" /\ pc[c] \in {"putting", "getting"}
    BY <2>0, <2>1, Frames DEF CookPosture
  <2>7. CASE s' = s /\ furnace'.usage = furnace.usage
    <3>1. /\ furnaceLoc[c].at = "put" \/ furnaceLoc[c].at = "get"
          /\ furnaceLoc[c].at = "put" => furnaceLoc'[c].at = "store"
                                         /\ furnaceLoc'[c].pizza = furnaceLoc[c].pizza
          /\ furnaceLoc[c].at = "get" => furnaceLoc'[c].at = "remove"
      BY <2>0, <2>1, <2>7 DEF RingTypes
    <3>2. ASSUME NEW y \in Pizzas PROVE Carrying(c, y)' <=> Carrying(c, y)
      BY <1>1, <3>1 DEF Carrying
    <3>3. (c \in Cooks /\ Baking(c))' <=> (c \in Cooks /\ Baking(c)) BY <1>1, <3>1 DEF Baking
    <3>4. Balanced(c) /\ RingsHoldPizzas'
      BY <1>1, <2>0, <2>t, <2>7, <3>2, <3>3, NothingMoves DEF RingTypes
    <3> QED BY <2>2, <2>5, <3>4
  <2>8. CASE /\ furnaceLoc[c].at = "store" /\ furnaceLoc'[c].at = "stored" /\ furnaceLoc[c].pizza \in Pizzas
             /\ s' = Append(s, furnaceLoc[c].pizza) /\ furnace'.usage = furnace.usage + 1
    <3>1. RingsHoldPizzas' BY <2>0, <2>1, <2>3, <2>8, <2>t, OfPizzas DEF RingsHoldPizzas
    <3>2. ASSUME NEW y \in Pizzas PROVE ~Carrying(c, y)' /\ Carrying(c, y) = (furnaceLoc[c].pizza = y)
      BY <1>1, <2>6, <2>8 DEF Carrying
    <3>3. ASSUME NEW y \in Pizzas
          PROVE  One(Carrying(c, y)') + Copies(FP!Contents', y) + Copies(TP!Contents', y) + One(y \in made)
                   = One(Carrying(c, y)) + Copies(FP!Contents, y) + Copies(TP!Contents, y) + One(y \in made')
      <4> DEFINE c1 == One(Carrying(c, y))
                 c2 == One(Carrying(c, y)')
                 e == One(furnaceLoc[c].pizza = y)
                 f1 == Copies(FP!Contents, y)
                 f2 == Copies(FP!Contents', y)
                 t == Copies(TP!Contents, y)
                 m == One(y \in made)
      <4>1. c2 = 0 /\ c1 = e /\ e \in Nat /\ m \in Nat BY <3>2 DEF One
      <4>2. f2 = f1 + e BY <2>1, <2>8, CopiesAppend
      <4>3. f1 \in Nat /\ t \in Nat BY <2>0, CopiesNat DEF RingTypes
      <4>4. Copies(TP!Contents', y) = t /\ One(y \in made') = m BY <1>1, <2>t
      <4> HIDE DEF c1, c2, e, f1, f2, t, m
      <4>5. c2 + f2 + t + m = c1 + f1 + t + m BY <4>1, <4>2, <4>3
      <4> QED BY <4>4, <4>5 DEF c1, c2, f1, f2, t, m
    <3>4. ~Baking(c) /\ Baking(c)' BY <1>1, <2>0, <2>8 DEF Baking, CookPosture
    <3>5. furnace'.usage - furnace.usage = One((c \in Cooks /\ Baking(c))') - One(c \in Cooks /\ Baking(c))
      <4>1. One((c \in Cooks /\ Baking(c))') = 1 /\ One(c \in Cooks /\ Baking(c)) = 0 BY <3>4 DEF One
      <4> QED BY <2>0, <2>8, <4>1 DEF RingTypes
    <3> QED BY <2>2, <2>5, <3>1, <3>3, <3>5 DEF Balanced
  <2>9. CASE /\ furnaceLoc[c].at = "remove" /\ furnaceLoc'[c].at = "removed"
             /\ s # <<>> /\ furnaceLoc'[c].pizza = Head(s)
             /\ s' = Tail(s) /\ furnace'.usage = furnace.usage - 1
    <3>1. RingsHoldPizzas' BY <2>0, <2>4, <2>9, <2>t DEF RingsHoldPizzas
    <3>2. ASSUME NEW y \in Pizzas PROVE ~Carrying(c, y) /\ Carrying(c, y)' = (Head(s) = y)
      BY <1>1, <2>6, <2>9 DEF Carrying
    <3>3. ASSUME NEW y \in Pizzas
          PROVE  One(Carrying(c, y)') + Copies(FP!Contents', y) + Copies(TP!Contents', y) + One(y \in made)
                   = One(Carrying(c, y)) + Copies(FP!Contents, y) + Copies(TP!Contents, y) + One(y \in made')
      <4> DEFINE c1 == One(Carrying(c, y))
                 c2 == One(Carrying(c, y)')
                 e == One(Head(s) = y)
                 f1 == Copies(FP!Contents, y)
                 f2 == Copies(FP!Contents', y)
                 t == Copies(TP!Contents, y)
                 m == One(y \in made)
      <4>1. c1 = 0 /\ c2 = e /\ e \in Nat /\ m \in Nat BY <3>2 DEF One
      <4>2. f2 = f1 - e BY <2>1, <2>9, CopiesTail
      <4>3. f1 \in Nat /\ t \in Nat BY <2>0, CopiesNat DEF RingTypes
      <4>4. Copies(TP!Contents', y) = t /\ One(y \in made') = m BY <1>1, <2>t
      <4> HIDE DEF c1, c2, e, f1, f2, t, m
      <4>5. c2 + f2 + t + m = c1 + f1 + t + m BY <4>1, <4>2, <4>3
      <4> QED BY <4>4, <4>5 DEF c1, c2, f1, f2, t, m
    <3>4. Baking(c) /\ ~Baking(c)' BY <1>1, <2>0, <2>9 DEF Baking, CookPosture
    <3>5. furnace'.usage - furnace.usage = One((c \in Cooks /\ Baking(c))') - One(c \in Cooks /\ Baking(c))
      <4>1. One((c \in Cooks /\ Baking(c))') = 0 /\ One(c \in Cooks /\ Baking(c)) = 1 BY <3>4 DEF One
      <4> QED BY <2>0, <2>9, <4>1 DEF RingTypes
    <3> QED BY <2>2, <2>5, <3>1, <3>3, <3>5 DEF Balanced
  <2> HIDE DEF s
  <2> QED BY <2>1, <2>7, <2>8, <2>9
<1> QED BY <1>2, <1>3, <1>4, <1>5, <1>6, WorkerStep

\* Inside the table's ring: a cook leaves its pizza there, a deliverer takes one.
LEMMA TouchTable ==
  ASSUME IInv, UNCHANGED signalVars, UNCHANGED <<furnaceVars, loopVars>>, NEW w \in Workers, T!Inner(w)
  PROVE  IInv'
<1>1. /\ UNCHANGED <<furnaceSem, furnace, furnaceLoc, pc, pizza, made>>
      /\ UNCHANGED <<removed, received, master, life>>
  BY DEF furnaceVars, loopVars, signalVars
<1>2. (w \in Cooks \/ w \in Janusze) /\ TP!Inner(w) BY PizzeriaAssumption, SameTable DEF Workers
<1>3. Rings' BY <1>1, TableStep DEF IInv
<1>4. Loops' BY <1>1 DEF IInv, Loops
<1>5. UNCHANGED <<F!Inside, T!Inside>>
  <2>1. /\ tableLoc[w].at # "out" /\ tableLoc'[w].at # "out"
        /\ \A v \in Workers : v # w => tableLoc'[v] = tableLoc[v]
    BY <1>2, Frames
       DEF TP!Inner, TP!Access, TP!PutLoad, TP!PutStore, TP!GetLoad, TP!GetStore, TP!Goto, TP!Frame
  <2>2. T!Inside' = T!Inside BY <2>1 DEF T!Inside
  <2> QED BY <1>1, <2>2 DEF F!Inside
<1>6. ASSUME ~removed PROVE Others(w) /\ Stands(w)' /\ RingsHoldPizzas' /\ Balanced(w)
  <2>0. TP!IInv /\ RingsHoldPizzas /\ RingTypes
    BY <1>6, RingsTyped DEF IInv, Rings, WhileLocked
  <2>p. (w \in Cooks => CookPosture(w)) /\ (w \in Janusze => JanuszPosture(w))
    BY <1>6 DEF IInv, WhileLocked, Posture
  <2>t. FP!Contents' = FP!Contents BY <1>1 DEF FP!Contents, FP!Slot
  <2> DEFINE s == TP!Contents
             P == Pizzas \cup {NoPizza}
  <2>1. /\ \A v \in Workers : v # w => tableLoc'[v] = tableLoc[v]
        /\ s \in Seq(P)
        /\ \/ /\ tableLoc[w].at = "put" /\ tableLoc'[w].at = "store"
              /\ tableLoc'[w].pizza = tableLoc[w].pizza /\ s' = s
           \/ tableLoc[w].at = "get" /\ tableLoc'[w].at = "remove" /\ s' = s
           \/ /\ tableLoc[w].at = "store" /\ tableLoc'[w].at = "stored" /\ tableLoc[w].pizza \in Pizzas
              /\ s' = Append(s, tableLoc[w].pizza)
           \/ /\ tableLoc[w].at = "remove" /\ tableLoc'[w].at = "removed"
              /\ s # <<>> /\ tableLoc'[w].pizza = Head(s) /\ s' = Tail(s)
    BY <1>2, <2>0, TP!InnerEffect, TableFits
  <2>2. Others(w) BY <1>1, <2>1 DEF Others
  <2>3. \A i \in DOMAIN s : s[i] \in Pizzas BY <2>0 DEF RingsHoldPizzas
  <2>4. s # <<>> => Head(s) \in Pizzas /\ \A i \in DOMAIN Tail(s) : Tail(s)[i] \in Pizzas
    BY <2>1, <2>3, OfPizzas
  <2>5. Stands(w)'
    <3>1. tableLoc[w].at # "out"
      BY <2>1
    <3>2. w \in Cooks => CookPosture(w)' BY <1>1, <2>p, <2>1, <3>1, Frames DEF CookPosture
    <3>3. w \in Janusze => JanuszPosture(w)' BY <1>1, <2>p, <2>1, <2>4, <3>1, Frames DEF JanuszPosture
    <3> QED BY <3>2, <3>3 DEF Stands
  <2>6. pizza[w] \notin Pizzas /\ (w \in Cooks => furnaceLoc[w].at = "out" /\ pc[w] = "serving")
    BY <1>2, <2>p, <2>1, Frames DEF CookPosture, JanuszPosture
  <2>b. (w \in Cooks /\ Baking(w))' <=> (w \in Cooks /\ Baking(w)) BY <1>1 DEF Baking
  <2>u. furnace'.usage - furnace.usage = One((w \in Cooks /\ Baking(w))') - One(w \in Cooks /\ Baking(w))
    BY <1>1, <2>0, <2>b DEF One, RingTypes
  <2>7. CASE s' = s
    <3>1. /\ tableLoc[w].at = "put" \/ tableLoc[w].at = "get"
          /\ tableLoc[w].at = "put" => tableLoc'[w].at = "store" /\ tableLoc'[w].pizza = tableLoc[w].pizza
          /\ tableLoc[w].at = "get" => tableLoc'[w].at = "remove"
      <4>1. ASSUME NEW x \in P PROVE Append(s, x) # s
        <5>1. Len(Append(s, x)) = Len(s) + 1 /\ Len(s) \in Nat
          BY <2>1, AppendProperties, LenProperties
        <5> QED BY <5>1
      <4>2. s # <<>> => Tail(s) # s
        <5>1. s # <<>> => Len(Tail(s)) = Len(s) - 1 /\ Len(s) \in Nat
          BY <2>1, HeadTailProperties, LenProperties
        <5> QED BY <5>1
      <4> HIDE DEF s
      <4> QED BY <2>1, <2>7, <4>1, <4>2
    <3>2. ASSUME NEW y \in Pizzas PROVE Carrying(w, y)' <=> Carrying(w, y)
      BY <1>1, <3>1 DEF Carrying
    <3>4. Balanced(w) /\ RingsHoldPizzas'
      BY <1>1, <2>0, <2>t, <2>7, <3>2, <2>b, NothingMoves DEF RingTypes
    <3> QED BY <2>2, <2>5, <3>4
  <2>8. CASE /\ tableLoc[w].at = "store" /\ tableLoc'[w].at = "stored" /\ tableLoc[w].pizza \in Pizzas
             /\ s' = Append(s, tableLoc[w].pizza)
    <3>1. RingsHoldPizzas' BY <2>0, <2>1, <2>3, <2>8, <2>t, OfPizzas DEF RingsHoldPizzas
    <3>2. ASSUME NEW y \in Pizzas PROVE ~Carrying(w, y)' /\ Carrying(w, y) = (tableLoc[w].pizza = y)
      BY <1>1, <2>6, <2>8 DEF Carrying
    <3>3. ASSUME NEW y \in Pizzas
          PROVE  One(Carrying(w, y)') + Copies(FP!Contents', y) + Copies(TP!Contents', y) + One(y \in made)
                   = One(Carrying(w, y)) + Copies(FP!Contents, y) + Copies(TP!Contents, y) + One(y \in made')
      <4> DEFINE c1 == One(Carrying(w, y))
                 c2 == One(Carrying(w, y)')
                 e == One(tableLoc[w].pizza = y)
                 f == Copies(FP!Contents, y)
                 t1 == Copies(TP!Contents, y)
                 t2 == Copies(TP!Contents', y)
                 m == One(y \in made)
      <4>1. c2 = 0 /\ c1 = e /\ e \in Nat /\ m \in Nat BY <3>2 DEF One
      <4>2. t2 = t1 + e BY <2>1, <2>8, CopiesAppend
      <4>3. f \in Nat /\ t1 \in Nat BY <2>0, CopiesNat DEF RingTypes
      <4>4. Copies(FP!Contents', y) = f /\ One(y \in made') = m BY <1>1, <2>t
      <4> HIDE DEF c1, c2, e, f, t1, t2, m
      <4>5. c2 + f + t2 + m = c1 + f + t1 + m BY <4>1, <4>2, <4>3
      <4> QED BY <4>4, <4>5 DEF c1, c2, f, t1, t2, m
    <3> QED BY <2>2, <2>5, <2>u, <3>1, <3>3 DEF Balanced
  <2>9. CASE /\ tableLoc[w].at = "remove" /\ tableLoc'[w].at = "removed"
             /\ s # <<>> /\ tableLoc'[w].pizza = Head(s) /\ s' = Tail(s)
    <3>1. RingsHoldPizzas' BY <2>0, <2>4, <2>9, <2>t DEF RingsHoldPizzas
    <3>2. ASSUME NEW y \in Pizzas PROVE ~Carrying(w, y) /\ Carrying(w, y)' = (Head(s) = y)
      BY <1>1, <2>6, <2>9 DEF Carrying
    <3>3. ASSUME NEW y \in Pizzas
          PROVE  One(Carrying(w, y)') + Copies(FP!Contents', y) + Copies(TP!Contents', y) + One(y \in made)
                   = One(Carrying(w, y)) + Copies(FP!Contents, y) + Copies(TP!Contents, y) + One(y \in made')
      <4> DEFINE c1 == One(Carrying(w, y))
                 c2 == One(Carrying(w, y)')
                 e == One(Head(s) = y)
                 f == Copies(FP!Contents, y)
                 t1 == Copies(TP!Contents, y)
                 t2 == Copies(TP!Contents', y)
                 m == One(y \in made)
      <4>1. c1 = 0 /\ c2 = e /\ e \in Nat /\ m \in Nat BY <3>2 DEF One
      <4>2. t2 = t1 - e BY <2>1, <2>9, CopiesTail
      <4>3. f \in Nat /\ t1 \in Nat BY <2>0, CopiesNat DEF RingTypes
      <4>4. Copies(FP!Contents', y) = f /\ One(y \in made') = m BY <1>1, <2>t
      <4> HIDE DEF c1, c2, e, f, t1, t2, m
      <4>5. c2 + f + t2 + m = c1 + f + t1 + m BY <4>1, <4>2, <4>3
      <4> QED BY <4>4, <4>5 DEF c1, c2, f, t1, t2, m
    <3> QED BY <2>2, <2>5, <2>u, <3>1, <3>3 DEF Balanced
  <2> HIDE DEF s
  <2> QED BY <2>1, <2>7, <2>8, <2>9
<1> QED BY <1>1, <1>3, <1>4, <1>5, <1>6, WorkerStep

-----------------------------------------------------------------------------
(* The other steps, and the invariant.                                     *)

LEMMA WorksStep ==
  ASSUME IInv, NEW w \in Workers, Works(w)
  PROVE  IInv'
<1>1. UNCHANGED signalVars BY DEF Works
<1>2. CASE Touches(w)
  <2>1. CASE w \in Cooks /\ F!Inner(w) /\ UNCHANGED <<tableVars, loopVars>>
    BY <1>1, <2>1, TouchFurnace
  <2>2. CASE T!Inner(w) /\ UNCHANGED <<furnaceVars, loopVars>>
    BY <1>1, <2>2, TouchTable
  <2> QED BY <1>2, <2>1, <2>2 DEF Touches
<1>3. CASE life[w] = "alive" /\ Calls(w)
  BY <1>1, <1>3, PrepareStep, BakesStep, ServesStep, TakesStep, DeliverStep DEF Calls
<1> QED BY <1>2, <1>3 DEF Works

LEMMA WhileLockedRests ==
  ASSUME WhileLocked, UNCHANGED <<furnaceVars, tableVars, loopVars>>
  PROVE  WhileLocked'
<1>1. UNCHANGED <<furnaceSem, furnace, furnaceLoc, tableSem, table, tableLoc, pc, pizza, made>>
  BY DEF furnaceVars, tableVars, loopVars
<1>2. UNCHANGED <<FP!Contents, TP!Contents>> BY <1>1 DEF FP!Contents, FP!Slot, TP!Contents, TP!Slot
<1>3. Posture' BY <1>1 DEF WhileLocked, Posture, CookPosture, JanuszPosture
<1>4. RingsHoldPizzas' BY <1>2 DEF WhileLocked, RingsHoldPizzas
<1>5. Counted'
  <2>1. ASSUME NEW y \in Pizzas PROVE Count(y)' = Count(y)
    <3>1. Carriers(y)' = Carriers(y) BY <1>1 DEF Carriers, Carrying
    <3> QED BY <1>2, <3>1 DEF Count
  <2> QED BY <1>1, <2>1 DEF WhileLocked, Counted
<1>6. Bakers' = Bakers BY <1>1 DEF Bakers, Baking
<1> QED BY <1>1, <1>3, <1>4, <1>5, <1>6 DEF WhileLocked

\* A step that is no worker's, other than the master's deleting of the semaphores.
LEMMA RestStep ==
  ASSUME IInv, UNCHANGED <<furnaceVars, tableVars, loopVars, removed>>, Ends', Loops',
         received \subseteq received'
  PROVE  IInv'
<1>1. Rings' BY RingsRest DEF IInv
<1>2. UNCHANGED <<F!Inside, T!Inside>> BY DEF F!Inside, T!Inside, furnaceVars, tableVars
<1>3. SigintKeepsLocks' BY <1>2 DEF IInv, SigintKeepsLocks, Alone
<1>4. ~removed' => WhileLocked' BY WhileLockedRests DEF IInv
<1> QED BY <1>1, <1>3, <1>4 DEF IInv

LEMMA DiesStep ==
  ASSUME IInv, NEW w \in Workers, Dies(w)
  PROVE  IInv'
<1>1. /\ UNCHANGED <<removed, master, received, pc, pizza, made>>
      /\ life' = [life EXCEPT ![w] = "dead"]
  BY DEF Dies, loopVars
<1>2. Loops' BY <1>1 DEF IInv, Loops
<1>3. Ends' BY <1>1 DEF IInv, Ends, Loops
<1> QED BY <1>1, <1>2, <1>3, RestStep DEF Dies

LEMMA SignalStep ==
  ASSUME IInv, NEW s \in Signals, Signal(s)
  PROVE  IInv'
<1>1. /\ UNCHANGED <<removed, pc, pizza, made>> /\ received' = received \cup {s} /\ master' = "delete"
      /\ master # "gone"
      /\ life' = IF s = "SIGINT"
                 THEN [w \in Workers |-> IF life[w] = "alive" THEN "dying" ELSE life[w]]
                 ELSE life
  BY DEF Signal, loopVars
<1>2. Loops' BY <1>1 DEF IInv, Loops
<1>3. Ends' BY <1>1 DEF IInv, Ends, Loops
<1> QED BY <1>1, <1>2, <1>3, RestStep DEF Signal

LEMMA DeleteStep ==
  ASSUME IInv, pizzeria_delete
  PROVE  IInv'
<1>1. /\ master = "delete" /\ master' = "gone" /\ removed' = TRUE
      /\ UNCHANGED <<furnaceVars, tableVars, received, life, pc, pizza, made>>
  BY DEF pizzeria_delete, loopVars
<1>2. Rings' BY <1>1, RingsRest DEF IInv
<1>3. Loops' BY <1>1 DEF IInv, Loops
<1>4. Ends' BY <1>1 DEF IInv, Ends
<1>5. UNCHANGED <<F!Inside, T!Inside>> BY <1>1 DEF F!Inside, T!Inside, furnaceVars, tableVars
<1>6. SigintKeepsLocks' BY <1>1, <1>5 DEF IInv, SigintKeepsLocks, Alone
<1> QED BY <1>1, <1>2, <1>3, <1>4, <1>6 DEF IInv

LEMMA NextIInv == IInv /\ [Next]_vars => IInv'
<1> SUFFICES ASSUME IInv, [Next]_vars PROVE IInv'
  OBVIOUS
<1>1. CASE UNCHANGED vars
  <2>1. UNCHANGED <<furnaceVars, tableVars, loopVars, removed, pc, pizza, made, master, received, life>>
    BY <1>1 DEF vars, loopVars, signalVars
  <2>2. Loops' /\ Ends' BY <2>1 DEF IInv, Loops, Ends
  <2> QED BY <2>1, <2>2, RestStep
<1>2. CASE Next BY <1>2, WorksStep, DiesStep, SignalStep, DeleteStep DEF Next
<1> QED BY <1>1, <1>2

\* Nobody carries anything yet, and the rings are empty.
LEMMA InitIInv == Init => IInv
<1> SUFFICES ASSUME Init PROVE IInv
  OBVIOUS
<1>1. /\ FP!Init /\ TP!Init /\ removed = FALSE
      /\ furnaceLoc = [w \in Cooks |-> FP!Outside] /\ tableLoc = [w \in Workers |-> TP!Outside]
      /\ furnace.usage = 0 /\ table.usage = 0
  BY DEF Init, F!Init, FP!Init, F!InitSem, FP!InitSem, F!InitRing, FP!InitRing, F!Outside, FP!Outside,
         F!Frame, FP!Frame, F!Slots, FP!Slots,
         T!Init, TP!Init, T!InitSem, TP!InitSem, T!InitRing, TP!InitRing, T!Outside, TP!Outside,
         T!Frame, TP!Frame, T!Slots, TP!Slots
<1>2. /\ pc = [w \in Workers |-> IF w \in Cooks THEN "prepare" ELSE "take"]
      /\ pizza = [w \in Workers |-> NoPizza] /\ made = {} /\ received = {}
      /\ master = "wait" /\ life = [w \in Workers |-> "alive"]
  BY DEF Init
<1>3. Rings
  <2>1. FP!IInv /\ TP!IInv BY <1>1, FP!InitIInv, TP!InitIInv, FurnaceFits, TableFits
  <2>2. FP!Wide
    BY <2>1, FurnaceFits DEF FP!IInv, FP!TypeOK, FP!RingType, FP!Wide, FP!Spots
  <2>3. TP!Wide
    BY <2>1, TableFits DEF TP!IInv, TP!TypeOK, TP!RingType, TP!Wide, TP!Spots
  <2> QED BY <2>1, <2>2, <2>3 DEF Rings
<1>4. Loops BY <1>2 DEF Loops
<1>5. Ends BY <1>1, <1>2 DEF Ends
<1>6. /\ \A c \in Cooks : furnaceLoc[c].at = "out"
      /\ \A w \in Workers : tableLoc[w].at = "out"
  BY <1>1 DEF FP!Outside, FP!Frame, TP!Outside, TP!Frame
<1>7. SigintKeepsLocks BY <1>6 DEF SigintKeepsLocks, Alone, F!Inside, T!Inside
<1>8. Posture
  BY <1>2, <1>6, PizzeriaAssumption DEF Posture, CookPosture, JanuszPosture, Workers
<1>9. FP!Contents = <<>> /\ TP!Contents = <<>>
  BY <1>1 DEF FP!Contents, TP!Contents
<1>10. RingsHoldPizzas BY <1>9 DEF RingsHoldPizzas
<1>11. Counted
  <2> SUFFICES ASSUME NEW y \in Pizzas PROVE Count(y) = 0 BY <1>2 DEF Counted
  <2>1. Carriers(y) = {} BY <1>2, <1>6, PizzeriaAssumption DEF Carriers, Carrying
  <2>2. Copies(<<>>, y) = 0
    <3>1. {i \in DOMAIN <<>> : <<>>[i] = y} = {} OBVIOUS
    <3> QED BY <3>1, FS_EmptySet DEF Copies
  <2>3. Cardinality(Carriers(y)) = 0 BY <2>1, FS_EmptySet
  <2> QED BY <1>9, <2>2, <2>3 DEF Count
<1>12. Bakers = {} BY <1>2, PizzeriaAssumption DEF Bakers, Baking, Workers
<1>13. furnace.usage = Cardinality(Bakers) BY <1>1, <1>12, FS_EmptySet
<1> QED BY <1>3, <1>4, <1>5, <1>7, <1>8, <1>10, <1>11, <1>13 DEF IInv, WhileLocked

\* The invariant of the workers, the rings and the master.
THEOREM Invariant == Spec => []IInv
BY InitIInv, NextIInv, PTL DEF Spec

\* No pizza is lost or doubled on its way from a cook to a deliverer, and every part of the
\* state keeps its type, for any numbers of cooks, deliverers and pizzas and any two rings.
THEOREM PizzasAreKept == Spec => []EveryPizzaOnce
<1>1. IInv => EveryPizzaOnce
  <2> SUFFICES ASSUME IInv PROVE EveryPizzaOnce
    OBVIOUS
  <2>1. TypeOK
    <3>1. ~removed => F!TypeOK /\ T!TypeOK
      BY DEF IInv, Rings, FP!IInv, TP!IInv, FP!TypeOK, F!TypeOK, TP!TypeOK, T!TypeOK,
             FP!RingType, F!RingType, TP!RingType, T!RingType, FP!Slots, F!Slots, TP!Slots, T!Slots
    <3> QED BY <3>1 DEF IInv, Loops, TypeOK
  <2>2. F!Contents = FP!Contents /\ T!Contents = TP!Contents
    BY DEF F!Contents, FP!Contents, T!Contents, TP!Contents, F!Slot, FP!Slot, T!Slot, TP!Slot
  <2>3. ASSUME ~removed, NEW z \in Pizzas
        PROVE  Cardinality({w \in Workers : Carrying(w, z)}) + Copies(F!Contents, z) + Copies(T!Contents, z)
                 = IF z \in made THEN 1 ELSE 0
    BY <2>2, <2>3 DEF IInv, WhileLocked, Counted, Count, Carriers
  <2> QED BY <2>1, <2>3 DEF EveryPizzaOnce
<1> QED BY <1>1, Invariant, PTL

\* The furnace holds one pizza for each cook that bakes, so no cook waits at an empty furnace.
THEOREM FurnaceIsShared == Spec => []OnePizzaPerBakingCook
<1>1. IInv => OnePizzaPerBakingCook BY DEF IInv, WhileLocked, Bakers, OnePizzaPerBakingCook
<1> QED BY <1>1, Invariant, PTL

\* After a SIGINT nobody works on without the semaphores the master deletes.
THEOREM CleanEnd == Spec => []SigintKeepsLocks
BY Invariant, PTL DEF IInv
=============================================================================
