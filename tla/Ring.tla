-------------------------------- MODULE Ring --------------------------------
(***************************************************************************)
(* The ring buffer in shared memory behind the furnace and the table of    *)
(* the pizzeria (cw07): what put and get do to it once they are past their *)
(* semaphores.  zad1 and zad2 share this code and differ in how they wait  *)
(* (SemRing, PosixRing); table.c is furnace.c on other fields.             *)
(*                                                                         *)
(* put and get each take two steps, one that reads the shared fields and   *)
(* one that writes them, so two workers inside at once do lose updates.    *)
(***************************************************************************)
EXTENDS Integers, FiniteSets

CONSTANTS
  Workers,    \* the processes that use the ring
  Pizzas,
  NoPizza,    \* what a slot holds before the first pizza is put there
  Size        \* FURNACE_SIZE, TABLE_SIZE

ASSUME SizeAssumption == Size \in Nat \ {0}
ASSUME WorkersAssumption == IsFiniteSet(Workers)

Slots == 0 .. Size - 1

VARIABLES
  ring,       \* furnace_t: arr, read_head, write_head, usage
  loc         \* loc[w]: where w is in put or get, its result and its registers

InitRing == [arr |-> [i \in Slots |-> NoPizza], read_head |-> 0, write_head |-> 0, usage |-> 0]

Frame(l, z, h, n) == [at |-> l, pizza |-> z, head |-> h, usage |-> n]
Outside == Frame("out", NoPizza, 0, 0)
Goto(w, f) == loc' = [loc EXCEPT ![w] = f]

PutLoad(w) ==
  /\ loc[w].at = "put"
  /\ Goto(w, Frame("store", loc[w].pizza, ring.write_head, ring.usage))
  /\ UNCHANGED ring

PutStore(w) ==
  /\ loc[w].at = "store"
  /\ ring' = [ring EXCEPT !.arr[loc[w].head] = loc[w].pizza,
                          !.write_head = (loc[w].head + 1) % Size,
                          !.usage = loc[w].usage + 1]
  /\ Goto(w, Frame("stored", loc[w].pizza, 0, loc[w].usage + 1))

GetLoad(w) ==
  /\ loc[w].at = "get"
  /\ Goto(w, Frame("remove", ring.arr[ring.read_head], ring.read_head, ring.usage))
  /\ UNCHANGED ring

\* mutant: the read head stays behind when it has to wrap around
GetStore_NoWrap(w) ==
  /\ loc[w].at = "remove"
  /\ ring' = [ring EXCEPT !.read_head = IF loc[w].head + 1 < Size THEN loc[w].head + 1 ELSE @,
                          !.usage = loc[w].usage - 1]
  /\ Goto(w, Frame("removed", loc[w].pizza, 0, loc[w].usage - 1))

GetStore(w) ==
  /\ loc[w].at = "remove"
  /\ ring' = [ring EXCEPT !.read_head = (loc[w].head + 1) % Size, !.usage = loc[w].usage - 1]
  /\ Goto(w, Frame("removed", loc[w].pizza, 0, loc[w].usage - 1))

\* the critical section: memory only, no system call
Access(w) == PutLoad(w) \/ PutStore(w) \/ GetLoad(w) \/ GetStore(w)

-----------------------------------------------------------------------------

At(l) == {w \in Workers : loc[w].at \in l}

RingType ==
  ring \in [arr : [Slots -> Pizzas \cup {NoPizza}], read_head : Slots, write_head : Slots,
            usage : 0 .. Size]

\* The slot i places behind the oldest pizza.
Slot(i) == IF ring.read_head + i < Size THEN ring.read_head + i ELSE ring.read_head + i - Size

\* The pizzas between the heads, oldest first.
Contents == [i \in 1 .. ring.usage |-> ring.arr[Slot(i - 1)]]

\* A call takes effect in its store.
CallOf(f) ==
  CASE f.at \in {"reserved", "put", "store"} -> [op |-> "put", pizza |-> f.pizza]
    [] f.at \in {"wanted", "get", "remove"} -> [op |-> "get"]
    [] f.at \in {"stored", "removed", "unlock"} ->
         [op |-> "return", pizza |-> f.pizza, usage |-> f.usage]
    [] f.at = "out" -> [op |-> "idle"]

Calls == [w \in Workers |-> CallOf(loc[w])]

Fifo == INSTANCE BoundedFifo WITH queue <- Contents, call <- Calls
=============================================================================
