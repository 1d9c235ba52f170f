---------------------------- MODULE BoundedFifo ----------------------------
(***************************************************************************)
(* What furnace.c and table.c promise their callers (cw07): a queue of at  *)
(* most Size pizzas that many processes use at once.  put adds a pizza at  *)
(* the end, get takes the oldest one, and both report how many pizzas are  *)
(* in the queue, each as if it had happened at one instant between its     *)
(* call and its return.                                                    *)
(***************************************************************************)
EXTENDS Integers, Sequences

CONSTANTS Workers, Pizzas, Size

VARIABLES
  queue,    \* the pizzas, oldest first
  call      \* call[w]: what worker w is doing with the queue

Idle == [op |-> "idle"]
Putting(z) == [op |-> "put", pizza |-> z]
Getting == [op |-> "get"]
Returning(z, n) == [op |-> "return", pizza |-> z, usage |-> n]

Init == queue = <<>> /\ call = [w \in Workers |-> Idle]

Begin(w) ==
  /\ call[w] = Idle
  /\ \E c \in {Getting} \cup {Putting(z) : z \in Pizzas} :
       call' = [call EXCEPT ![w] = c]
  /\ UNCHANGED queue

Put(w, z) ==
  /\ call[w] = Putting(z)
  /\ Len(queue) < Size
  /\ queue' = Append(queue, z)
  /\ call' = [call EXCEPT ![w] = Returning(z, Len(queue'))]

Get(w) ==
  /\ call[w] = Getting
  /\ queue # <<>>
  /\ queue' = Tail(queue)
  /\ call' = [call EXCEPT ![w] = Returning(Head(queue), Len(queue'))]

Return(w) ==
  /\ call[w].op = "return"
  /\ call' = [call EXCEPT ![w] = Idle]
  /\ UNCHANGED queue

Next == \E w \in Workers : Begin(w) \/ Get(w) \/ Return(w) \/ \E z \in Pizzas : Put(w, z)

Spec == Init /\ [][Next]_<<queue, call>>
=============================================================================
