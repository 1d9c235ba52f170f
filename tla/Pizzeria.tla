------------------------------ MODULE Pizzeria ------------------------------
(***************************************************************************)
(* The pizzeria of cw07/.../zad1: cooks move pizzas through the furnace to *)
(* the table, deliverers (janusz.c) take them from there, and the master   *)
(* waits until a signal interrupts it and then deletes the shared memory   *)
(* and the semaphores.  The furnace and the table are two SemRings whose   *)
(* semaphores belong to one set.                                           *)
(*                                                                         *)
(* No code looks at a pizza, so pizzas are tokens: a cook prepares one     *)
(* that is not around, no matter which, and how many there are bounds the  *)
(* model.  The waits of the workers (worker_wait) may take any time.       *)
(***************************************************************************)
EXTENDS Integers, FiniteSets

CONSTANTS
  Cooks, Janusze,               \* N_COOKS, N_JANUSZ
  Pizzas, NoPizza,
  FURNACE_SIZE, TABLE_SIZE,
  Signals,                      \* the signals the master may get
  Strays                        \* bound: steps of workers the master left behind

ASSUME PizzeriaAssumption ==
  /\ IsFiniteSet(Cooks) /\ IsFiniteSet(Janusze) /\ Cooks \cap Janusze = {}
  /\ NoPizza \notin Pizzas
  /\ FURNACE_SIZE \in Nat \ {0} /\ TABLE_SIZE \in Nat \ {0}
  /\ Signals \subseteq {"SIGINT", "SIGTERM"}    \* those it has a handler for

Workers == Cooks \cup Janusze

VARIABLES
  removed,                      \* pizzeria_delete has run
  furnaceSem, furnace, furnaceLoc,
  tableSem, table, tableLoc,
  pc,                           \* where each worker is in its loop in main
  pizza,                        \* the pizza in its hands
  made,                         \* pizzas prepared and not yet delivered
  master,                       \* the master: "wait", "delete" or "gone"
  received,                     \* the signals it got
  life,                         \* each worker: "alive", "dying" of a SIGINT, or "dead"
  strays                        \* steps taken by workers after pizzeria_delete

furnaceVars == <<furnaceSem, furnace, furnaceLoc>>
tableVars == <<tableSem, table, tableLoc>>
loopVars == <<pc, pizza, made>>
signalVars == <<removed, master, received, life>>
vars == <<furnaceVars, tableVars, loopVars, signalVars, strays>>

F == INSTANCE SemRing WITH
       Workers <- Cooks, Size <- FURNACE_SIZE,
       sem <- furnaceSem, ring <- furnace, loc <- furnaceLoc
T == INSTANCE SemRing WITH
       Size <- TABLE_SIZE, sem <- tableSem, ring <- table, loc <- tableLoc

Init ==
  /\ F!Init /\ T!Init
  /\ pc = [w \in Workers |-> IF w \in Cooks THEN "prepare" ELSE "take"]
  /\ pizza = [w \in Workers |-> NoPizza]
  /\ made = {}
  /\ master = "wait" /\ received = {}
  /\ life = [w \in Workers |-> "alive"]
  /\ strays = 0

-----------------------------------------------------------------------------
(* The cooks: prepare, furnace_put, wait, furnace_get, table_put; and the  *)
(* deliverers: table_get, deliver.                                         *)

\* w goes on in its loop with pizza z in its hands
Goto(w, l, z) ==
  /\ pc' = [pc EXCEPT ![w] = l]
  /\ pizza' = [pizza EXCEPT ![w] = z]

cook_prepare_pizza(c) ==
  /\ pc[c] = "prepare"
  /\ made # Pizzas
  /\ LET z == CHOOSE y \in Pizzas : y \notin made IN
     Goto(c, "put", z) /\ made' = made \cup {z}
  /\ UNCHANGED <<furnaceVars, tableVars>>

\* mutant: cook_take_out_and_send sends nothing to the table
Bakes_NotSent(c) ==
  /\ \/ /\ pc[c] = "getting" /\ F!Unlock(c) /\ Goto(c, "prepare", NoPizza)
        /\ made' = made \ {furnaceLoc[c].pizza}
     \/ /\ \/ pc[c] = "put" /\ F!PutEnter(c, pizza[c]) /\ Goto(c, "putting", NoPizza)
           \/ pc[c] = "putting" /\ F!Unlock(c) /\ Goto(c, "bake", NoPizza)
           \/ pc[c] = "bake" /\ F!GetEnter(c) /\ Goto(c, "getting", NoPizza)
        /\ UNCHANGED made
  /\ UNCHANGED tableVars

\* cook_put_in_furnace, and the furnace_get of cook_take_out_and_send
Bakes(c) ==
  /\ \/ pc[c] = "put" /\ F!PutEnter(c, pizza[c]) /\ Goto(c, "putting", NoPizza)
     \/ pc[c] = "putting" /\ F!Unlock(c) /\ Goto(c, "bake", NoPizza)
     \/ pc[c] = "bake" /\ F!GetEnter(c) /\ Goto(c, "getting", NoPizza)
     \/ pc[c] = "getting" /\ F!Unlock(c) /\ Goto(c, "serve", furnaceLoc[c].pizza)
  /\ UNCHANGED <<tableVars, made>>

\* its table_put
Serves(c) ==
  /\ \/ pc[c] = "serve" /\ T!PutEnter(c, pizza[c]) /\ Goto(c, "serving", NoPizza)
     \/ pc[c] = "serving" /\ T!Unlock(c) /\ Goto(c, "prepare", NoPizza)
  /\ UNCHANGED <<furnaceVars, made>>

janusz_take_from_table(j) ==
  /\ \/ pc[j] = "take" /\ T!GetEnter(j) /\ Goto(j, "taking", NoPizza)
     \/ pc[j] = "taking" /\ T!Unlock(j) /\ Goto(j, "deliver", tableLoc[j].pizza)
  /\ UNCHANGED <<furnaceVars, made>>

janusz_deliver(j) ==
  /\ pc[j] = "deliver"
  /\ made' = made \ {pizza[j]}
  /\ Goto(j, "take", NoPizza)
  /\ UNCHANGED <<furnaceVars, tableVars>>

\* what a worker does to the memory of a ring it has entered
Touches(w) ==
  /\ \/ w \in Cooks /\ F!Inner(w) /\ UNCHANGED tableVars
     \/ T!Inner(w) /\ UNCHANGED furnaceVars
  /\ UNCHANGED loopVars

Calls(w) ==
  \/ w \in Cooks /\ (cook_prepare_pizza(w) \/ Bakes(w) \/ Serves(w))
  \/ w \in Janusze /\ (janusz_take_from_table(w) \/ janusz_deliver(w))

\* A worker with a SIGINT pending dies when its next system call returns; until
\* then it may still touch memory.
Works(w) ==
  /\ life[w] # "dead"
  /\ Touches(w) \/ (life[w] = "alive" /\ Calls(w))
  /\ IF removed THEN strays < Strays /\ strays' = strays + 1 ELSE UNCHANGED strays
  /\ UNCHANGED signalVars

Dies(w) ==
  /\ life[w] = "dying"
  /\ life' = [life EXCEPT ![w] = "dead"]
  /\ UNCHANGED <<furnaceVars, tableVars, loopVars, removed, master, received, strays>>

-----------------------------------------------------------------------------
(* The master.                                                             *)

\* mutant: the handler forwards the signal to the cooks only
Signal_CooksOnly(s) ==
  /\ master # "gone"
  /\ received' = received \cup {s}
  /\ life' = IF s = "SIGINT"
             THEN [w \in Workers |-> IF life[w] = "alive" /\ w \in Cooks THEN "dying" ELSE life[w]]
             ELSE life
  /\ master' = "delete"
  /\ UNCHANGED <<furnaceVars, tableVars, loopVars, removed, strays>>

\* wait(0) returns with EINTR, whatever sig_handler did, and the loop of main ends
Signal(s) ==
  /\ master # "gone"
  /\ received' = received \cup {s}
  /\ life' = IF s = "SIGINT"
             THEN [w \in Workers |-> IF life[w] = "alive" THEN "dying" ELSE life[w]]
             ELSE life
  /\ master' = "delete"
  /\ UNCHANGED <<furnaceVars, tableVars, loopVars, removed, strays>>

pizzeria_delete ==
  /\ master = "delete" /\ master' = "gone"
  /\ removed' = TRUE
  /\ UNCHANGED <<furnaceVars, tableVars, loopVars, received, life, strays>>

Next ==
  \/ \E w \in Workers : Works(w) \/ Dies(w)
  \/ \E s \in Signals : Signal(s)
  \/ pizzeria_delete

Spec == Init /\ [][Next]_vars

\* The kernel runs every worker: one that can go on for ever does go on.  No
\* semaphore is assumed to favour anybody.
FairSpec == Spec /\ \A w \in Workers : WF_vars(Works(w))

-----------------------------------------------------------------------------

Alone(inside) == \A v, w \in inside : v = w

\* every part of the state has its type while the semaphores exist
TypeOK ==
  /\ ~removed => F!TypeOK /\ T!TypeOK
  /\ pc \in [Workers -> {"prepare", "put", "putting", "bake", "getting", "serve", "serving",
                         "take", "taking", "deliver"}]
  /\ pizza \in [Workers -> Pizzas \cup {NoPizza}]
  /\ made \subseteq Pizzas /\ received \subseteq Signals
  /\ master \in {"wait", "delete", "gone"}
  /\ life \in [Workers -> {"alive", "dying", "dead"}]

Carrying(w, z) ==
  \/ pizza[w] = z
  \/ w \in Cooks /\ furnaceLoc[w].at \in {"put", "store", "removed"} /\ furnaceLoc[w].pizza = z
  \/ tableLoc[w].at \in {"put", "store", "removed"} /\ tableLoc[w].pizza = z

Copies(S, z) == Cardinality({i \in DOMAIN S : S[i] = z})

\* A pizza that was prepared and not delivered is in exactly one place, in the
\* furnace, on the table or in somebody's hands, and no other pizza is anywhere,
\* however the cooks and the deliverers take one another's pizzas.  And the state
\* keeps its types: usage its range, the heads theirs.
EveryPizzaOnce ==
  /\ TypeOK
  /\ ~removed =>
       \A z \in Pizzas :
         Cardinality({w \in Workers : Carrying(w, z)}) + Copies(F!Contents, z) + Copies(T!Contents, z)
           = IF z \in made THEN 1 ELSE 0

Baking(c) ==
  \/ pc[c] = "putting" /\ furnaceLoc[c].at = "stored"
  \/ pc[c] = "bake"
  \/ pc[c] = "getting" /\ furnaceLoc[c].at \in {"get", "remove"}

\* The furnace holds one pizza for each cook that has put one in and not taken one
\* out, though not its own: no cook ever waits at an empty furnace.
OnePizzaPerBakingCook ==
  ~removed => furnace.usage = Cardinality({c \in Cooks : Baking(c)})

\* A SIGINT to the master is a clean end: the semaphores are removed while workers
\* may still be on their way out, but nobody works on without them.
SigintKeepsLocks == "SIGTERM" \notin received => Alone(F!Inside) /\ Alone(T!Inside)

\* "get lock" (furnace.c:11): whoever is in furnace_put or furnace_get has the lock.
GetLock == Alone(F!Inside)

Delivers == \E j \in Janusze : janusz_deliver(j)

\* Until a signal comes, deliveries never come to an end; in particular the cooks and
\* the deliverers never all wait for one another at a full table, a full furnace or an
\* empty one.
DeliveriesGoOn == []<><<Delivers>>_made \/ <>(received # {})
=============================================================================
