---------------------------- MODULE PosixRestart ----------------------------
(***************************************************************************)
(* One run of the pizzeria of zad2 after another.  Its shared memory and   *)
(* its semaphores have fixed names.  pizzeria_create resets the heads and  *)
(* usage of the ring, but sem_open with O_CREAT alone only uses its initial*)
(* value when the name does not exist yet.  pizzeria_delete unlinks the    *)
(* names, after a signal to the master (master.c); the names are opened and*)
(* unlinked one by one, and a SIGKILL or SIGQUIT may come between any two. *)
(*                                                                         *)
(* The processes do not die together.  Workers of a master that was killed *)
(* may meet the next one; they are not modelled any more once the names    *)
(* they opened are all unlinked, for then nobody shares anything with them.*)
(***************************************************************************)
EXTENDS PosixRing

CONSTANT MaxTorn    \* bound: runs killed when they have unlinked free, but not yet used

VARIABLES
  phase,    \* where the master is: in pizzeria_create or _delete, or running, or not there
  call,     \* the name it opens or unlinks next
  named,    \* the names that exist
  living,   \* the workers alive
  stale,    \* pizzeria_create met semaphores of an earlier run
  torn      \* how often a new free met an old used, since used was last new

master == <<phase, call, named, stale, torn>>
allvars == <<sem, ring, loc, master, living>>

Semaphores == {"free", "used", "lock"}
Names == {"shm"} \cup Semaphores

\* pizzeria_create and pizzeria_delete take the names in the same order
Following == [shm |-> "free", free |-> "used", used |-> "lock", lock |-> "shm"]

RestartInit ==
  /\ Init /\ living = {}
  /\ phase = "down" /\ call = "shm" /\ named = {} /\ stale = FALSE /\ torn = 0

\* A semaphore without a name has gone with the processes that had it open.
Left(s) == IF s \in named THEN sem[s] ELSE 0
Remaining == [lock |-> Left("lock"), used |-> Left("used"), free |-> Left("free")]

\* the first part of pizzeria_create: the memory is opened and the ring reset.  Workers of an
\* earlier run are there only if they have the same names open.
pizzeria_create ==
  /\ phase = "down" /\ phase' = "create" /\ call' = "free"
  /\ living = {} \/ named \in {{}, Names}
  /\ living' = IF named = {} THEN {} ELSE living
  /\ loc' = IF named = {} THEN [w \in Workers |-> Outside] ELSE loc
  /\ ring' = [ring EXCEPT !.read_head = 0, !.write_head = 0, !.usage = 0]
  /\ sem' = Remaining
  /\ stale' = (named \cap Semaphores # {}) /\ named' = named \cup {"shm"}
  /\ UNCHANGED torn

\* mutant: a semaphore that exists already is raised by its initial value
Opened_Add(s) == [sem EXCEPT ![s] = @ + InitSem[s]]

\* the value of a semaphore after sem_open
Opened(s) == IF s \in named THEN sem ELSE [sem EXCEPT ![s] = InitSem[s]]

\* the next sem_open; after the last one the workers are forked.  One that has not been forked
\* yet is one that has not done anything yet.
Opens ==
  /\ phase = "create" /\ sem' = Opened(call)
  /\ named' = named \cup {call} /\ call' = Following[call]
  /\ torn' = CASE call = "free" /\ "free" \notin named /\ "used" \in named -> torn + 1
               [] call = "used" /\ "used" \notin named -> 0
               [] OTHER -> torn
  /\ IF call = "lock" THEN phase' = "run" /\ living' = Workers ELSE UNCHANGED <<phase, living>>
  /\ UNCHANGED <<ring, loc, stale>>

\* SIGINT or SIGTERM: wait(0) is interrupted
Interrupted ==
  /\ phase = "run" /\ phase' = "delete"
  /\ UNCHANGED <<sem, ring, loc, living, call, named, stale, torn>>

\* the next unlink of pizzeria_delete, whatever the workers are doing
Unlinks ==
  /\ phase = "delete" /\ named' = named \ {call} /\ call' = Following[call]
  /\ phase' = IF call = "lock" THEN "down" ELSE "delete"
  /\ UNCHANGED <<sem, ring, loc, living, stale, torn>>

\* SIGKILL or SIGQUIT
Killed ==
  /\ phase \in {"create", "run", "delete"} /\ phase' = "down" /\ call' = "shm"
  /\ "used" \in named /\ "free" \notin named => torn < MaxTorn
  /\ UNCHANGED <<sem, ring, loc, living, named, stale, torn>>

\* a worker dies of the signal, wherever it is
Dies(w) ==
  /\ phase \in {"delete", "down"} /\ w \in living
  /\ living' = living \ {w} /\ loc' = [loc EXCEPT ![w] = Outside]
  /\ UNCHANGED <<sem, ring, master>>

Works(w) == Step(w) /\ UNCHANGED <<master, living>>

RestartNext ==
  \/ pizzeria_create \/ Opens \/ Interrupted \/ Unlinks \/ Killed
  \/ \E w \in living : Works(w) \/ Dies(w)

RestartSpec == RestartInit /\ [][RestartNext]_allvars

-----------------------------------------------------------------------------

InFlight == {w \in Workers : loc[w].at \notin {"out", "unlock"}}

\* Whatever runs were killed before, and wherever in their calls: tokens are lost with the
\* workers that held them.  They are made in one place only, between the unlinks of free and
\* of used, and a kill there makes at most as many as the ring has slots.
CapacityNeverGrows == sem.used + sem.free + Cardinality(InFlight) <= Size * (1 + torn)

\* All names were new when this run began, and its workers are all alive.
Fresh == ~stale /\ phase # "create" /\ living = Workers /\ living # {}

\* A run that finds no old names is as good as the first, wherever in their calls the workers
\* of the runs before it were killed, and it is a run of a bounded first-in first-out queue
\* though its waits are not atomic: no pizza is lost, doubled or overtaken, and the usage
\* each call reports is the true one.  That does not end with the names, but with the first
\* worker that dies.
FreshRunsAreFifo ==
  [][Fresh' => /\ (TypeOK /\ LockExcludes /\ SlotsReserved)'
               /\ IF Fresh THEN [Fifo!Next]_<<Contents, Calls>>
                  ELSE Contents' = <<>> /\ Calls' = [w \in Workers |-> [op |-> "idle"]]]_allvars

\* "One element has been reserved for reading." (furnace.c:45): a worker that is
\* about to read finds a pizza in the ring.
ElementReserved == \A w \in At({"get"}) : ring.usage > 0
=============================================================================
