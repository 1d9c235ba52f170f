------------------------------ MODULE Workshop ------------------------------
(***************************************************************************)
(* Santa's workshop (cw09/.../zad1): one Santa thread, the elves and the   *)
(* reindeer share a monitor made of one mutex and ONE condition variable   *)
(* on which every change is broadcast (workshop.c).                        *)
(*                                                                         *)
(* A step is what a thread does from the moment it holds the mutex until   *)
(* it gives it up: in workshop_unlock, or by blocking in workshop_wait.    *)
(* "waiting" is the set of threads blocked on the condition variable: a    *)
(* broadcast empties it, and a thread in it does nothing until then, so a  *)
(* missing broadcast is a lost wake-up here as it is in the program.       *)
(*                                                                         *)
(* Left out: the messages, and elf_queue[], whose ids only they print.     *)
(***************************************************************************)
EXTENDS Integers, FiniteSets

CONSTANTS
  Santa,      \* the Santa thread
  Elves,      \* the elf threads (N_ELF = 10 of them in the program)
  Reindeer,   \* the reindeer threads (N_REINDEER = 9)
  Group,      \* elves needed to wake Santa (3)
  Years       \* deliveries after which Santa stops the workshop (3)

ASSUME ConstantsAssumption ==
  /\ IsFiniteSet(Elves) /\ IsFiniteSet(Reindeer) /\ Reindeer # {}
  /\ Elves \cap Reindeer = {} /\ Santa \notin Elves \cup Reindeer
  /\ Group \in Nat \ {0} /\ Years \in Nat \ {0}

N_REINDEER == Cardinality(Reindeer)
Threads == {Santa} \cup Elves \cup Reindeer

VARIABLES
  pc,         \* where each thread last gave up the mutex
  waiting,    \* threads blocked in pthread_cond_wait
  stopped, reindeers, reindeer_vacation_permits, elfs, elf_helps,
  delivered   \* delivered_presents, the static of santa_deliver_presents

shared == <<stopped, reindeers, reindeer_vacation_permits, elfs, elf_helps>>
vars == <<pc, waiting, shared, delivered>>

Init ==
  /\ pc = [t \in Threads |->
             IF t = Santa THEN "sleep" ELSE IF t \in Elves THEN "ready" ELSE "away"]
  /\ waiting = {}
  /\ stopped = FALSE
  /\ reindeers = 0 /\ reindeer_vacation_permits = 0
  /\ elfs = 0 /\ elf_helps = 0
  /\ delivered = 0

-----------------------------------------------------------------------------
(* The condition variable.                                                 *)

Goto(t, l) == pc' = [pc EXCEPT ![t] = l]
Running(t, l) == pc[t] = l /\ t \notin waiting

\* pthread_cond_wait with nothing changed since the mutex was taken
Block(t) == waiting' = waiting \cup {t} /\ UNCHANGED <<pc, shared, delivered>>
\* pthread_cond_broadcast
Broadcast == waiting' = {}

\* POSIX lets a waiter wake for no reason; it then tests its condition again
SpuriousWakeup(t) ==
  t \in waiting /\ waiting' = waiting \ {t} /\ UNCHANGED <<pc, shared, delivered>>

-----------------------------------------------------------------------------
(* Santa.                                                                  *)

\* The top of Santa's loop: santa_sleep, the test for stop, and the choice
\* of whom to serve, reindeer first. e is the value of elfs, blocked the set
\* of threads already waiting.
SantaSleep(e, blocked) ==
  \/ /\ stopped
     /\ Goto(Santa, "done") /\ waiting' = blocked
  \/ /\ ~stopped /\ reindeers = N_REINDEER
     /\ Goto(Santa, "deliver") /\ waiting' = blocked
  \/ /\ ~stopped /\ reindeers # N_REINDEER /\ e = Group
     /\ Goto(Santa, "help") /\ waiting' = blocked
  \/ /\ ~stopped /\ reindeers # N_REINDEER /\ e # Group
     /\ Goto(Santa, "sleep") /\ waiting' = blocked \cup {Santa}

SantaWakes ==
  /\ Running(Santa, "sleep")
  /\ SantaSleep(elfs, waiting)
  /\ UNCHANGED <<shared, delivered>>

\* Back from santa_deliver_presents: count, perhaps stop, hand out one permit
\* per reindeer, then block until all of them are taken.
SantaDelivered ==
  /\ Running(Santa, "deliver")
  /\ delivered' = delivered + 1
  /\ stopped' = (stopped \/ delivered + 1 >= Years)
  /\ reindeer_vacation_permits' = reindeer_vacation_permits + N_REINDEER
  /\ Goto(Santa, "drain")
  /\ waiting' = {Santa}
  /\ UNCHANGED <<reindeers, elfs, elf_helps>>

\* mutant: the wait for the permits to be taken is forgotten
SantaDrains_NoWait ==
  /\ Running(Santa, "drain")
  /\ SantaSleep(elfs, waiting)
  /\ UNCHANGED <<shared, delivered>>

\* mutant: reindeer OR elves in one round, never both
SantaDrains_ElseIf ==
  /\ Running(Santa, "drain")
  /\ \/ reindeer_vacation_permits > 0 /\ Block(Santa)
     \/ /\ reindeer_vacation_permits = 0
        /\ SantaSleep(elfs, waiting)
        /\ UNCHANGED <<shared, delivered>>

SantaDrains ==
  /\ Running(Santa, "drain")
  /\ \/ /\ reindeer_vacation_permits > 0
        /\ Block(Santa)
     \/ /\ reindeer_vacation_permits = 0
        /\ \/ elfs = Group /\ Goto(Santa, "help") /\ UNCHANGED waiting
           \/ elfs # Group /\ SantaSleep(elfs, waiting)
        /\ UNCHANGED <<shared, delivered>>

\* mutant: the loop over the elves goes round once too often
SantaHelped_OneTooMany ==
  /\ Running(Santa, "help")
  /\ elf_helps' = elf_helps + Group + 1
  /\ elfs' = elfs - Group - 1
  /\ SantaSleep(elfs - Group - 1, {})
  /\ UNCHANGED <<stopped, reindeers, reindeer_vacation_permits, delivered>>

\* Back from solving the elves' problem: workshop_elf_give_help, three times.
SantaHelped ==
  /\ Running(Santa, "help")
  /\ elf_helps' = elf_helps + Group
  /\ elfs' = elfs - Group
  /\ SantaSleep(elfs - Group, {})
  /\ UNCHANGED <<stopped, reindeers, reindeer_vacation_permits, delivered>>

-----------------------------------------------------------------------------
(* Elves.                                                                  *)

\* The end of workshop_elf_get_help and the test at the top of the elf's
\* loop, h helps being there for it to take.
TakeHelp(e, h) ==
  /\ elf_helps' = h - 1
  /\ Goto(e, IF stopped THEN "done" ELSE "ready")
  /\ Broadcast

\* Work done: wait for a place in the group, or stop; having got a place,
\* queue and ask for help without giving up the mutex.
ElfQueues(e) ==
  /\ Running(e, "ready")
  /\ \/ ~stopped /\ elfs >= Group /\ Block(e)
     \/ /\ stopped
        /\ Goto(e, "done")
        /\ UNCHANGED <<waiting, shared, delivered>>
     \/ /\ ~stopped /\ elfs < Group
        /\ elfs' = elfs + 1
        /\ \/ elf_helps > 0 /\ TakeHelp(e, elf_helps)
           \/ /\ elf_helps = 0
              /\ Goto(e, "queued")
              /\ waiting' = {e}
              /\ UNCHANGED elf_helps
        /\ UNCHANGED <<stopped, reindeers, reindeer_vacation_permits, delivered>>

ElfGetsHelp(e) ==
  /\ Running(e, "queued")
  /\ \/ elf_helps = 0 /\ Block(e)
     \/ /\ elf_helps > 0
        /\ TakeHelp(e, elf_helps)
        /\ UNCHANGED <<stopped, reindeers, reindeer_vacation_permits, elfs, delivered>>

-----------------------------------------------------------------------------
(* Reindeer.                                                               *)

\* mutant: taking the permit and leaving wake nobody
Leave_NoBroadcast(r, n) ==
  /\ reindeer_vacation_permits' = reindeer_vacation_permits - 1
  /\ reindeers' = n - 1
  /\ Goto(r, "away")
  /\ UNCHANGED waiting

\* mutant: the reindeer goes on vacation without workshop_reindeer_leave
Leave_StillCounted(r, n) ==
  /\ reindeer_vacation_permits' = reindeer_vacation_permits - 1
  /\ reindeers' = n
  /\ Goto(r, "away")
  /\ Broadcast

\* The end of workshop_get_reindeer_vacation_permit and
\* workshop_reindeer_leave, n reindeer being back.
Leave(r, n) ==
  /\ reindeer_vacation_permits' = reindeer_vacation_permits - 1
  /\ reindeers' = n - 1
  /\ Goto(r, "away")
  /\ Broadcast

\* mutant: the loop of reindeer_task never tests for the stop
ReindeerReturns_Forever(r) ==
  /\ Running(r, "away")
  /\ \/ reindeer_vacation_permits > 0 /\ Leave(r, reindeers + 1)
     \/ /\ reindeer_vacation_permits = 0
        /\ reindeers' = reindeers + 1
        /\ Goto(r, "harnessed") /\ waiting' = {r}
        /\ UNCHANGED reindeer_vacation_permits
  /\ UNCHANGED <<stopped, elfs, elf_helps, delivered>>

\* Back from vacation: stop, or join the team and ask for a permit.
ReindeerReturns(r) ==
  /\ Running(r, "away")
  /\ \/ /\ stopped
        /\ Goto(r, "done")
        /\ UNCHANGED <<waiting, shared, delivered>>
     \/ /\ ~stopped
        /\ \/ reindeer_vacation_permits > 0 /\ Leave(r, reindeers + 1)
           \/ /\ reindeer_vacation_permits = 0
              /\ reindeers' = reindeers + 1
              /\ Goto(r, "harnessed")
              /\ waiting' = {r}
              /\ UNCHANGED reindeer_vacation_permits
        /\ UNCHANGED <<stopped, elfs, elf_helps, delivered>>

ReindeerLeaves(r) ==
  /\ Running(r, "harnessed")
  /\ \/ reindeer_vacation_permits = 0 /\ Block(r)
     \/ /\ reindeer_vacation_permits > 0
        /\ Leave(r, reindeers)
        /\ UNCHANGED <<stopped, elfs, elf_helps, delivered>>

-----------------------------------------------------------------------------
SantaTask == SantaWakes \/ SantaDelivered \/ SantaDrains \/ SantaHelped
ElfTask(e) == ElfQueues(e) \/ ElfGetsHelp(e)
ReindeerTask(r) == ReindeerReturns(r) \/ ReindeerLeaves(r)

Next ==
  \/ SantaTask
  \/ \E e \in Elves : ElfTask(e)
  \/ \E r \in Reindeer : ReindeerTask(r)
  \/ \E t \in Threads : SpuriousWakeup(t)

\* A thread that is not blocked on the condition variable gets the mutex in
\* the end: critical sections are short and every thread sleeps for seconds
\* between two of them.
Fairness ==
  /\ WF_vars(SantaTask)
  /\ \A e \in Elves : WF_vars(ElfTask(e))
  /\ \A r \in Reindeer : WF_vars(ReindeerTask(r))

Spec == Init /\ [][Next]_vars
FairSpec == Spec /\ Fairness

-----------------------------------------------------------------------------
(* Properties.                                                             *)

Harnessed == {r \in Reindeer : pc[r] = "harnessed"}
Queued == {e \in Elves : pc[e] = "queued"}

\* Every variable has its type; no counter of the monitor is ever negative.
TypeOK ==
  /\ pc \in [Threads -> {"sleep", "deliver", "drain", "help", "ready", "queued",
                         "away", "harnessed", "done"}]
  /\ waiting \subseteq Threads
  /\ stopped \in BOOLEAN
  /\ reindeers \in 0..N_REINDEER
  /\ reindeer_vacation_permits \in 0..N_REINDEER
  /\ elfs \in 0..Group
  /\ elf_helps \in Nat
  /\ delivered \in 0..Years

\* The counters of workshop.c count threads: reindeers those that wait for a
\* permit, elfs together with the helps not yet taken those that wait for
\* help. A permit or a help taken by a thread that just came back (and not by
\* one of those it was meant for) must not break this.
CountersCountThreads ==
  /\ reindeers = Cardinality(Harnessed)
  /\ elfs + elf_helps = Cardinality(Queued)
  /\ reindeer_vacation_permits <= reindeers

\* Presents are delivered by the whole team: while Santa is out with the
\* mutex released (santa.c:74-76) no reindeer may slip away on a permit left
\* over from the year before.
WholeTeamDelivers ==
  pc[Santa] = "deliver" =>
    /\ \A r \in Reindeer : pc[r] = "harnessed"
    /\ reindeer_vacation_permits = 0

\* What each wait loop waits for.
CanProceed(t) ==
  \/ pc[t] = "sleep" /\ (reindeers = N_REINDEER \/ elfs = Group \/ stopped)
  \/ pc[t] = "drain" /\ reindeer_vacation_permits = 0
  \/ pc[t] = "ready" /\ (elfs < Group \/ stopped)
  \/ pc[t] = "queued" /\ elf_helps > 0
  \/ pc[t] = "harnessed" /\ reindeer_vacation_permits > 0

\* No lost wake-up: a thread blocked on the one condition variable is blocked
\* because its own condition is false; whoever makes it true wakes it.
NoLostWakeup == \A t \in waiting : ~CanProceed(t)

\* Santa's last round: when he has stopped every permit has been used, so no
\* reindeer is left in harness, and no complete group of elves waits in vain.
NobodyOwedWhenSantaStops ==
  pc[Santa] = "done" =>
    stopped /\ reindeer_vacation_permits = 0 /\ Harnessed = {} /\ elfs < Group

\* A complete group of elves is served, even when the reindeer are served
\* first and even in the year the workshop stops.
GroupIsServed == []<>(elfs < Group)

\* The years pass, the workshop is stopped, and then every thread ends, but for elves of
\* an incomplete group.
ShutdownEnds ==
  <>[](\A t \in Threads : pc[t] = "done" \/ (t \in Elves /\ pc[t] = "queued"))

\* main joins every thread (main.c:25-33): all of them must end.
AllThreadsJoined == <>(\A t \in Threads : pc[t] = "done")
=============================================================================
