# Verification of funtime-with-carbon

The repository holds the programs of an operating-systems course (`cw01` to
`cw10`, each under `cwNN/KarbowskiJakub/cwNN/zadM/src`). Four subjects are real
concurrent systems, two of them written twice for two kinds of kernel object: a
workshop of threads (cw09), a pizzeria of processes on shared memory (cw07), a chat
over message queues (cw06) and a game server (cw10). The rest are small programs, of
which those with concurrency, failures or an automaton of their own are modelled too.
This directory has TLA+ modules for them, TLC configurations, TLAPS proofs, and in
`PROJECT.json` the list of components, runs, hazards, mutants, theorems and, for every
definition, the lines it models.

## Inventory

| Component | State it keeps | Operations | What is hard |
| --- | --- | --- | --- |
| Workshop, cw09 zad1 | counters of waiting elves and reindeer, permits, helps, `stopped`, one mutex, one condition variable | Santa's round, an elf's and a reindeer's round | five conditions on one condition variable; permits and helps are not personal; the stop |
| Furnace and table, cw07 zad1 and zad2 | a ring (`read_head`, `write_head`, `usage`) and three semaphores, System V or POSIX | put, get | two workers in one ring; reserving and locking are two waits in zad2 |
| Pizzeria, cw07 zad1 and zad2 | the two rings, worker loops, the master | cook, deliverer, create, delete, signals | full and empty rings at once; a signal in the middle of a call; what a killed run leaves behind |
| Chat, cw06 zad1 (System V), zad2 (POSIX) | `clients[]`, `n_clients`, one queue a process | INIT, LIST, 2ALL, 2ONE, STOP, SIGINT | messages taken by type, bounded queues that block, ids used again, the two-sided shutdown, queues that outlive their names or their server |
| Game server, cw10 zad1 (streams), zad2 (datagrams) | connections, players, sessions with a game, alive and error flags | accept or first datagram, INIT, MOVE, PING, cleanup, pairing, pinger thread | clients that vanish, tables that refer to each other by index, a second thread, poll, lost datagrams, addresses used again |
| Signal counting, cw04 zad3a and zad3b | counters in handlers | send, confirm, end | standard signals merge; handlers and `sigsuspend` |
| FIFO, cw05 zad3 | a pipe, an output file | produce, consume, rewrite a line | consumers that overwrite each other; records too large for one write; who opens and closes when |
| Pipelines, cw05 zad1 | parser states, symbol table | parse, fork a chain | the automaton and its limits |
| Calculator, cw03 zad2 | workers, a file for each | fork, compute, wait, reduce, unlink | workers that fail, files of an interrupted run |
| Image inversion, cw08 zad1 | an image, threads | load, invert in two partitions, save | every pixel once, short last parts, pixels modulo 256 |
| Forked search, cw03 zad3 | a process per directory | fork, search, collect | exit codes, buffers copied by fork, failures taken for an answer |
| Signals over fork and exec, cw04 zad1, zad2 | masks, dispositions, pending sets | fork, exec, raise | rules of the kernel |
| Blocks, cw01 zad1, zad2 | an array of blocks | alloc, load, delete | first free index |
| File filters, cw02 zad1 to zad3; others | none | read, print | none to speak of |

The systems do not call each other. Inside each the parts meet through shared
memory (workshop, pizzeria, image), queues (chat), sockets and shared tables (game
server), files and exit codes (calculator, search, FIFO), and signals (all but the workshop).

What makes them correct, in short: counters and tables describe the processes
they stand for; nobody sleeps through the event it waits for; a ring is a bounded
first-in first-out queue to its callers; an id, a name, an address or an index belongs
to one client; what a process that goes leaves behind stops nobody else; work that is
split up is done once, and a failure of a part that the code notices is told; and after a stop
everything ends, or the exception is named.

## Modules

| Module | Models | Extends or uses |
| --- | --- | --- |
| `Workshop` | `cw09/zad1`: `workshop.c`, `santa.c`, `elf.c`, `reindeer.c`, `main.c` | |
| `WorkshopProofs` | its inductive invariant and five theorems | `Workshop` |
| `BoundedFifo` | the promise of a ring: a bounded queue, every call at one instant | |
| `Ring` | heads, `usage`, contents and the steps of a call, shared by both versions | `BoundedFifo` (instance) |
| `SemRing` | furnace.c and table.c of `cw07/zad1`: put and get under a System V set | `Ring` |
| `PosixRing` | the same of `cw07/zad2`, where the lock is taken after the reservation | `Ring` |
| `PosixRestart` | runs of zad2 one after another on the same names, which are opened and unlinked one by one | `PosixRing` |
| `SemRingProofs` | lemmas on the memory of a ring; exclusion, semaphores and refinement for zad1 | `SemRing` |
| `Rings` | either ring, chosen at the start of a behaviour: zad1's, or all runs of zad2's | `SemRing`, an instance of `PosixRestart` |
| `PosixProofs` | the same for zad2, and its restarts | `PosixRestart`, an instance of `SemRingProofs` for the memory |
| `Pizzeria` | `cw07/zad1` as a whole: cooks, deliverers, master, signals | two instances of `SemRing` |
| `PizzeriaProofs` | its invariant, over those of both rings, and three theorems | `Pizzeria`, two instances of `SemRingProofs` |
| `Chat` | `cw06/zad1`: server and clients over System V queues | |
| `ChatProofs` | its invariant and three theorems | `Chat` |
| `ChatMq` | `cw06/zad2`: the same over POSIX queues, with servers that are killed and started again | |
| `ChatMqProofs` | its invariant and three theorems | `ChatMq`, an instance of `ChatProofs` for lemmas on queues |
| `TicTacToe` | the rules, `game.c` of `cw10`, for any board | |
| `GameManager` | what both servers share: the state of the server, its tables and their consistency, `game_manager.c` (logins, moves, cleanup, pairing) | `TicTacToe` |
| `GameServer` | `cw10/zad1`: server loop, pinger, clients over stream sockets | `GameManager` |
| `GameProofs` | the invariants of both servers, four theorems | `GameServer`, an instance of `GameDatagram` |
| `GameDatagram` | `cw10/zad2`: the same over UDP and a UNIX datagram socket | `GameManager` |
| `SignalCount` | `cw04/zad3a` and `zad3b`: sender and catcher | |
| `FifoLines` | `cw05/zad3`: producers and consumers | |
| `PipelineParser` | `cw05/zad1`: `parser.c` | |
| `Calculator` | `cw03/zad2` | |
| `ForkSearch` | `cw03/zad3` | |
| `Inversion` | `cw08/zad1`: loader, both partitions, saving | |
| `Programs` | any one of the small programs, chosen at the start | instances of the last six |
| `ProgramsProofs` | signals, the FIFO's lines, the calculator, images, the parser and the search | `Programs` |
| `*MC` | values of constants and symmetry for TLC | |

Correspondence to the code, where it is not one action for one function:

* **Workshop.** An action is what a thread does between taking the mutex and giving
  it up (`workshop_unlock`, or blocking in `workshop_wait`); `pc` is where it gave
  it up. `waiting` is the set of threads blocked on the condition variable; a
  broadcast empties it, so a forgotten broadcast would be a lost wake-up. Spurious
  wake-ups are there. Santa's delivery, during which he holds no mutex, is a place.
* **Rings.** Inside the lock a call has two steps: one loads the head it needs and `usage`, one
  stores what it has changed. Two workers inside at once would lose an update, so a hole in the
  lock would show. A semaphore operation that waits is a guard. System V `semop` on two
  semaphores is one step; the two `sem_wait`s of zad2 are two.
* **PosixRestart.** `named` are the names that exist and `call` is the next one to be opened
  (`Opens`) or unlinked (`Unlinks`). A kill (`Killed`) may come between any two of these, and the
  workers die one by one (`Dies`), wherever they are, or live on and meet the next run if all its
  names are the ones they have open. `torn` counts the times a new `free` was opened beside an old
  `used`.
* **Pizzeria.** Pizzas are tokens. After `pizzeria_delete` every semaphore operation
  fails and nobody looks at the result, so a worker that lives on goes through.
* **Chat.** A queue is a sequence and `Next_in` the message `msgrcv(-MESSAGE_MAX)`
  takes: the first of the lowest type. `msgsnd` blocks on a full queue, fails on a
  removed one, and gives up on SIGINT. Handlers fill `outbox`, `ServerSends` empties it
  one message at a time, because every send may block.
* **ChatMq.** The type of a message is its priority, and the highest is taken first, so a
  STOP overtakes and an INIT waits. A queue lives while it has its name or while the server
  has it open (`Kept`): messages to a client that is gone are stored until the queue is
  full. A client polls its user and its queue together, so that it never waits in
  `mq_receive`. `ServerKilled` loses the server's memory and its descriptors, the server's own
  queue stays, and `ServerRestarts` opens it with what is in it.
* **GameServer.** One iteration of `server_loop` is `Tests` (the stop flag, three
  cleanups, pairing), `Polls` (poll and accept), `Adds` (the second half of
  `server_add_connection`, which runs without the connection's mutex), and `Reads`
  for each readable connection in the order of the table. A handler is one step: it
  runs under the connection's mutex. The pinger takes one step a connection. A
  write to a client that has closed may be lost, fail, or raise SIGPIPE
  (`Sigpipe` ends the server, after the writes that came before).
* **GameDatagram.** A connection is the address of a sender, made by any datagram from an
  address that has none. A client draws a path or is given a port (`Binds`), which is free once
  its `holder` has ended; `inherited` remembers that somebody got an address that the server
  still knew from another client, or had a datagram from. One iteration is `Tests`, `Receives` (poll and recvfrom, the net
  socket first), `Adds` and `Handles`; poll times out. A datagram may be lost on UDP (`Loses`),
  and a send fails only on the UNIX socket, or once `server_close` has closed the net socket,
  which it does twice. A SIGINT may be taken by either thread.
* **Programs.** They share nothing, so one run checks them: `program` says which of them a
  behaviour is about, and the variables of the others keep still.
  *SignalCount*: `pending` counts signals that queue and is at most one for those that do not;
  handlers run before the process goes on; the mask is up between a test and its
  `sigsuspend`. *FifoLines*: opening waits for the other end; a record is a chunk with its
  producer. If it does not fit PIPE_BUF it may be written in two parts with others between
  them, and from then on (`torn`) be read in pieces that start and end anywhere. The output is read, copied with the chunk inserted, and written back in two
  steps. *PipelineParser*: a transition per class of character, with the limits of the tables.
  *Calculator*: a partial sum is the set of its cells; forks, workers and writes may fail, SIGINT
  may come anywhere, and the next run finds the files. *ForkSearch*: a child starts with its
  parent's unflushed lines unless stdout is a terminal. What fails with an error (lstat, fork,
  fopen, reading, opendir) stops the process and is told (`Stops`, `OpenFails`); a failure of
  `is_text_file` or readdir is taken for an answer (`Skips`, `EndsList`), and `missed` is what was
  not looked at for that reason. *Inversion*: a file
  is a sequence of words; a thread inverts one pixel a step; a second run reads the output of the
  first.

## Runs

| Run | Instance | Properties | Shows |
| --- | --- | --- | --- |
| `workshop` | 5 elves, 3 reindeer, groups of 3, 3 deliveries | `TypeOK` `CountersCountThreads` `WholeTeamDelivers` `NoLostWakeup` `NobodyOwedWhenSantaStops` `GroupIsServed` `ShutdownEnds` | permits and helps may be taken by the wrong thread and still every counter is right, nobody sleeps through its turn, nobody is owed anything at the end |
| `workshop_join` | 3 elves, 2 reindeer, groups of 2 | `AllThreadsJoined`, violated | finding 1 |
| `rings` | 2 slots; zad1: 3 workers; zad2: 2 workers, any number of runs, one of them torn | `TypeOK` `LockExcludes` `SemaphoresCount` `IsFifo` `CapacityNeverGrows` `FreshRunsAreFifo` | zad1's rings implement `BoundedFifo`; in zad2 kills lose capacity, and make some only between the unlinks of `free` and `used`, and a run that finds no old names implements `BoundedFifo` |
| `posix_stale` | 2 workers, 2 slots | `ElementReserved`, violated | finding 3 |
| `pizzeria` | 2 cooks, 1 deliverer, furnace of 1, table of 2, SIGINT, 2 stray steps | `EveryPizzaOnce` `OnePizzaPerBakingCook` `SigintKeepsLocks` `DeliveriesGoOn` | conservation of pizzas, no deadlock over two rings, and SIGINT is a clean end |
| `pizzeria_sigterm` | 2 cooks, SIGTERM | `GetLock`, violated | finding 2 |
| `chat_ids` | 3 clients, 2 ids, queues of 2, one SIGINT | `TypeOK` `IdIsMine` `RequestsAreTheHolders` | an id has one holder, and no old request speaks for a new one, although messages overtake each other |
| `chat_live` | 2 clients, queues of 1, 2ALL, two SIGINTs | `ServerEnds` `RepliesEnd` | the server ends after SIGINT, save for four named cases |
| `chat_mq` | 2 clients, queues of 2, all commands, one SIGINT, one kill | `IdIsMine` `ServerEnds` `RepliesEnd` | the same for zad2, where five cases are named; the server's count is that of its descriptors even over an old queue |
| `game` | 3 clients, two of one name, 2 connections, one interference | `TypeOK` `RegistryConsistent` `MovesAreLegal` `OpponentIsReleased` `LoginIsAnswered` | tables agree, no honest move is refused, nobody is left with an opponent that is gone, every login is answered, save for a socket accepted with no place left |
| `game_datagram` | 3 clients of three names, two on the UNIX socket with two paths to draw, one on UDP, 2 connections, room for 3 players, one field, one interference or loss | `AddressesConsistent` `GoneAreForgotten` `SigintEnds` | tables agree though any datagram makes a connection and a successor on an address inherits connection and player; who is gone loses its place; SIGINT ends both threads |
| `programs` | see Bounds | `CountsAgree` `LinesAreWhole` `LinesMeanWhatTheySay` `ResultIsWhole` `SavedIsInverted` `EachMatchOnce` `ProgramsEnd` | one property for each small program, and that everything that was started ends |

A property of a passing run has a mutant in `PROJECT.json`: a plausible bug in a
mapped definition that makes the same run fail.

### Findings

1. `workshop_elf_get_help` does not look at `stopped`: elves queued in a group that
   is never completed hang, and `main` hangs in joining them.
2. A SIGTERM to the pizzeria's master ends its `wait`, and it deletes the semaphores
   under workers that go on, without locks from then on.
3. A run of zad2 after one that was killed opens the old semaphores over a ring that
   is reset: readers are promised pizzas that are not there.

Beside finding 3: `pizzeria_delete` unlinks the semaphores of a ring one by one, and a run killed
between `free` and `used` leaves an old `used` to the next run, which creates a new `free`, so that
more calls are let in than the ring has slots. `CapacityNeverGrows` says how many more (`torn`).

### Exceptions the properties name

A property that holds only save for something the code does says so, in a named case
or in its premise:

* Chat: `Ghost` (a client that left without telling), `Untold` (a client registered after the
  STOPs went out), `MissedSignal` (SIGINT between a test and a blocking receive), `MutualBlock`
  (server and client each in a send to the other's full queue). ChatMq has also `DeadLetters`: the
  full queue of a client that is gone, which the server still has open. `IdIsMine` is about the time
  before the first kill; after it old messages name the ids given to new clients.
* Game server: `MissedSigint`, and the link state `"leaked"`: a socket accepted with no
  connection free is never closed. SIGPIPE, which the server does not handle, ends it when it
  writes to a client that has just gone; `OpponentIsReleased` holds because every client is
  then hung up on. Over datagrams nobody tells a client that its opponent or its own connection is
  gone, so only `GoneAreForgotten` is promised. Two clients started in one second draw the same path,
  and the later one may bind it when the first has ended but is not forgotten (`inherited`): its
  INIT makes a second player on the old connection, its answers keep the old player alive, and a
  connection given up takes only the first of its players along and leaves the other to the stranger
  who gets the entry next. From then on `AddressesConsistent` says nothing of which connection a
  player has; the rest of it stays.
* Signal counting: SIGUSR1s merge (`CountsAgree` is exact for realtime and confirmed
  signals, a bound otherwise), and the catcher prints its PID before it installs its
  handlers: a signal before that kills it.
* FIFO: a record above PIPE_BUF may be written and read in parts (`torn`), and data then become
  the number of a line; two consumers that hold a record at once lose each other's lines (`spoiled`).
  What the FIFO hands on is right whether the output is spoiled or not.
* Parser: over a limit the error is overwritten by the caller's next state (`parser.c:219`), and the
  characters go to the last entry; lines with more symbols or commands than the limits are
  excepted.
* Image: without memory for a thread's argument `invert_1` and `invert_2` still report
  success and the image is saved partly inverted (`noMemory`); a file one pixel short is accepted.
* Search: in a file or pipe a line buffered at a fork is printed again by the child; each
  match once is promised on a terminal only. A failure that is taken for an answer (`missed`) hides
  matches behind an exit code of 0.

### Bounds

* **Workshop.** Five elves are more than a group, so elves wait for a place, queue, and
  steal helps at once; three deliveries are the program's own number and allow a permit
  left over from an earlier year.
* **Rings.** The number of workers is larger than the number of slots or equal to it,
  and the heads wrap. `MaxTorn` = 1 lets one kill between two unlinks double what the semaphores
  promise; a second one only adds to it. The proofs do away with the bounds for both versions.
* **Pizzeria.** Two cooks on a furnace of one wait for each other, each may take the other's
  pizza, and with four pizzas a table of two fills. `Strays` bounds only what workers do
  after the locks are gone.
* **Chat.** Three clients for two ids: one is refused, and an id is used again. A
  queue of one is where sends block; one of two is where messages overtake. In `chat_mq` one
  kill leaves INITs and STOPs to the next server, and a queue of two fills up
  with the answers to one command.
* **Game.** Two connections for three clients: a refused name, a leaked socket, and an
  entry used again after a game. The board has two fields, one of them a line, so
  that a game may be won, drawn or go on. `MaxEvents` = 1 bounds what nobody can
  foresee: a user who quits, a client that hangs, a SIGINT, a lost datagram, a round of the pinger
  that comes before the answers to the last; it may come at any moment. Clients that end
  because their game is over or refused are not counted. Over datagrams two clients
  draw one of two paths, so that the later one may bind the path of the earlier, before or after
  the server has forgotten it; with room for three players at two connections an inherited
  connection has two players while a third one waits. Two clients of one name are in `game` only.
* **Programs.** Up to 4 signals, so that more than one merge; 2 producers of 2 chunks on lines 0
  and 1, 2 consumers, a pipe of 2; a parser whose limits are one or two and lines of up to 5
  characters, enough to pass each limit; two calculations of 1 to 3 workers and 1 to 3 cells, some
  with more workers than cells; images of up to 2 by 3 with up to 3 threads, wellformed
  or cut short, max above and below the pixels, inverted twice; a tree of 4 directories to depth
  3.

### Fairness

Weak fairness only, for each thread or process that can go on by itself: the mutex and
the semaphores favour nobody, and a thread that can run is run. Nothing is assumed
of users (who type, move, quit or not), of signals, of losses, of which waiting client is
accepted, or of which of several waiters gets a semaphore. A property needing more would
be wrong for the code. The game server's pinger sleeps five seconds between
rounds; the models let a round begin when everything else has come to rest, and
`MaxEvents` times before. For a liveness property this is the assumption that five
seconds are long enough for the programs' own steps. In `Programs` nobody has to start a program, and
`ProgramsEnd` is about those that were.

Deadlock is checked in `rings`; elsewhere the program really stops, or may sleep with
nobody to wake it (which is what the liveness properties are for): the workshop, the chats and the
small programs end, the pizzeria ends after a signal, stale rings may block, and a game
server may be gone or, over streams, asleep in `poll` with a SIGINT missed.

## Proofs

| Theorem | Says, for all values of the constants |
| --- | --- |
| `WorkshopProofs!TypeCorrect` | no counter leaves its range |
| `WorkshopProofs!CountersAreRight` | the counters count the threads that wait |
| `WorkshopProofs!WakeupsAreNotLost` | nobody is blocked while its condition holds |
| `WorkshopProofs!DeliveryNeedsWholeTeam` | every reindeer is in harness while Santa delivers |
| `WorkshopProofs!NobodyOwed` | what is true when Santa has stopped |
| `SemRingProofs!TypeCorrect` | `usage` and the heads keep their ranges |
| `SemRingProofs!LockIsExclusive` | at most one worker inside the ring |
| `SemRingProofs!SemaphoresAgree` | the semaphores agree with `usage` in every state of every call |
| `SemRingProofs!RingIsFifo` | `SemRing` implements `BoundedFifo` |
| `PosixProofs!CapacityIsBounded` | over any number of killed runs, no more calls are let in than there are slots, and as many again for each kill between the unlinks of `free` and `used` |
| `PosixProofs!FreshRunsImplementFifo` | a run on new semaphores implements `BoundedFifo`, excludes, and reserves, until a worker dies, whatever happened to the runs before |
| `PizzeriaProofs!PizzasAreKept` | every pizza is in exactly one place while the semaphores exist |
| `PizzeriaProofs!FurnaceIsShared` | the furnace holds one pizza for each cook that bakes |
| `PizzeriaProofs!CleanEnd` | after a SIGINT no two workers are inside one ring |
| `ChatProofs!TypeCorrect` | queues, tables and clients keep their types, queues their limit |
| `ChatProofs!IdsAreKept` | an id has one holder, and `n_clients` counts them |
| `ChatProofs!RequestsSpeakForTheirSenders` | no request speaks for a later holder of its id |
| `ChatMqProofs!IdsAreKeptUntilKilled` | the same of ids over POSIX queues until a server is killed; and after any number of kills `n_clients` counts the open descriptors, no client has two, no queue is overfull |
| `GameProofs!TypeCorrect` | the stream server, its packets and its boards keep their types |
| `GameProofs!TablesStayConsistent` | connections, players and sessions agree in every state |
| `GameProofs!NoMoveIsRefused` | every MOVE on its way to the server is legal when it is read |
| `GameProofs!DatagramTablesStayConsistent` | the tables of the datagram server agree in every state, whatever is lost or late and whoever gets an address; a player has the right connection as long as no known address is inherited |
| `ProgramsProofs!SignalsAreCounted` | signals are counted exactly where they cannot merge |
| `ProgramsProofs!LinesStayWhole` | chunks are written once, in order, each in its producer's line, while no record goes in parts and consumers keep out of each other's way |
| `ProgramsProofs!PrintedResultIsWhole` | a printed result adds every cell of its run once |
| `ProgramsProofs!SavedImagesAreInverted` | every pixel of a saved image is the inverse of its input's, in either mode and for any number of threads, and inverting twice restores it, unless memory ran out |
| `ProgramsProofs!LinesMeanTheirWords` | a line within the limits, whatever they are, that is executed or assigned means what is written on it |
| `ProgramsProofs!MatchesAreFound` | a search that ended tells of every failure a process knows of, and without one has printed every match but what it missed through a failure taken for an answer |

Assumptions: `ConstantsAssumption` (finite sets of elves and reindeer, at least one
reindeer, positive group and number of years), the ring's size being positive
(`SizeAssumption`) and its workers finitely many (`WorkersAssumption`).
`PizzeriaAssumption` says the same of the pizzeria (finitely many cooks and deliverers, who are
different processes, two positive sizes, no other signals than the two the master knows),
`BoundsAssumption` and `MqAssumption` of the two chats and `ProgramsAssumption` of the small programs, of which the search
needs that directories form a tree (the program uses `lstat` and follows no link), the images
that a file is a sequence of words (`P2`, numbers, junk), and the parser that its limits are positive. Of the game server
it is `SizesAssumption` (three positive table sizes, a name for each client, and two clients may
have the same), `LinesAssumption` (no line of the board is empty) and, for each server,
`MaxEventsAssumption` and `GameDatagramAssumption` (the clients on the UNIX socket are some of
the clients, and no path is a port). The
numbers of clients, ids, messages, signals, workers, cells, fields and table places are any.

*Workshop.* No property is inductive alone. `IInv` joins to `TypeOK`,
`CountersCountThreads` and `NoLostWakeup`: `Places` (which thread may be where),
`SantaKnows` (what Santa found out before he gave up the mutex is still true when he
has it again) and `StopKnows` (what holds once `stopped` is set). `SantaKnows` is the
heart: a reindeer that comes back early and takes a permit that was not its own keeps
permits and harnessed reindeer in step, so that Santa's test of a full team holds until
he is back. There is one lemma for each action; counting goes through
`FiniteSetTheorems`.

*SemRing.* `IInv` says where the lock is, and how the two semaphores differ from `usage`
by the workers between their first and their last step. With it at most one worker is
between load and store, so a call's loads are still true at its stores. The
refinement maps the ring to the sequence of its contents and a call to its stage; a put
or a get takes effect at the store of `usage`. The facts on contents (`PutAppends`,
`GetTakesOldest`) know nothing of semaphores; `PosixProofs` takes them over (`SameRing`).

*PosixRestart.* Any number of calls hold reservations at once, so the semaphores are related to
`usage` by counts of workers (`SlotsReserved`), and each step moves one worker from one
count to another (`CountMoves`). `CallHasSlot` draws from the counts what the lock alone
does not give: whoever stores finds room. The invariant of all runs, `RInv`, has two halves.
In every run, also on stale semaphores, registers and heads stay inside the array (`AnyRunType`) and
no step of a call makes a token (`TokensMove`). What is left is the master: `NamesInOrder` says which
names exist at each place in `pizzeria_create` and `pizzeria_delete`, and with it
`CapacityNeverGrows` follows for the one `sem_open` that adds tokens to others, that of a new `free`
beside an old `used`. In a fresh run `IInv` holds as well: `UsedIsNew` and `NewSoFar` follow the names
that were new while `pizzeria_create` opens them, `DeadAreOutside` keeps the workers of earlier runs
off, and when the last name is open the ring is a new one, whatever was in the array (`NewRingIInv`).
`StepRefines` maps reserving to the call, the store to its effect and unlocking to the return.

*Pizzeria.* While the semaphores exist both rings keep `SemRingProofs!IInv`, so the pizzeria's
invariant is built on it instead of proved again: each step is one step of a ring, or of none,
and `InnerEffect` and `BorderEffect` say what such a step does to the contents.
`Posture` ties a worker's place in its loop to its place in the rings and to its hands; with it
`Count`, the number of places a pizza is in, changes only when the pizza is made or delivered.
The other half is the end. Once the semaphores are gone nothing counts any more, and only
`Wide` (registers and heads inside the arrays) is kept for certain; what saves a SIGINT is that
all who live then were told to die before the semaphores went.

*Chat.* `IdIsMine` is not inductive: that a slot is its holder's depends on every message under way.
The invariant follows a client through its life. It sends one INIT and one STOP
(`OneEach`); until the server reads the INIT, nothing in it is the client's (`Strangers`); the STOP is
its last word and alone can free its id (`LastWords`); what it asks in between names itself
(`Askers`); and what the server has in hand is for who asked (`Replies`). For
`RequestsAreTheHolders` the order of types does the work: the server takes an INIT, which alone can
give an id away, only when no request is left in its queue, so that no request can come to
name a new holder.

*ChatMq.* A killed server leaves its queue, and the messages in it name ids that mean nothing to the
next server, which may give them to others. `IInv` therefore keeps apart what such messages cannot
spoil from what they can. The first is said of every state: who sends what and when (`Origins`,
`OneEach`, `Strangers`, `LastWords`), which gives that no client is entered twice, since a client
whose INIT waits has no descriptor, and that the count is right, since a STOP frees a place
only if it is taken. The second, `Matched`, is said while nobody has been killed: the id a client has
or is sent is its slot (`Holders`), and a client that said it leaves is in the table as long as
its STOP waits and no longer (`Forgotten`); so a STOP that is read frees its sender's place. The
INIT of a client that has gone by then finds no queue to open, which is why no slot can go to one
whose STOP has been read.

*GameServer.* `MovesAreLegal` is not inductive: a MOVE is legal only if nothing has happened since
the GAME packet that asked for it. Whose turn it is in a game is a token that goes round, first that
packet, then the client's prompt, then the MOVE. `Tokens` says that each open connection has it in at
most one of these forms, and that wherever it is, it is about the game as the session now has it
(`MayMove`). It can be lost (a client quits, a write fails) but not doubled. The other parts of `IInv` are what
this needs: `Links` (a connection is the open end of one client's socket, and nothing is sent to
a client before it is accepted), `RegistryConsistent`, and the types of what is on the sockets
(`Mail`). `MovePasses` is the heart: the mover's token is spent with the MOVE that is read, and
the one GAME packet that asks goes to the other player of the session, who had none
(`NotItsTurn`). The tables are a matter of their own: `CleanedAgrees`, `PairedAgrees`,
`AddedAgrees` and `MovedAgrees` say what cleaning, pairing, a login and a move keep, and `PairsAre`
that pairing in the order of the table leaves over at most one player.

*GameDatagram.* Both servers run the same manager, so the lemmas on `Tables` hold of the second once
the modules are known to say the same of it (`SameManager` and the lemmas before it). What differs
is how a connection comes and goes. `OneConnectionEach` says that no two open connections have one address,
`Handling` that the connection at hand is open and of the sender of its packet, `Holding` that every
client that runs has an address, and `OneWaits` that pairing has left at most one player over when the server comes to its next
packet. Nothing is assumed about the order or the number of datagrams: a packet of any age may be
handled, and only its types count (`DatagramMail`). `Named` is what an inherited address breaks:
until then whoever logs in from an address is its holder (`Own`), and so is the player at its
connection. It says nothing afterwards; the agreement of players and sessions (`Seating`) never
looked at names and goes on.

*Signals.* `Ping` and `Pong` count a signal wherever it is: sent, pending, counted. In zad3b the sum
of what is under way and what confirms it is one, which is why nothing can merge there.

*Lines.* Everything is claimed only as long as no record was written in parts (`torn`). Until then the
chunks of a producer that have left the FIFO are its first ones and no chunk is held twice
(`Handed`), whatever the consumers do to the output. While, besides, one consumer at a time holds a record, what it has copied is the output with the
record in it (`Copied`), so that writing it back is an insertion. The lemmas say what an insertion
does to a sequence: those of other producers keep their order (`OthersInOrder`), the next chunk
comes behind the rest of its own (`NextInOrder`), the first leaves them in order
(`FirstInOrder`; a write and a read of the FIFO are insertions too), and what is moved by a place
stays in its line (`LinesInserted`, a bijection of the newlines before it). That a
line has an end at all (`EndIs`) is counting: newlines are numbered by those before them.

*Calculator.* `CalcPhases` says what files and sums hold in each phase of a run; a file
with old cells is overwritten or its worker is known to have failed. The theorem
then needs that the remainders modulo the number of workers part the cells.

*Images.* The loader is a recursive function on the words of the file, and the provers have no induction
over data; what it holds after `k` words (`LoaderAfter`) is shown by a least counterexample instead
(`Least`, from the wellfoundedness of the numbers). That the pixels of the threads part the image
(`PixelsPart`) is division: with `numbers` a pixel belongs to the remainder of its number, with `block` to
the quotient of its column, and the last blocks may be short or empty (`QuotientFits`). The invariant
says of each thread that the pixels it has passed are inverted and the others are not yet
(`ThreadsProgress`), and of the runs before what they inverted (`RunsInvert`), whence the second
inversion undoes the first.

*Parser.* What has been collected are the stretches of the line so far (`AreStretches`), of symbols left
of the sign and of commands right of it. Three lemmas say what a character more does to them:
outside the set it changes none (`StretchesStay`), after one outside it begins a stretch (`StretchBegins`),
and otherwise the last one grows (`StretchGrows`). `Collected` claims this only up to the limits,
since over them the program goes on. The invariant has a part for each side of the sign
(`SymbolsSoFar`, `CommandsSoFar`), which say for each state of the automaton whether a stretch is
open; the latter fixes the first sign and the first character that is no space after it.

*Search.* A process knows its parent and its children only, and the theorem is about the whole tree.
`Orderly` says of every process that is over that nobody below it still runs, and `Complete` that all
its files within its depth, but those that were missed, are out; both pass from the children to the parent when it ends, so that no
induction over the tree is needed. `Failures` follows a failure that some process knows of up: somebody whose parent has still
to ask knows of it; a failure that was taken for an answer only adds to `missed`. What should be printed is stated by paths (`PathTo`) and not by
recursion.

Only model-checked: every liveness property, because the prover does not
reason about fairness and ENABLED. Every other property of a passing run is a theorem.

## Not modelled

Messages on the terminal, logs, times and formatting. `elf_queue[]` (only printed).
Malformed packets and names without an end. Opening of sockets, queues and shared memory,
except where a leftover matters. A System V queue left behind by a killed chat
server. A failing `pthread_create` in the image programs (`invert_1.c:63`, `invert_2.c:67`; nobody looks
at its result). A run of zad2's pizzeria that is started while workers of a run killed inside
`pizzeria_delete` are still alive. What becomes of the bytes that are read from the FIFO once a
record was written in parts. What a line over the parser's limits means. Reading a packet's length and rest in two rounds of the stream server's loop (the
model reads it in one; other connections may be served in between in both). A signal to the
pizzeria's master before all workers are forked, and a worker killed alone. `executor.c` of the
pipelines, which forks `/bin/sh` for each command and waits. A second calculator beside the first in one
directory. The search for the pattern inside a file. Comments in images, and sizes near
2^31.

Components with status `not_modelled`: the mail list, forked children, signals over
fork and exec, sigaction flags, blocks and their tool, copy, count and walk. They only call the
kernel and print, or are one sequential pass over data, where a test reaches what can go
wrong.

## What is left

In this order:

1. The rules on the real 3x3 board (the last move that completes a line counts as a draw), and
   an abstract match that both game servers implement.
2. `executor.c`, and the start-up of the pizzeria's master.
