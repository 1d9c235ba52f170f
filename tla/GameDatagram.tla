---------------------------- MODULE GameDatagram ----------------------------
(***************************************************************************)
(* The tic-tac-toe server of cw10/.../zad2 and its clients, over datagram  *)
(* sockets: UDP and a UNIX one.  The tables and the game manager are those *)
(* of zad1.                                                                *)
(*                                                                         *)
(* Nobody accepts and nobody hangs up.  A connection is a sender's         *)
(* address, made by any datagram that comes from an address that has none; *)
(* a client the server gives up is not told, and its next datagram makes   *)
(* it a connection without a player.                                       *)
(*                                                                         *)
(* A client is one process with one socket.  Its address is a path it      *)
(* draws or a port the kernel gives it; once it has ended, a later client  *)
(* may get the same one.  To the server that is then one sender.           *)
(*                                                                         *)
(* Every datagram may be lost on UDP, and none is doubled.  On the UNIX    *)
(* socket a send fails when nobody has the address, on UDP it does not.    *)
(***************************************************************************)
EXTENDS GameManager

CONSTANTS
  OnUnix,                 \* the clients started with "unix"; the others are on "net"
  Paths,                  \* what "unix" clients may draw for their own address
  Ports,                  \* what the kernel may give to "net" clients
  MaxEvents               \* bound: users interrupting or stopping a client, SIGINTs to the
                          \* server, datagrams lost, rounds of the pinger that do not wait
                          \* for quiet

ASSUME GameDatagramAssumption ==
  /\ OnUnix \subseteq Clients /\ MaxEvents \in Nat
  /\ Paths \cap Ports = {} /\ Nobody \notin Paths \cup Ports

Addresses == Paths \cup Ports

VARIABLES
  datagram,      \* what recvfrom returned last: from, packet
  received,      \* the datagrams in the sockets "net" and "unix" of the server
  holder,        \* the client that has bound an address, or was the last to
  inherited,     \* some client got an address the server still knew from another one
  interrupted,   \* the clients whose g_got_sigint is set and not yet noticed
  events

loopVars == <<spc, datagram, adding>>
pingerVars == <<ppc, g_got_sigint>>
holderVars == <<holder, inherited>>
clientVars == <<cpc, view, interrupted, holderVars>>
vars == <<loopVars, managed, pingerVars, received, clientVars, toClient, events>>

NoDatagram == [from |-> Nobody, packet |-> Ping]

Init ==
  /\ spc = "test" /\ datagram = NoDatagram /\ adding = -1
  /\ conns = NoConns /\ players = NoPlayers /\ sessions = NoSessions
  /\ ppc = 0 /\ g_got_sigint = FALSE /\ events = 0
  /\ received = [s \in {"net", "unix"} |-> <<>>]
  /\ cpc = [c \in Clients |-> "off"]
  /\ holder = [a \in Addresses |-> Nobody] /\ inherited = FALSE
  /\ view = [c \in Clients |-> NewGame] /\ interrupted = {}
  /\ toClient = [c \in Clients |-> <<>>]

Event == events < MaxEvents /\ events' = events + 1

SocketOf(a) == IF a \in Paths THEN "unix" ELSE "net"

\* the address of a client that has one: no other client has bound it since
AddressOf(c) == CHOOSE a \in Addresses : holder[a] = c

Runs(c) == cpc[c] \notin {"off", "closed"}
Held(a) == holder[a] # Nobody /\ Runs(holder[a])

\* server_close closes netsock, twice, and leaves unixsock to the exit of the process
Open(s) == spc # "gone" /\ (s = "net" => spc # "closing")

\* a send of the server fails: its socket is closed, or nobody has bound the path
Fails(a) == ~Open(SocketOf(a)) \/ (a \in Paths /\ ~Held(a))

\* toClient after the sends of the server: whoever has an address gets what is sent there
Delivered(sends) ==
  [c \in Clients |-> IF Runs(c) /\ Open(SocketOf(AddressOf(c)))
                     THEN toClient[c] \o SentTo(AddressOf(c), sends) ELSE toClient[c]]

-----------------------------------------------------------------------------
(* The thread of server_loop.                                              *)

Incoming == received["net"] # <<>> \/ received["unix"] # <<>>

\* mutant: poll waits without a timeout
TimedOut_Never == FALSE

\* poll(..., 100) returns 0
TimedOut == spc = "poll" /\ ~Incoming

\* the top of the loop: the stop, or the three cleanups and the pairing, then poll.  A client
\* that is removed is not told.  server_close begins with closing netsock.
Tests ==
  /\ spc = "test" \/ TimedOut
  /\ IF g_got_sigint
     THEN /\ spc' = "closing" /\ received' = [received EXCEPT !["net"] = <<>>]
          /\ UNCHANGED <<managed, pingerVars, toClient>>
     ELSE \E clean \in {Cleaned} : \E paired \in {Paired(clean)} :
          /\ conns' = clean.conns
          /\ players' = paired.players /\ sessions' = paired.sessions
          /\ toClient' = Delivered(paired.sends)
          /\ IF paired.ok
             THEN spc' = "poll" /\ UNCHANGED <<received, g_got_sigint>>
             ELSE /\ spc' = "closing" /\ received' = [received EXCEPT !["net"] = <<>>]
                  /\ g_got_sigint' = TRUE     \* the pthread_kill of server_close
          /\ UNCHANGED ppc
  /\ UNCHANGED <<datagram, adding, clientVars, events>>

\* mutant: the address is compared with that of unused entries only
NewAddress_Always(a) == \A i \in Conns : conns[i].active \/ conns[i].sock # a

NewAddress(a) == \A i \in Active(conns) : conns[i].sock # a

\* recvfrom, from netsock if there is anything, and server_add_connection down to "active =
\* true".  With no entry free the datagram is dropped: no connection has its address.
Receives(s) ==
  /\ spc = "poll" /\ received[s] # <<>> /\ (s = "unix" => received["net"] = <<>>)
  /\ received' = [received EXCEPT ![s] = Tail(@)]
  /\ LET got == Head(received[s])
         free == Conns \ Active(conns)
     IN  CASE ~NewAddress(got.from) ->
                spc' = "handle" /\ datagram' = got /\ UNCHANGED <<conns, adding>>
           [] NewAddress(got.from) /\ free # {} ->
                /\ spc' = "add" /\ datagram' = got /\ adding' = Min(free)
                /\ conns' = [conns EXCEPT ![Min(free)] = [@ EXCEPT !.active = TRUE, !.sock = got.from]]
           [] OTHER -> spc' = "test" /\ UNCHANGED <<conns, datagram, adding>>
  /\ UNCHANGED <<players, sessions, pingerVars, clientVars, toClient, events>>

\* the rest of server_add_connection: no mutex is held, the pinger may have looked in between
Adds ==
  /\ spc = "add" /\ spc' = "handle" /\ adding' = -1
  /\ conns' = [conns EXCEPT ![adding] = [@ EXCEPT !.alive = TRUE, !.error = FALSE]]
  /\ UNCHANGED <<datagram, players, sessions, pingerVars, received, clientVars, toClient, events>>

\* the packet is handled under the mutex of its sender's connection.  A MOVE that finds no
\* player of its name, or one without a game, is not answered.
Handles ==
  /\ spc = "handle" /\ spc' = "test" /\ datagram' = NoDatagram
  /\ LET packet == datagram.packet
         a == datagram.from
         i == CHOOSE j \in Active(conns) : conns[j].sock = a
     IN  CASE packet.type = "INIT" ->
                /\ \E added \in {gman_add_player(i, packet.name)} :
                     players' = added.players /\ toClient' = Delivered(<<To(a, Status(added.ok))>>)
                /\ conns' = [conns EXCEPT ![i].error = @ \/ Fails(a)]
                /\ UNCHANGED sessions
           [] packet.type = "MOVE" ->
                /\ \E moved \in {gman_execute_move(packet.name, packet.pos)} :
                     sessions' = moved.sessions /\ toClient' = Delivered(moved.sends)
                /\ UNCHANGED <<conns, players>>
           [] packet.type = "PING" ->
                conns' = [conns EXCEPT ![i].alive = TRUE] /\ UNCHANGED <<players, sessions, toClient>>
  /\ UNCHANGED <<adding, pingerVars, received, clientVars, events>>

\* server_close has joined the pinger: the process ends, and with it the sockets
Closes ==
  /\ spc = "closing" /\ ppc = -1
  /\ spc' = "gone" /\ datagram' = NoDatagram /\ adding' = -1
  /\ conns' = NoConns /\ players' = NoPlayers /\ sessions' = NoSessions
  /\ received' = [s \in {"net", "unix"} |-> <<>>]
  /\ UNCHANGED <<pingerVars, clientVars, toClient, events>>

ServerStep == Tests \/ (\E s \in {"net", "unix"} : Receives(s)) \/ Adds \/ Handles \/ Closes

-----------------------------------------------------------------------------
(* The pinger and the signals.                                             *)

\* nothing goes on by itself: the server waits in poll, and the clients have read all
Quiet ==
  /\ spc = "poll" /\ ~Incoming
  /\ \A c \in Clients :
       cpc[c] \notin {"off", "stopped", "closed"} => toClient[c] = <<>>

\* sleep(5) is long enough for all of that, save for MaxEvents times; a signal cuts it short
Woken ==
  IF ppc # 0 \/ Quiet \/ spc = "closing" THEN UNCHANGED events ELSE Event

AfterPing ==
  ppc' = CASE ppc + 1 < SERVER_MAX_CONNECTIONS -> ppc + 1
           [] ppc + 1 = SERVER_MAX_CONNECTIONS /\ g_got_sigint -> -1
           [] OTHER -> 0

\* mutant: only an answer resets alive
PingedConn_Once(conn) ==
  IF conn.alive THEN [conn EXCEPT !.error = @ \/ Fails(conn.sock)]
  ELSE [conn EXCEPT !.error = TRUE]

\* a used connection after its turn
PingedConn(conn) ==
  IF conn.alive THEN [conn EXCEPT !.alive = FALSE, !.error = @ \/ Fails(conn.sock)]
  ELSE [conn EXCEPT !.error = TRUE]

\* one connection of a round of pinger_task
Pings ==
  /\ ppc \in Conns /\ Woken
  /\ AfterPing
  /\ IF conns[ppc].active
     THEN /\ conns' = [conns EXCEPT ![ppc] = PingedConn(@)]
          /\ toClient' = IF conns[ppc].alive THEN Delivered(<<To(conns[ppc].sock, Ping)>>) ELSE toClient
     ELSE UNCHANGED <<conns, toClient>>
  /\ UNCHANGED <<loopVars, players, sessions, g_got_sigint, received, clientVars>>

Sigint ==
  /\ spc # "gone" /\ ~g_got_sigint /\ Event /\ g_got_sigint' = TRUE
  /\ UNCHANGED <<loopVars, managed, ppc, received, clientVars, toClient>>

-----------------------------------------------------------------------------
(* The clients.                                                            *)

serverVars == <<loopVars, managed, pingerVars>>

Goes(c, to) == cpc' = [cpc EXCEPT ![c] = to]

\* client_disconnect and the exit: what the client did not read is gone
Ends(c) ==
  /\ Goes(c, "closed") /\ view' = [view EXCEPT ![c] = NewGame]
  /\ toClient' = [toClient EXCEPT ![c] = <<>>] /\ interrupted' = interrupted \ {c}

\* a send to the server.  On UDP a server that is gone is noticed, if at all, by the answer
\* of its host.
SentFrom(a, packet) ==
  received' = IF Open(SocketOf(a))
              THEN [received EXCEPT ![SocketOf(a)] = Append(@, [from |-> a, packet |-> packet])]
              ELSE received

Sent(c, packet) == SentFrom(AddressOf(c), packet)

Reached(c) == Open(IF c \in OnUnix THEN "unix" ELSE "net")
Noticed(c) == ~Reached(c)
Unnoticed(c) == Reached(c) \/ c \notin OnUnix

\* the server has a connection of this address, or a datagram from it
Known(a) ==
  \/ datagram.from = a \/ ~NewAddress(a)
  \/ \E s \in {"net", "unix"} : \E k \in DOMAIN received[s] : received[s][k].from = a

\* bind, of a path that does not exist (client_disconnect unlinks it), or of any free port
Binds(c, a) ==
  /\ ~Held(a)
  /\ holder' = [holder EXCEPT ![a] = c] /\ inherited' = (inherited \/ Known(a))

\* client_connect and the INIT of client_log_in.  A path is drawn from the time in seconds;
\* bind fails if a client that runs has drawn the same.
LogsIn(c) ==
  /\ cpc[c] = "off"
  /\ \/ /\ Noticed(c) \/ (c \in OnUnix /\ \E a \in Paths : Held(a))
        /\ Ends(c) /\ UNCHANGED <<received, holderVars>>
     \/ /\ Unnoticed(c) /\ Goes(c, "login") /\ UNCHANGED <<view, toClient, interrupted>>
        /\ \E a \in IF c \in OnUnix THEN Paths ELSE Ports :
             Binds(c, a) /\ SentFrom(a, [type |-> "INIT", name |-> NameOf[c]])
  /\ UNCHANGED <<serverVars, events>>

\* the next packet is a PING and is sent back; at the prompt any other is dropped, and a
\* failed send is not looked at
Answers(c) ==
  /\ cpc[c] \in {"login", "wait", "turn", "status"}
  /\ toClient[c] # <<>> /\ (cpc[c] = "turn" \/ Head(toClient[c]) = Ping)
  /\ \/ /\ Unnoticed(c) \/ cpc[c] = "turn"
        /\ toClient' = [toClient EXCEPT ![c] = Tail(@)]
        /\ IF Head(toClient[c]) = Ping THEN Sent(c, Ping) ELSE UNCHANGED received
        /\ UNCHANGED clientVars
     \/ Noticed(c) /\ cpc[c] # "turn" /\ Ends(c) /\ UNCHANGED received
  /\ UNCHANGED <<serverVars, holderVars, events>>

\* client_get_response and client_get_game: anything but the packet waited for is an error.
\* The flag of a SIGINT is looked at when they return.
Takes(c) ==
  /\ cpc[c] \in {"login", "wait", "status"}
  /\ toClient[c] # <<>> /\ Head(toClient[c]) # Ping
  /\ LET packet == Head(toClient[c])
         expected == IF cpc[c] = "wait" THEN "GAME" ELSE "STATUS"
         mine == packet.type = "GAME" /\ packet.game.next_player = packet.player
     IN  CASE packet.type = "STATUS" /\ expected = "STATUS" /\ packet.ok /\ c \notin interrupted ->
                /\ Goes(c, "wait") /\ toClient' = [toClient EXCEPT ![c] = Tail(@)]
                /\ UNCHANGED <<view, interrupted>>
           [] packet.type = "GAME" /\ expected = "GAME" /\ ~packet.game.is_over /\ c \notin interrupted ->
                /\ toClient' = [toClient EXCEPT ![c] = Tail(@)]
                /\ cpc' = IF mine THEN [cpc EXCEPT ![c] = "turn"] ELSE cpc
                /\ view' = IF mine THEN [view EXCEPT ![c] = packet.game] ELSE view
                /\ UNCHANGED interrupted
           [] OTHER -> Ends(c)
  /\ UNCHANGED <<serverVars, holderVars, received, events>>

\* client_send_move, of a move the client has tried on its own copy
Moves(c) ==
  /\ cpc[c] = "turn"
  /\ \/ /\ Unnoticed(c) /\ Goes(c, "status")
        /\ \E pos \in Positions : Legal(view[c], pos) /\ Sent(c, [type |-> "MOVE", name |-> NameOf[c], pos |-> pos])
        /\ view' = [view EXCEPT ![c] = NewGame]
        /\ UNCHANGED <<toClient, interrupted>>
     \/ Noticed(c) /\ Ends(c) /\ UNCHANGED received
  /\ UNCHANGED <<serverVars, holderVars, events>>

\* SIGINT to a client: it interrupts the recvfrom, or comes just before one and is noticed
\* when that returns.  At the prompt it sends the client to a fgetc(stdin), which answers
\* no PING, and there it stays until the user types.
Interrupts(c) ==
  /\ Event /\ c \notin interrupted
  /\ \/ cpc[c] \in {"login", "wait", "status"} /\ Ends(c)
     \/ /\ cpc[c] \in {"login", "wait", "status", "turn"}
        /\ interrupted' = interrupted \cup {c}
        /\ cpc' = IF cpc[c] = "turn" THEN [cpc EXCEPT ![c] = "stopped"] ELSE cpc
        /\ view' = [view EXCEPT ![c] = NewGame] /\ UNCHANGED toClient
  /\ UNCHANGED <<serverVars, holderVars, received>>

Types(c) ==
  /\ cpc[c] = "stopped" /\ c \in interrupted /\ Ends(c)
  /\ UNCHANGED <<serverVars, holderVars, received, events>>

\* a client that does not run any more, and is not dead
Stops(c) ==
  /\ Event /\ cpc[c] \in {"login", "wait", "turn", "status"} /\ Goes(c, "stopped")
  /\ view' = [view EXCEPT ![c] = NewGame]
  /\ UNCHANGED <<serverVars, holderVars, received, interrupted, toClient>>

\* a datagram on UDP is lost, either way
Loses ==
  /\ Event
  /\ \/ \E k \in DOMAIN received["net"] :
          received' = [received EXCEPT !["net"] = RemoveAt(@, k)] /\ UNCHANGED toClient
     \/ \E c \in Clients \ OnUnix : \E k \in DOMAIN toClient[c] :
          toClient' = [toClient EXCEPT ![c] = RemoveAt(@, k)] /\ UNCHANGED received
  /\ UNCHANGED <<serverVars, holderVars, clientVars>>

ClientStep(c) == LogsIn(c) \/ Answers(c) \/ Takes(c)

Next ==
  \/ ServerStep \/ Pings \/ Sigint \/ Loses
  \/ \E c \in Clients : ClientStep(c) \/ Moves(c) \/ Interrupts(c) \/ Types(c) \/ Stops(c)

Spec == Init /\ [][Next]_vars

\* both threads of the server run on, and a client reads what it is sent; no user has to
\* move, to type or to interrupt anything
FairSpec ==
  Spec /\ WF_vars(ServerStep) /\ WF_vars(Pings)
       /\ \A c \in Clients : WF_vars(ClientStep(c))

-----------------------------------------------------------------------------
\* a player sits at an open connection of the client whose name it has, the last one to use
\* that address
PlacesAgree ==
  \A p \in Active(players) :
    players[p].con \in Active(conns) /\ players[p].name = NameOf[holder[ClientOf(p)]]

\* The three cleanups keep the tables in agreement although any datagram may make a
\* connection and no client is told of its end: players and sessions agree, an address has
\* one connection, and when the server goes to poll at most one player has no opponent.
\* Which connection a player has is right only as long as no client gets the address of
\* another one that the server has not forgotten: then two players may have one connection,
\* and a player may be left to the stranger who gets that connection next.
AddressesConsistent ==
  /\ ServerTypeOK(Addresses) /\ SeatsAgree /\ OneConnectionEach /\ OneWaits
  /\ ~inherited => PlacesAgree

\* A connection is not kept for nobody, whatever is still on the way from its address and
\* whoever else is served: when the client that has the address ended or hangs,
\* server_cleanup_clients gets it, and the game manager every player that has it.  (A client
\* that got the address answers for all players of it; an opponent is not told.)
GoneAreForgotten ==
  []<>(/\ \A i \in Active(conns) : cpc[holder[conns[i].sock]] \notin {"closed", "stopped"}
       /\ \A p \in Active(players) : players[p].con \in Active(conns))

\* A SIGINT ends the server, whichever of its threads took it and wherever they were.
SigintEnds == []<>(g_got_sigint => spc = "gone")
=============================================================================
