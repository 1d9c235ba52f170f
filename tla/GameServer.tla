----------------------------- MODULE GameServer -----------------------------
(***************************************************************************)
(* The tic-tac-toe server of cw10/.../zad1 and its clients: the thread of  *)
(* server_loop, the pinger thread, the game manager, and one process for   *)
(* each client, over stream sockets.                                       *)
(*                                                                         *)
(* A client connects once, so it also names its socket.  A packet is       *)
(* written whole and read whole: the server reads the length in one round  *)
(* of its loop and the rest in the next, and handles it then.  What was    *)
(* written is read before the end of file; a write to a client that closed *)
(* its socket is lost, fails, or raises SIGPIPE, which the server does not *)
(* handle.  The two listening sockets are one: any waiting client may be   *)
(* the one accepted.                                                       *)
(*                                                                         *)
(* The cleanup and the pairing at the top of server_loop are one step.     *)
(* They meet the pinger only in one connection at a time, under its mutex, *)
(* and what the pinger does to the others comes before or after.           *)
(***************************************************************************)
EXTENDS GameManager

CONSTANTS
  MaxEvents               \* bound: users ending or stopping a client, SIGINTs to the server,
                          \* pinger rounds that do not wait for quiet

ASSUME MaxEventsAssumption == MaxEvents \in Nat

VARIABLES
  todo,          \* connections poll found readable, not yet looked at
  link,          \* the server's end of each client's socket: "none", "backlog", "open",
                 \* "leaked", "closed"
  toServer,
  events

clientVars == <<cpc, view>>
vars == <<spc, managed, todo, adding, ppc, g_got_sigint, link, clientVars, toServer, toClient, events>>


Init ==
  /\ spc = "test" /\ todo = {} /\ adding = -1 /\ g_got_sigint = FALSE
  /\ conns = NoConns /\ players = NoPlayers /\ sessions = NoSessions
  /\ ppc = 0 /\ events = 0
  /\ link = [c \in Clients |-> "none"]
  /\ cpc = [c \in Clients |-> "off"]
  /\ view = [c \in Clients |-> NewGame]
  /\ toServer = [c \in Clients |-> <<>>] /\ toClient = [c \in Clients |-> <<>>]

-----------------------------------------------------------------------------
(* What becomes of the packets.                                            *)

\* toClient after the writes of sends; a client that closed gets nothing
Delivered(sends) ==
  [c \in Clients |-> IF cpc[c] = "closed" THEN toClient[c]
     ELSE toClient[c] \o SentTo(c, sends)]

\* the process ends and with it every socket
ServerEnds ==
  /\ spc' = "gone" /\ ppc' = -1
  /\ conns' = NoConns /\ players' = NoPlayers /\ sessions' = NoSessions
  /\ todo' = {} /\ adding' = -1
  /\ link' = [c \in Clients |-> IF link[c] = "none" THEN "none" ELSE "closed"]
  /\ toServer' = [c \in Clients |-> <<>>]
  /\ UNCHANGED <<g_got_sigint, clientVars, events>>

-----------------------------------------------------------------------------
(* The thread of server_loop.                                              *)

\* out of the loop, or through the cleanup and the pairing to poll.  (\E x \in {e} is LET x == e,
\* evaluated once.)
Tests ==
  /\ spc = "test"
  /\ IF g_got_sigint
     THEN spc' = "closing" /\ UNCHANGED <<managed, link, toServer, toClient>>
     ELSE \E clean \in {Cleaned} : \E paired \in {Paired(clean)} :
          \E gone \in {{conns[i].sock : i \in Active(conns) \ Active(clean.conns)}} :
              /\ spc' = IF paired.ok THEN "poll" ELSE "closing"
              /\ conns' = clean.conns
              /\ players' = paired.players /\ sessions' = paired.sessions
              /\ link' = [c \in Clients |-> IF c \in gone THEN "closed" ELSE link[c]]
              /\ toServer' = [c \in Clients |-> IF c \in gone THEN <<>> ELSE toServer[c]]
              /\ toClient' = Delivered(paired.sends)
  /\ UNCHANGED <<todo, adding, ppc, g_got_sigint, clientVars, events>>

Backlog == {c \in Clients : link[c] = "backlog"}

\* a packet to read, or the end of file after the last
Readable(i) ==
  conns[i].active /\ (toServer[conns[i].sock] # <<>> \/ cpc[conns[i].sock] = "closed")

\* the loop over the connections, until none of those poll reported is left
AfterReads(left) == IF left = {} THEN "test" ELSE "read"

\* accept, and the first half of server_add_connection.  With every connection in use the
\* accepted socket stays open and is forgotten.
Accepts(c) ==
  LET free == Conns \ Active(conns) IN
  IF free = {}
  THEN /\ link' = [link EXCEPT ![c] = "leaked"] /\ spc' = AfterReads(todo')
       /\ UNCHANGED <<conns, adding>>
  ELSE /\ link' = [link EXCEPT ![c] = "open"] /\ spc' = "add"
       /\ adding' = Min(free)
       /\ conns' = [conns EXCEPT ![Min(free)] = [@ EXCEPT !.active = TRUE, !.sock = c]]

\* poll(..., -1) returns, and one of the waiting clients is accepted
Polls ==
  /\ spc = "poll"
  /\ todo' = {i \in Conns : Readable(i)}
  /\ \/ \E c \in Backlog : Accepts(c)
     \/ Backlog = {} /\ todo' # {} /\ spc' = "read" /\ UNCHANGED <<conns, adding, link>>
  /\ UNCHANGED <<players, sessions, ppc, g_got_sigint, clientVars, toServer, toClient, events>>

\* the second half: no mutex is held, the pinger may have looked in between
Adds ==
  /\ spc = "add" /\ spc' = AfterReads(todo) /\ adding' = -1
  /\ conns' = [conns EXCEPT ![adding] = [@ EXCEPT !.alive = TRUE, !.error = FALSE]]
  /\ UNCHANGED <<players, sessions, todo, ppc, g_got_sigint, link, clientVars, toServer, toClient, events>>

\* mutant: only a login that succeeded is answered
Handled_SilentRefusal(i, packet) ==
  CASE packet.type = "INIT" ->
         LET added == gman_add_player(i, NameOf[conns[i].sock]) IN
         [players |-> added.players, sessions |-> sessions,
          sends |-> IF added.ok THEN <<To(conns[i].sock, Status(TRUE))>> ELSE <<>>]
    [] packet.type = "MOVE" ->
         LET moved == gman_execute_move(NameOf[conns[i].sock], packet.pos) IN
         [players |-> players, sessions |-> moved.sessions, sends |-> moved.sends]
    [] packet.type = "PING" -> [players |-> players, sessions |-> sessions, sends |-> <<>>]

\* what server_handle_packet makes of the packet in connection i
Handled(i, packet) ==
  CASE packet.type = "INIT" ->
         LET added == gman_add_player(i, NameOf[conns[i].sock]) IN
         [players |-> added.players, sessions |-> sessions,
          sends |-> <<To(conns[i].sock, Status(added.ok))>>]
    [] packet.type = "MOVE" ->
         LET moved == gman_execute_move(NameOf[conns[i].sock], packet.pos) IN
         [players |-> players, sessions |-> moved.sessions, sends |-> moved.sends]
    [] packet.type = "PING" -> [players |-> players, sessions |-> sessions, sends |-> <<>>]

\* a PING is noted, and so is an answer that could not be written
Noted(conn, type, failed) ==
  [conn EXCEPT !.alive = conn.alive \/ type = "PING", !.error = conn.error \/ failed]

\* the first of the connections poll reported: a packet and its handling, or the end of file
Reads ==
  /\ spc = "read" /\ todo # {}
  /\ todo' = todo \ {Min(todo)} /\ spc' = AfterReads(todo')
  /\ \E i \in {Min(todo)} : \E c \in {conns[i].sock} :
        CASE toServer[c] = <<>> ->
               /\ conns' = [conns EXCEPT ![i].error = TRUE]
               /\ UNCHANGED <<players, sessions, toServer, toClient>>
          [] OTHER ->
            \E did \in {Handled(i, Head(toServer[c]))} : \E type \in {Head(toServer[c]).type} :
               /\ \E failed \in IF type = "INIT" /\ cpc[c] = "closed" THEN BOOLEAN ELSE {FALSE} :
                    conns' = [conns EXCEPT ![i] = Noted(conns[i], type, failed)]
               /\ players' = did.players /\ sessions' = did.sessions
               /\ toServer' = [toServer EXCEPT ![c] = Tail(@)]
               /\ toClient' = Delivered(did.sends)
  /\ UNCHANGED <<adding, ppc, g_got_sigint, link, clientVars, events>>

\* server_close joins the pinger, then the process is over
Closes == spc = "closing" /\ ppc = -1 /\ ServerEnds /\ UNCHANGED toClient

-----------------------------------------------------------------------------
(* The pinger and the signals.                                             *)

Pinged(i) == ppc = i /\ conns[i].active /\ conns[i].alive

\* nothing goes on by itself any more: the clients have read all that was written, and
\* the server has nothing to do
Quiet ==
  /\ spc = "poll" /\ Backlog = {} /\ \A i \in Conns : ~Readable(i)
  /\ \A c \in Clients :
       cpc[c] \notin {"off", "stopped", "closed"} => toClient[c] = <<>>

Event == events < MaxEvents /\ events' = events + 1

\* sleep(5) is long enough for all of that, save for MaxEvents times; server_close cuts it
\* short
Woken ==
  IF ppc # 0 \/ Quiet \/ spc = "closing" THEN UNCHANGED events ELSE Event

\* mutant: the loop runs to SERVER_MAX_CONNECTIONS inclusive
AfterPing_OneMore ==
  ppc' = CASE ppc < SERVER_MAX_CONNECTIONS -> ppc + 1
           [] ppc = SERVER_MAX_CONNECTIONS /\ g_got_sigint -> -1
           [] OTHER -> 0

AfterPing ==
  ppc' = CASE ppc + 1 < SERVER_MAX_CONNECTIONS -> ppc + 1
           [] ppc + 1 = SERVER_MAX_CONNECTIONS /\ (g_got_sigint \/ spc = "closing") -> -1
           [] OTHER -> 0

\* one connection of a round of pinger_task
Pings ==
  /\ ppc \in Conns /\ Woken
  /\ AfterPing
  /\ CASE Pinged(ppc) ->
            /\ toClient' = Delivered(<<To(conns[ppc].sock, Ping)>>)
            /\ \E failed \in IF cpc[conns[ppc].sock] = "closed" THEN BOOLEAN ELSE {FALSE} :
                 conns' = [conns EXCEPT ![ppc] = [@ EXCEPT !.alive = FALSE,
                                                          !.error = conns[ppc].error \/ failed]]
       [] conns[ppc].active /\ ~conns[ppc].alive ->
            conns' = [conns EXCEPT ![ppc].error = TRUE] /\ UNCHANGED toClient
       [] OTHER -> UNCHANGED <<conns, toClient>>
  /\ UNCHANGED <<spc, players, sessions, todo, adding, g_got_sigint, link, clientVars, toServer>>

\* the writes a thread of the server is about to make
NextWrites ==
  {Paired(Cleaned).sends : x \in {s \in {spc} : s = "test" /\ ~g_got_sigint}}
  \cup {Handled(i, Head(toServer[conns[i].sock])).sends :
          i \in {j \in todo : spc = "read" /\ j = Min(todo) /\ toServer[conns[j].sock] # <<>>}}
  \cup {<<To(conns[i].sock, Ping)>> : i \in {j \in Conns : Pinged(j)}}

\* one of them is to a client that closed: SIGPIPE ends the server where it stands
Sigpipe ==
  /\ \E sends \in NextWrites : \E k \in DOMAIN sends :
       cpc[sends[k].to] = "closed" /\ toClient' = Delivered(SubSeq(sends, 1, k - 1))
  /\ ServerEnds

\* a SIGINT before poll is seen by nobody until poll returns
Sigint ==
  /\ spc # "gone" /\ Event /\ g_got_sigint' = TRUE
  /\ spc' \in IF spc = "poll" THEN {"poll", "test"} ELSE {spc}
  /\ UNCHANGED <<managed, todo, adding, ppc, link, clientVars, toServer, toClient>>

ServerStep == Tests \/ Polls \/ Adds \/ Reads \/ Closes

-----------------------------------------------------------------------------
(* The clients.                                                            *)

serverVars == <<spc, managed, todo, adding, ppc, g_got_sigint>>

\* a write to the server, lost when its end is closed
Written(c, packet) ==
  toServer' = [toServer EXCEPT ![c] = IF link[c] = "closed" THEN @ ELSE Append(@, packet)]

\* the client ends: what it did not read is gone, what it wrote is not
Ended(c) ==
  /\ cpc' = [cpc EXCEPT ![c] = "closed"]
  /\ view' = [view EXCEPT ![c] = NewGame]
  /\ toClient' = [toClient EXCEPT ![c] = <<>>]

Goes(c, to) == cpc' = [cpc EXCEPT ![c] = to]

\* client_connect, refused when there is no server (one of the listening sockets is open to
\* the last), and the INIT of client_log_in
LogsIn(c) ==
  /\ cpc[c] = "off"
  /\ IF spc = "gone"
     THEN Ended(c) /\ UNCHANGED <<link, toServer>>
     ELSE /\ Goes(c, "login") /\ link' = [link EXCEPT ![c] = "backlog"]
          /\ Written(c, [type |-> "INIT"])
          /\ UNCHANGED <<view, toClient>>
  /\ UNCHANGED <<serverVars, events>>

\* the next packet is a PING and is sent back; at the prompt any other is dropped
Answers(c) ==
  /\ cpc[c] \in {"login", "wait", "turn", "status"}
  /\ toClient[c] # <<>> /\ (cpc[c] = "turn" \/ Head(toClient[c]) = Ping)
  /\ toClient' = [toClient EXCEPT ![c] = Tail(@)]
  /\ IF Head(toClient[c]) = Ping THEN Written(c, Ping) ELSE UNCHANGED toServer
  /\ UNCHANGED <<serverVars, link, clientVars, events>>

\* client_get_response and client_get_game: anything but the packet waited for is an error
Receives(c) ==
  /\ cpc[c] \in {"login", "wait", "status"}
  /\ toClient[c] # <<>> /\ Head(toClient[c]) # Ping
  /\ LET packet == Head(toClient[c])
         expected == IF cpc[c] = "wait" THEN "GAME" ELSE "STATUS"
     IN  CASE packet.type = "STATUS" /\ expected = "STATUS" /\ packet.ok ->
                Goes(c, "wait") /\ toClient' = [toClient EXCEPT ![c] = Tail(@)] /\ UNCHANGED view
           [] packet.type = "GAME" /\ expected = "GAME" /\ ~packet.game.is_over ->
                /\ toClient' = [toClient EXCEPT ![c] = Tail(@)]
                /\ IF packet.game.next_player = packet.player
                   THEN Goes(c, "turn") /\ view' = [view EXCEPT ![c] = packet.game]
                   ELSE UNCHANGED clientVars
           [] OTHER -> Ended(c)
  /\ UNCHANGED <<serverVars, link, toServer, events>>

\* the end of file; a client at its user's prompt does not notice it
HangsUp(c) ==
  /\ cpc[c] \in {"login", "wait", "status"} /\ toClient[c] = <<>> /\ link[c] = "closed"
  /\ Ended(c)
  /\ UNCHANGED <<serverVars, link, toServer, events>>

\* client_send_move, of a move the client has tried on its own copy
Moves(c) ==
  /\ cpc[c] = "turn" /\ Goes(c, "status")
  /\ \E pos \in Positions : Legal(view[c], pos) /\ Written(c, [type |-> "MOVE", pos |-> pos])
  /\ view' = [view EXCEPT ![c] = NewGame]
  /\ UNCHANGED <<serverVars, link, toClient, events>>

\* the user ends the client, or stops it
Quits(c) ==
  /\ cpc[c] \notin {"off", "closed"} /\ Ended(c) /\ Event
  /\ UNCHANGED <<serverVars, link, toServer>>

Stops(c) ==
  /\ Event /\ cpc[c] \in {"login", "wait", "turn", "status"} /\ Goes(c, "stopped")
  /\ view' = [view EXCEPT ![c] = NewGame]
  /\ UNCHANGED <<serverVars, link, toServer, toClient>>

ClientStep(c) == LogsIn(c) \/ Answers(c) \/ Receives(c) \/ HangsUp(c)

Next ==
  \/ ServerStep \/ Pings \/ Sigpipe \/ Sigint
  \/ \E c \in Clients : ClientStep(c) \/ Moves(c) \/ Quits(c) \/ Stops(c)

Spec == Init /\ [][Next]_vars

\* both threads of the server run on, and a client reads what it is sent; no user has to
\* move, to quit or to interrupt anything
FairSpec ==
  Spec /\ WF_vars(ServerStep) /\ WF_vars(Pings)
       /\ \A c \in Clients : WF_vars(ClientStep(c))

-----------------------------------------------------------------------------
\* Every part of the state has its type, and poll reports used connections only.
TypeOK ==
  /\ ServerTypeOK(Clients)
  /\ todo \subseteq Active(conns)
  /\ link \in [Clients -> {"none", "backlog", "open", "leaked", "closed"}]

\* a player sits at an open connection of the client whose name it has, and alone
PlacesAgree ==
  \A p \in Active(players) :
    /\ players[p].con \in Active(conns) /\ players[p].name = NameOf[ClientOf(p)]
    /\ \A q \in Active(players) \ {p} : players[p].con # players[q].con

\* What server_cleanup_clients, gman_cleanup_players and gman_cleanup_sessions owe each
\* other: connections, players and sessions agree and nothing leaves them, a client has one
\* connection, and when the server goes to poll at most one player has no opponent.
RegistryConsistent ==
  TypeOK /\ SeatsAgree /\ PlacesAgree /\ OneConnectionEach /\ OneWaits

\* A MOVE the server has still to read will be accepted: its sender is seated in a game,
\* it is that player's turn, and the field is free (game_move checks only the last).
MovesAreLegal ==
  \A i \in Active(conns) : \A k \in DOMAIN toServer[conns[i].sock] :
    LET packet == toServer[conns[i].sock][k] IN
    packet.type = "MOVE" =>
      \E p \in Active(players) :
        /\ players[p].con = i /\ players[p].session # -1
        /\ LET sess == sessions[players[p].session] IN
           /\ Legal(sess.game, packet.pos)
           /\ p = IF sess.game.next_player = "X" THEN sess.p1 ELSE sess.p2

Opponents(c, d) ==
  \E s \in Active(sessions) : c # d /\ {c, d} = {ClientOf(p) : p \in Seats(s)}

\* d has logged in and is connected, but the server has no player for it, or one whose
\* opponent has closed or has stopped running
Stranded(d) ==
  /\ cpc[d] \in {"wait", "turn", "status"} /\ link[d] # "closed"
  /\ \/ d \notin {ClientOf(p) : p \in Active(players)}
     \/ \E c \in Clients : Opponents(c, d) /\ cpc[c] \in {"closed", "stopped"}

\* A SIGINT that came just before poll leaves the server asleep and its pinger gone, until
\* somebody writes.
MissedSigint == spc = "poll" /\ g_got_sigint

\* Nobody is left for ever with an opponent that is gone, or connected and forgotten: the
\* server hangs up on it.  A client plays one game in its life, so that to be rid of
\* stranded clients again and again is to be rid of each.
OpponentIsReleased == []<>(MissedSigint \/ \A d \in Clients : ~Stranded(d))

\* Whoever logs in is told the outcome or hung up on, unless its socket was accepted
\* with no connection left for it: then it waits for as long as the server runs.
LoginIsAnswered == []<>(\A c \in Clients : cpc[c] = "login" => link[c] = "leaked")
=============================================================================
