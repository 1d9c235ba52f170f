----------------------------- MODULE GameManager -----------------------------
(***************************************************************************)
(* What the tic-tac-toe servers of cw10 share, zad1 over stream sockets    *)
(* and zad2 over datagrams: the state of both threads and of the clients,  *)
(* the tables, and the game manager that keeps them, game_manager.c, the   *)
(* same in both but for how a packet is sent.                              *)
(*                                                                         *)
(* A connection's sock is what the server sends to: in zad1 the client at  *)
(* its other end, in zad2 an address.  The operators say what becomes of   *)
(* the tables and which packets are sent; the servers say what becomes of  *)
(* the packets.                                                            *)
(***************************************************************************)
EXTENDS TicTacToe, Integers, SequencesExt

CONSTANTS
  Clients,
  Nobody,
  NameOf,                 \* the name a client logs in with
  SERVER_MAX_CONNECTIONS,
  GMAN_MAX_PLAYERS,
  GMAN_MAX_SESSIONS

ASSUME SizesAssumption ==
  /\ SERVER_MAX_CONNECTIONS \in Nat \ {0}
  /\ GMAN_MAX_PLAYERS \in Nat \ {0} /\ GMAN_MAX_SESSIONS \in Nat \ {0}
  /\ Nobody \notin Clients /\ NameOf \in [Clients -> STRING]

Conns == 0 .. SERVER_MAX_CONNECTIONS - 1
Players == 0 .. GMAN_MAX_PLAYERS - 1
Sessions == 0 .. GMAN_MAX_SESSIONS - 1

VARIABLES
  spc,           \* the thread of server_loop: "test", "poll", "add", "read" or "handle",
                 \* "closing", "gone"
  adding,        \* the connection server_add_connection is filling in
  ppc,           \* the connection the pinger looks at next, 0 also while it sleeps, -1 when
                 \* it has ended
  g_got_sigint,
  conns, players, sessions,
  cpc,           \* each client: "off", "login", "wait", "turn", "status", "stopped",
                 \* "closed"
  view,          \* the game a client shows while it waits for its user's move
  toClient       \* the packets on their way to each client

managed == <<conns, players, sessions>>

NoConn == [active |-> FALSE, sock |-> Nobody, error |-> FALSE, alive |-> FALSE]
NoPlayer == [active |-> FALSE, con |-> -1, name |-> Nobody, session |-> -1]
NoSession == [active |-> FALSE, p1 |-> -1, p2 |-> -1, game |-> NewGame]

NoConns == [i \in Conns |-> NoConn]
NoPlayers == [p \in Players |-> NoPlayer]
NoSessions == [s \in Sessions |-> NoSession]

TablesTypeOK(peers) ==
  /\ conns \in [Conns -> [active : BOOLEAN, sock : peers \cup {Nobody}, error : BOOLEAN, alive : BOOLEAN]]
  /\ players \in [Players -> [active : BOOLEAN, con : Conns \cup {-1}, name : STRING \cup {Nobody},
                              session : Sessions \cup {-1}]]
  /\ sessions \in [Sessions -> [active : BOOLEAN, p1 : Players \cup {-1}, p2 : Players \cup {-1},
                                game : Game]]

Ping == [type |-> "PING"]
Status(ok) == [type |-> "STATUS", ok |-> ok]
GamePacket(player, game) == [type |-> "GAME", player |-> player, game |-> game]

To(c, packet) == [to |-> c, packet |-> packet]

\* indices from the least, as the loops over the tables meet them
InOrder(S) ==
  CHOOSE seq \in [1 .. Cardinality(S) -> S] : \A j, k \in DOMAIN seq : j < k => seq[j] < seq[k]

\* what a client is sent
SentTo(c, sends) ==
  LET mine == InOrder({k \in DOMAIN sends : sends[k].to = c})
  IN  [k \in DOMAIN mine |-> sends[mine[k]].packet]

Active(table) == {i \in DOMAIN table : table[i].active}

ClientOf(p) == conns[players[p].con].sock

\* mutant: the search ends at the first free place
gman_add_player_FirstFree(i, name) ==
  LET free == Players \ Active(players)
  IN  IF free = {} \/ \E p \in Active(players) : players[p].name = name /\ p < Min(free)
      THEN [ok |-> FALSE, players |-> players]
      ELSE [ok |-> TRUE,
            players |-> [players EXCEPT ![Min(free)] =
              [active |-> TRUE, con |-> i, name |-> name, session |-> -1]]]

\* gman_add_player takes the last free place
gman_add_player(i, name) ==
  LET free == Players \ Active(players)
  IN  IF free = {} \/ \E p \in Active(players) : players[p].name = name
      THEN [ok |-> FALSE, players |-> players]
      ELSE [ok |-> TRUE,
            players |-> [players EXCEPT ![Max(free)] =
              [active |-> TRUE, con |-> i, name |-> name, session |-> -1]]]

\* mutant: the marks are the wrong way round
ShowGame_Swapped(c1, c2, game) == <<To(c1, GamePacket("O", game)), To(c2, GamePacket("X", game))>>

\* the packets that show a game to its two players
ShowGame(c1, c2, game) == <<To(c1, GamePacket("X", game)), To(c2, GamePacket("O", game))>>

\* mutant: gman_remove_player leaves its connection alone
ConnectionsOf_None(removed) == {i \in Conns : i < 0}

\* gman_remove_player hangs up on its client
ConnectionsOf(removed) == {players[p].con : p \in removed}

\* server_cleanup_clients, gman_cleanup_players, gman_cleanup_sessions
Cleaned ==
  LET open == {i \in Active(conns) : ~conns[i].error}
      seated == {p \in Active(players) : players[p].con \in open}
      ended == {s \in Active(sessions) : {sessions[s].p1, sessions[s].p2} \ seated # {}}
      thrownOut == {p \in seated : players[p].session \in ended}
      kept == open \ ConnectionsOf(thrownOut)
  IN  [conns |-> [i \in Conns |-> IF i \in kept THEN conns[i] ELSE NoConn],
       players |-> [p \in Players |-> IF p \in seated \ thrownOut THEN players[p] ELSE NoPlayer],
       sessions |-> [s \in Sessions |-> IF s \in ended THEN NoSession ELSE sessions[s]]]

\* the unpaired players of a cleaned-up state, two by two from the first
Pairs(pls) ==
  LET alone == InOrder({p \in Active(pls) : pls[p].session = -1})
  IN  [k \in 1 .. Len(alone) \div 2 |-> <<alone[2 * k - 1], alone[2 * k]>>]

\* find_pairs: the pairs get the free sessions in turn.  A player without a connection (two
\* players may have had one) is paired as any other, and what it is sent goes nowhere.
Paired(clean) ==
  LET pairs == Pairs(clean.players)
      free == InOrder(Sessions \ Active(clean.sessions))
      seats == {k \in DOMAIN pairs : k <= Len(free)}
      SockOf(p) == clean.conns[clean.players[p].con].sock
      Shows(k) == ShowGame(SockOf(pairs[k][1]), SockOf(pairs[k][2]), NewGame)
      SessionOf(p) == {k \in seats : p \in {pairs[k][1], pairs[k][2]}}
  IN  [players |-> [p \in Players |->
         IF SessionOf(p) = {} THEN clean.players[p]
         ELSE [clean.players[p] EXCEPT !.session = free[CHOOSE k \in SessionOf(p) : TRUE]]],
       sessions |-> [s \in Sessions |->
         IF \E k \in seats : free[k] = s
         THEN LET k == CHOOSE j \in seats : free[j] = s
              IN  [active |-> TRUE, p1 |-> pairs[k][1], p2 |-> pairs[k][2], game |-> NewGame]
         ELSE clean.sessions[s]],
       sends |-> [n \in 1 .. 2 * Cardinality(seats) |->
                    Shows((n + 1) \div 2)[IF n % 2 = 1 THEN 1 ELSE 2]],
       ok |-> seats = DOMAIN pairs]

\* gman_execute_move finds the mover by name and does not ask whose turn it is
gman_execute_move(name, pos) ==
  LET named == {p \in Active(players) : players[p].name = name}
      p == CHOOSE q \in named : TRUE
      s == players[p].session
      game == sessions[s].game
      next == game_move(game, pos)
  IN  IF named = {} \/ s = -1
      THEN [sessions |-> sessions, sends |-> <<>>]
      ELSE IF Legal(game, pos)
          THEN [sessions |-> [sessions EXCEPT ![s].game = next],
                sends |-> <<To(ClientOf(p), Status(TRUE))>>
                          \o ShowGame(ClientOf(sessions[s].p1), ClientOf(sessions[s].p2), next)]
          ELSE [sessions |-> sessions, sends |-> <<To(ClientOf(p), Status(FALSE))>>]

Seats(s) == {sessions[s].p1, sessions[s].p2}

\* Players and sessions, which refer to each other by index: no two players share a name,
\* and a session has two players that know it.
SeatsAgree ==
  /\ \A p \in Active(players) :
       /\ players[p].session # -1 =>
            players[p].session \in Active(sessions) /\ p \in Seats(players[p].session)
       /\ \A q \in Active(players) \ {p} : players[p].name # players[q].name
  /\ \A s \in Active(sessions) :
       /\ sessions[s].p1 # sessions[s].p2
       /\ \A p \in Seats(s) : p \in Active(players) /\ players[p].session = s

Unpaired == {p \in Active(players) : players[p].session = -1}

\* at most one player has no opponent, and an end of a connection has one
OneWaits == spc = "poll" => Cardinality(Unpaired) <= 1
OneConnectionEach == \A i, j \in Active(conns) : conns[i].sock = conns[j].sock => i = j

\* every part of the shared state has its type
ServerTypeOK(peers) ==
  /\ spc \in {"test", "poll", "add", "read", "handle", "closing", "gone"}
  /\ TablesTypeOK(peers)
  /\ adding \in Conns \cup {-1} /\ ppc \in Conns \cup {-1} /\ g_got_sigint \in BOOLEAN
  /\ cpc \in [Clients -> {"off", "login", "wait", "turn", "status", "stopped", "closed"}]
  /\ view \in [Clients -> Game]
=============================================================================
