----------------------------- MODULE GameProofs -----------------------------
(***************************************************************************)
(* The tables of the stream server and of the datagram server agree, and   *)
(* no MOVE that the stream server reads is refused, for any number of      *)
(* clients, of places in the tables and of fields and lines of the board.  *)
(*                                                                         *)
(* Whose turn it is in a game is a token that goes round: it is a GAME     *)
(* packet on its way to a client, then the client's prompt, then a MOVE on *)
(* its way back.  A seated client whose turn it is has it in one of these  *)
(* forms at most, and any other client of a game has none; then a MOVE is  *)
(* about the game as it still is.                                          *)
(*                                                                         *)
(* The game manager of the two servers is the same, and so are the lemmas  *)
(* about it: they are of any tables that are Typed and Seated, whatever is *)
(* at the other end of a connection.                                       *)
(***************************************************************************)
EXTENDS GameServer, FunctionTheorems, FiniteSetTheorems, SequenceTheorems, TLAPS

Requests == {[type |-> "INIT"], Ping} \cup {[type |-> "MOVE", pos |-> pos] : pos \in Positions}

Packets ==
  {Ping} \cup {Status(ok) : ok \in BOOLEAN}
  \cup {GamePacket(player, game) : player \in Player, game \in Game}

Mail == toServer \in [Clients -> Seq(Requests)] /\ toClient \in [Clients -> Seq(Packets)]

Loop ==
  /\ spc \in {"test", "poll", "closing", "gone"} => todo = {}
  /\ spc = "add" => adding \in Active(conns)

\* the forms of the token
AsksForMove(packet) ==
  packet.type = "GAME" /\ packet.player = packet.game.next_player /\ ~packet.game.is_over
Asked(c) == {k \in DOMAIN toClient[c] : AsksForMove(toClient[c][k])}
Prompted(c) == cpc[c] = "turn"
Moved(c) == {k \in DOMAIN toServer[c] : toServer[c][k].type = "MOVE"}

Tokenless(c) == Asked(c) = {} /\ ~Prompted(c) /\ Moved(c) = {}

OneToken(c) ==
  /\ \A k, l \in Asked(c) : k = l
  /\ \A k, l \in Moved(c) : k = l
  /\ Asked(c) # {} => ~Prompted(c) /\ Moved(c) = {}
  /\ Prompted(c) => Moved(c) = {}

\* a connection is the open end of a client's socket; before that nothing is sent to it
Links ==
  /\ \A i \in Active(conns) : conns[i].sock \in Clients /\ link[conns[i].sock] = "open"
  /\ \A i, j \in Active(conns) : conns[i].sock = conns[j].sock => i = j
  /\ \A c \in Clients :
       /\ cpc[c] = "off" => link[c] = "none"
       /\ link[c] \in {"none", "backlog", "leaked"} => toClient[c] = <<>> /\ Tokenless(c)

Mover(s) == IF sessions[s].game.next_player = "X" THEN sessions[s].p1 ELSE sessions[s].p2

\* it is the turn, in this game, of the player at connection i
MayMove(i, game) ==
  \E p \in Active(players) :
    /\ players[p].con = i /\ players[p].session # -1
    /\ p = Mover(players[p].session)
    /\ game = sessions[players[p].session].game /\ ~game.is_over

TokenAt(i) ==
  LET c == conns[i].sock IN
  /\ OneToken(c)
  /\ \A k \in Asked(c) : MayMove(i, toClient[c][k].game)
  /\ Prompted(c) => MayMove(i, view[c])
  /\ \A k \in Moved(c) : \E game \in Game : MayMove(i, game) /\ Legal(game, toServer[c][k].pos)

Tokens == \A i \in Active(conns) : TokenAt(i)

TablesAgree == SeatsAgree /\ PlacesAgree

Settled == TablesAgree /\ (spc = "poll" => Cardinality(Unpaired) <= 1)

IInv == TypeOK /\ Mail /\ Loop /\ Links /\ Settled /\ Tokens

-----------------------------------------------------------------------------
(* Numbers in order.                                                       *)

\* The k-th of a finite set of numbers is the one with k of them up to it.
LEMMA Ranks ==
  ASSUME NEW S \in SUBSET Int, IsFiniteSet(S)
  PROVE  /\ Cardinality(S) \in Nat
         /\ \E seq \in [1 .. Cardinality(S) -> S] :
              \A j, k \in 1 .. Cardinality(S) : j < k => seq[j] < seq[k]
<1> DEFINE Upto(x) == {y \in S : y <= x}
           n == Cardinality(S)
           rank == [x \in S |-> Cardinality(Upto(x))]
<1>1. n \in Nat BY FS_CardinalityType
<1>2. ASSUME NEW x \in S
      PROVE  IsFiniteSet(Upto(x)) /\ Cardinality(Upto(x)) \in 1 .. n
  <2>1. IsFiniteSet(Upto(x)) /\ Cardinality(Upto(x)) <= n BY FS_Subset
  <2>2. Cardinality(Upto(x)) \in Nat BY <2>1, FS_CardinalityType
  <2>3. Upto(x) # {} OBVIOUS
  <2>4. Cardinality(Upto(x)) # 0 BY <2>1, <2>3, FS_EmptySet
  <2> QED BY <1>1, <2>1, <2>2, <2>4
<1>3. ASSUME NEW x \in S, NEW z \in S, x < z
      PROVE  Cardinality(Upto(x)) < Cardinality(Upto(z))
  <2>1. Upto(x) \in SUBSET Upto(z) /\ z \in Upto(z) \ Upto(x)
    <3>1. \A y \in S : y \in Int OBVIOUS
    <3>2. \A y \in S : y <= x => y <= z BY <1>3, <3>1
    <3>3. ~(z <= x) /\ z <= z BY <1>3, <3>1
    <3> QED BY <3>2, <3>3
  <2>2. Cardinality(Upto(x)) <= Cardinality(Upto(z)) /\ Cardinality(Upto(x)) # Cardinality(Upto(z))
    <3> HIDE DEF Upto
    <3> QED BY <1>2, <2>1, FS_Subset
  <2> QED BY <1>2, <2>2
<1> HIDE DEF Upto, n
<1>4. rank \in Injection(S, 1 .. n)
  <2>1. rank \in [S -> 1 .. n] BY <1>2
  <2>2. ASSUME NEW x \in S, NEW z \in S, rank[x] = rank[z] PROVE x = z
    <3>1. ~(x < z) /\ ~(z < x)
      <4>1. rank[x] \in Int /\ rank[z] \in Int BY <1>1, <2>1
      <4>2. rank[x] = Cardinality(Upto(x)) /\ rank[z] = Cardinality(Upto(z)) OBVIOUS
      <4> QED BY <1>3, <2>2, <4>1, <4>2
    <3> QED BY <3>1
  <2> QED BY <2>1, <2>2, Fun_IsInj
<1>5. IsFiniteSet(1 .. n) /\ Cardinality(1 .. n) = n BY <1>1, FS_Interval
<1>6. rank \in Bijection(S, 1 .. n)
  BY <1>4, <1>5, FS_Injection DEF n, Bijection
<1> DEFINE seq == [k \in 1 .. n |-> CHOOSE x \in S : rank[x] = k]
<1>7. \A k \in 1 .. n : seq[k] \in S /\ rank[seq[k]] = k
  <2>1. \A k \in 1 .. n : \E x \in S : rank[x] = k BY <1>6 DEF Bijection, Surjection
  <2> QED BY <2>1
<1>8. ASSUME NEW j \in 1 .. n, NEW k \in 1 .. n, j < k PROVE seq[j] < seq[k]
  <2> DEFINE x == seq[j]
             z == seq[k]
  <2>1. x \in S /\ z \in S /\ rank[x] = j /\ rank[z] = k BY <1>7
  <2> HIDE DEF x, z, seq
  <2>2. Cardinality(Upto(x)) = j /\ Cardinality(Upto(z)) = k BY <2>1
  <2>3. ~(z < x) BY <1>1, <1>3, <1>8, <2>1, <2>2
  <2>4. x # z BY <1>8, <2>1
  <2>5. x < z BY <2>1, <2>3, <2>4
  <2> QED BY <2>5 DEF x, z
<1>9. seq \in [1 .. n -> S] BY <1>7
<1> HIDE DEF seq
<1> QED BY <1>1, <1>8, <1>9 DEF n

LEMMA InOrderHasAll ==
  ASSUME NEW S \in SUBSET Int, IsFiniteSet(S)
  PROVE  /\ InOrder(S) \in [1 .. Cardinality(S) -> S] /\ Cardinality(S) \in Nat
         /\ \A j, k \in 1 .. Cardinality(S) : j < k => InOrder(S)[j] < InOrder(S)[k]
         /\ \A j, k \in 1 .. Cardinality(S) : InOrder(S)[j] = InOrder(S)[k] => j = k
         /\ \A x \in S : \E k \in 1 .. Cardinality(S) : InOrder(S)[k] = x
<1> DEFINE n == Cardinality(S)
           seq == InOrder(S)
<1>1. n \in Nat BY Ranks
<1>2. seq \in [1 .. n -> S] /\ \A j, k \in 1 .. n : j < k => seq[j] < seq[k]
  <2>1. \E s \in [1 .. n -> S] : \A j, k \in DOMAIN s : j < k => s[j] < s[k] BY Ranks
  <2>2. seq \in [1 .. n -> S] /\ \A j, k \in DOMAIN seq : j < k => seq[j] < seq[k]
    BY <2>1 DEF InOrder
  <2> QED BY <2>2
<1> HIDE DEF seq
<1>3. ASSUME NEW j \in 1 .. n, NEW k \in 1 .. n, seq[j] = seq[k] PROVE j = k
  <2>1. seq[j] \in Int /\ seq[k] \in Int BY <1>2
  <2>2. ~(seq[j] < seq[k]) /\ ~(seq[k] < seq[j]) BY <1>3, <2>1
  <2>3. ~(j < k) /\ ~(k < j) BY <1>2, <2>2
  <2> QED BY <2>3
<1>4. seq \in Injection(1 .. n, S) BY <1>2, <1>3, Fun_IsInj
<1>5. IsFiniteSet(1 .. n) /\ Cardinality(1 .. n) = n BY <1>1, FS_Interval
<1>6. seq \in Surjection(1 .. n, S) BY <1>4, <1>5, FS_Injection
<1>7. \A x \in S : \E k \in 1 .. n : seq[k] = x BY <1>6 DEF Surjection
<1> QED BY <1>1, <1>2, <1>3, <1>7 DEF seq

\* the first and the last free place are free places
LEMMA EndsAreMembers ==
  ASSUME NEW S \in SUBSET Int, IsFiniteSet(S), S # {}
  PROVE  Min(S) \in S /\ Max(S) \in S
<1> DEFINE n == Cardinality(S)
           seq == InOrder(S)
<1>1. n \in Nat \ {0} BY InOrderHasAll, FS_EmptySet
<1>2. seq[1] \in S /\ seq[n] \in S BY <1>1, InOrderHasAll
<1>3. ASSUME NEW x \in S PROVE seq[1] <= x /\ x <= seq[n]
  <2>1. PICK k \in 1 .. n : seq[k] = x BY InOrderHasAll
  <2>2. k = 1 \/ seq[1] < seq[k] BY <1>1, InOrderHasAll
  <2>3. k = n \/ seq[k] < seq[n] BY <1>1, InOrderHasAll
  <2>4. seq[1] \in Int /\ seq[n] \in Int BY <1>2
  <2> HIDE DEF n, seq
  <2> QED BY <2>1, <2>2, <2>3, <2>4
<1> HIDE DEF seq, n
<1>4. \E x \in S : \A y \in S : x =< y BY <1>2, <1>3
<1>5. \E x \in S : \A y \in S : x >= y
  <2>1. \A y \in S : seq[n] >= y BY <1>2, <1>3
  <2> QED BY <1>2, <2>1
<1> QED BY <1>4, <1>5 DEF Min, Max

-----------------------------------------------------------------------------
(* The rules and the packets.                                              *)

LEMMA NewGameIsGame == NewGame \in Game /\ ~NewGame.is_over /\ NewGame.next_player = "X"
BY DEF NewGame, Game, Field, Player, Winner

\* a move leaves a game, and hands the turn over
LEMMA MoveIsGame ==
  ASSUME NEW game \in Game, NEW pos \in Positions
  PROVE  /\ game_move(game, pos) \in Game
         /\ game_move(game, pos).next_player = Opponent(game.next_player)
<1> DEFINE next == [game EXCEPT !.board[pos] = game.next_player,
                                !.next_player = Opponent(game.next_player)]
<1>1. next \in Game /\ next.next_player = Opponent(game.next_player)
  BY DEF Game, Player, Field, Opponent
<1> HIDE DEF next
<1>2. Owners(next.board) \subseteq Player BY DEF Owners
<1>3. update_game_winner(next) \in Game /\ update_game_winner(next).next_player = next.next_player
  <2> DEFINE winner == CHOOSE player \in Owners(next.board) : TRUE
  <2>1. Owners(next.board) # {} => winner \in Player BY <1>2
  <2> HIDE DEF winner
  <2>2. CASE Full(next.board) BY <1>1, <2>2 DEF update_game_winner, Game, Winner
  <2>3. CASE ~Full(next.board) /\ Owners(next.board) # {}
    <3>1. update_game_winner(next) = [next EXCEPT !.winner = winner, !.is_over = TRUE]
      BY <2>3 DEF update_game_winner, winner
    <3> QED BY <1>1, <2>1, <2>3, <3>1 DEF Game, Winner
  <2>4. CASE ~Full(next.board) /\ Owners(next.board) = {} BY <1>1, <2>4 DEF update_game_winner
  <2> QED BY <2>2, <2>3, <2>4
<1> QED BY <1>1, <1>3 DEF game_move, next

Sends(peers) == Seq([to : peers, packet : Packets])

\* those of the packets that ask c for a move
Asking(c, sends) == {m \in DOMAIN sends : sends[m].to = c /\ AsksForMove(sends[m].packet)}

\* What a client is sent is what is addressed to it, and asks it for a move no more often.
LEMMA SentToIs ==
  ASSUME NEW peers, NEW sends \in Sends(peers), NEW c
  PROVE  /\ SentTo(c, sends) \in Seq(Packets)
         /\ \A j \in DOMAIN SentTo(c, sends) :
              \E m \in DOMAIN sends : sends[m].to = c /\ SentTo(c, sends)[j] = sends[m].packet
         /\ (\A l, m \in Asking(c, sends) : l = m) =>
              \A j, k \in DOMAIN SentTo(c, sends) :
                AsksForMove(SentTo(c, sends)[j]) /\ AsksForMove(SentTo(c, sends)[k]) => j = k
<1> DEFINE S == {k \in DOMAIN sends : sends[k].to = c}
           n == Cardinality(S)
           mine == InOrder(S)
           sent == SentTo(c, sends)
<1>1. DOMAIN sends = 1 .. Len(sends) /\ Len(sends) \in Nat BY DEF Sends
<1>2. S \subseteq 1 .. Len(sends) /\ IsFiniteSet(S)
  <2>1. IsFiniteSet(1 .. Len(sends)) BY <1>1, FS_Interval
  <2>2. S \subseteq 1 .. Len(sends) BY <1>1
  <2> QED BY <2>1, <2>2, FS_Subset
<1>3. S \in SUBSET Int BY <1>1, <1>2
<1>4. \A k \in S : k \in DOMAIN sends /\ sends[k].to = c /\ sends[k].packet \in Packets
  <2>1. \A k \in DOMAIN sends : sends[k] \in [to : peers, packet : Packets] BY <1>1, ElementOfSeq DEF Sends
  <2> QED BY <2>1
<1> HIDE DEF S
<1>5. /\ n \in Nat /\ mine \in [1 .. n -> S]
      /\ \A j, k \in 1 .. n : mine[j] = mine[k] => j = k
  BY <1>2, <1>3, InOrderHasAll
<1>6. sent = [j \in DOMAIN mine |-> sends[mine[j]].packet] BY DEF SentTo, S
<1> HIDE DEF n, mine, sent
<1>7. sent = [j \in 1 .. n |-> sends[mine[j]].packet] BY <1>5, <1>6
<1>8. \A j \in 1 .. n : mine[j] \in S BY <1>5
<1>9. sent \in Seq(Packets) /\ DOMAIN sent = 1 .. n BY <1>4, <1>5, <1>7, <1>8
<1>10. \A j \in DOMAIN sent : \E m \in DOMAIN sends : sends[m].to = c /\ sent[j] = sends[m].packet
  BY <1>4, <1>7, <1>8, <1>9
<1>11. ASSUME \A l, m \in Asking(c, sends) : l = m,
              NEW j \in 1 .. n, NEW k \in 1 .. n, AsksForMove(sent[j]), AsksForMove(sent[k])
       PROVE  j = k
  <2>1. mine[j] \in Asking(c, sends) /\ mine[k] \in Asking(c, sends)
    BY <1>4, <1>7, <1>8, <1>11 DEF Asking
  <2> QED BY <1>5, <1>11, <2>1
<1> QED BY <1>9, <1>10, <1>11 DEF sent

\* What was on its way to a client stays, and what is sent to it comes after.
LEMMA Arrivals ==
  ASSUME Mail, NEW sends \in Sends(Clients), NEW c \in Clients
  PROVE  LET old == toClient[c]
             all == Delivered(sends)[c]
         IN  /\ all \in Seq(Packets)
             /\ (\A m \in DOMAIN sends : sends[m].to # c) => all = old
             /\ \A k \in DOMAIN all : AsksForMove(all[k]) =>
                  \/ k \in DOMAIN old /\ all[k] = old[k]
                  \/ \E m \in Asking(c, sends) : all[k] = sends[m].packet
             /\ (\A l, m \in Asking(c, sends) : l = m) /\ Asked(c) = {} =>
                  \A j, k \in DOMAIN all : AsksForMove(all[j]) /\ AsksForMove(all[k]) => j = k
<1> DEFINE old == toClient[c]
           new == SentTo(c, sends)
           all == Delivered(sends)[c]
<1>1. old \in Seq(Packets) BY DEF Mail
<1>2. new \in Seq(Packets) BY SentToIs
<1>3. \A j \in DOMAIN new : \E m \in DOMAIN sends : sends[m].to = c /\ new[j] = sends[m].packet
  BY SentToIs
<1>4. (\A l, m \in Asking(c, sends) : l = m) =>
        \A j, k \in DOMAIN new : AsksForMove(new[j]) /\ AsksForMove(new[k]) => j = k
  BY SentToIs
<1>5. all = old \/ all = old \o new BY DEF Delivered
<1>6. Asked(c) = {} => \A k \in DOMAIN old : ~AsksForMove(old[k]) BY DEF Asked
<1> HIDE DEF old, new, all
<1>7. CASE all = old BY <1>1, <1>6, <1>7 DEF all, old
<1>8. CASE all = old \o new
  <2>1. /\ all \in Seq(Packets) /\ Len(all) = Len(old) + Len(new)
        /\ Len(old) \in Nat /\ Len(new) \in Nat
        /\ DOMAIN old = 1 .. Len(old) /\ DOMAIN new = 1 .. Len(new) /\ DOMAIN all = 1 .. Len(all)
        /\ \A k \in 1 .. Len(all) : all[k] = IF k <= Len(old) THEN old[k] ELSE new[k - Len(old)]
    BY <1>1, <1>2, <1>8
  <2>2. (\A m \in DOMAIN sends : sends[m].to # c) => all = old
    <3> SUFFICES ASSUME \A m \in DOMAIN sends : sends[m].to # c PROVE all = old OBVIOUS
    <3>1. DOMAIN new = {} BY <1>3
    <3>2. new = <<>> BY <1>2, <3>1
    <3> QED BY <1>1, <1>8, <3>2
  <2>3. ASSUME NEW k \in DOMAIN all
        PROVE  \/ k \in DOMAIN old /\ all[k] = old[k]
               \/ k > Len(old) /\ k - Len(old) \in DOMAIN new /\ all[k] = new[k - Len(old)]
    BY <2>1
  <2>4. ASSUME NEW k \in DOMAIN all, AsksForMove(all[k])
        PROVE  \/ k \in DOMAIN old /\ all[k] = old[k]
               \/ \E m \in Asking(c, sends) : all[k] = sends[m].packet
    BY <1>3, <2>3, <2>4 DEF Asking
  <2>5. ASSUME \A l, m \in Asking(c, sends) : l = m, Asked(c) = {},
               NEW j \in DOMAIN all, NEW k \in DOMAIN all, AsksForMove(all[j]), AsksForMove(all[k])
        PROVE  j = k
    <3>1. j - Len(old) \in DOMAIN new /\ all[j] = new[j - Len(old)] BY <1>6, <2>3, <2>5
    <3>2. k - Len(old) \in DOMAIN new /\ all[k] = new[k - Len(old)] BY <1>6, <2>3, <2>5
    <3>3. j - Len(old) = k - Len(old) BY <1>4, <2>5, <3>1, <3>2
    <3> QED BY <2>1, <3>3
  <2> QED BY <2>1, <2>2, <2>4, <2>5 DEF all, old
<1> QED BY <1>5, <1>7, <1>8
-----------------------------------------------------------------------------
(* The tables.                                                             *)

ConnRecs(peers) ==
  [active : BOOLEAN, sock : peers \cup {Nobody}, error : BOOLEAN, alive : BOOLEAN]
PlayerRecs ==
  [active : BOOLEAN, con : Conns \cup {-1}, name : STRING \cup {Nobody}, session : Sessions \cup {-1}]
SessionRecs ==
  [active : BOOLEAN, p1 : Players \cup {-1}, p2 : Players \cup {-1}, game : Game]

Typed(peers, cs, ps, ss) ==
  cs \in [Conns -> ConnRecs(peers)] /\ ps \in [Players -> PlayerRecs] /\ ss \in [Sessions -> SessionRecs]

\* Players and sessions of any tables: SeatsAgree, and a player has had a connection.
Seated(ps, ss) ==
  /\ \A p \in Active(ps) :
       /\ ps[p].con \in Conns
       /\ ps[p].session # -1 =>
            ps[p].session \in Active(ss) /\ p \in {ss[ps[p].session].p1, ss[ps[p].session].p2}
       /\ \A q \in Active(ps) \ {p} : ps[p].name # ps[q].name
  /\ \A s \in Active(ss) :
       /\ ss[s].p1 # ss[s].p2
       /\ \A p \in {ss[s].p1, ss[s].p2} : p \in Active(ps) /\ ps[p].session = s

\* Connections and players of any tables: a player has an open connection, and the name of
\* whoever is at its other end.
Placed(cs, ps, names) ==
  \A p \in Active(ps) : ps[p].con \in Active(cs) /\ ps[p].name = names[cs[ps[p].con].sock]

\* TablesAgree of any tables
Agree(cs, ps, ss) ==
  /\ \A p \in Active(ps) :
       /\ ps[p].con \in Active(cs) /\ ps[p].name = NameOf[cs[ps[p].con].sock]
       /\ ps[p].session # -1 =>
            ps[p].session \in Active(ss) /\ p \in {ss[ps[p].session].p1, ss[ps[p].session].p2}
       /\ \A q \in Active(ps) \ {p} : ps[p].name # ps[q].name /\ ps[p].con # ps[q].con
  /\ \A s \in Active(ss) :
       /\ ss[s].p1 # ss[s].p2
       /\ \A p \in {ss[s].p1, ss[s].p2} : p \in Active(ps) /\ ps[p].session = s

\* with one name at a connection, no two players have the same one
LEMMA AgreeIs ==
  ASSUME NEW peers, NEW cs, NEW ps, NEW ss, Typed(peers, cs, ps, ss)
  PROVE  Agree(cs, ps, ss) <=> Seated(ps, ss) /\ Placed(cs, ps, NameOf)
<1>1. Active(cs) \subseteq Conns BY DEF Typed, Active
<1>2. Agree(cs, ps, ss) => Seated(ps, ss) /\ Placed(cs, ps, NameOf)
  BY <1>1 DEF Agree, Seated, Placed
<1>3. ASSUME Seated(ps, ss), Placed(cs, ps, NameOf) PROVE Agree(cs, ps, ss)
  <2>1. ASSUME NEW p \in Active(ps), NEW q \in Active(ps) \ {p} PROVE ps[p].con # ps[q].con
    <3>1. ps[p].name # ps[q].name BY <1>3, <2>1 DEF Seated
    <3>2. ps[p].name = NameOf[cs[ps[p].con].sock] /\ ps[q].name = NameOf[cs[ps[q].con].sock]
      BY <1>3, <2>1 DEF Placed
    <3> QED BY <3>1, <3>2
  <2>2. \A p \in Active(ps) :
          /\ ps[p].con \in Active(cs) /\ ps[p].name = NameOf[cs[ps[p].con].sock]
          /\ ps[p].session # -1 =>
               ps[p].session \in Active(ss) /\ p \in {ss[ps[p].session].p1, ss[ps[p].session].p2}
          /\ \A q \in Active(ps) \ {p} : ps[p].name # ps[q].name /\ ps[p].con # ps[q].con
    BY <1>3, <2>1 DEF Seated, Placed
  <2> QED BY <1>3, <2>2 DEF Seated, Agree
<1> QED BY <1>2, <1>3

LEMMA TablesAre ==
  /\ \A peers : TablesTypeOK(peers) <=> Typed(peers, conns, players, sessions)
  /\ TablesAgree <=> Agree(conns, players, sessions)
<1>1. \A peers : TablesTypeOK(peers) <=> Typed(peers, conns, players, sessions)
  BY DEF TablesTypeOK, Typed, ConnRecs, PlayerRecs, SessionRecs
<1>2. TablesAgree <=> Agree(conns, players, sessions)
  BY DEF TablesAgree, SeatsAgree, PlacesAgree, Agree, Seats, ClientOf
<1> QED BY <1>1, <1>2

LEMMA NothingIsTyped ==
  /\ \A peers : Typed(peers, NoConns, NoPlayers, NoSessions)
  /\ Agree(NoConns, NoPlayers, NoSessions) /\ Seated(NoPlayers, NoSessions)
  /\ Active(NoConns) = {} /\ Active(NoPlayers) = {}
<1>1. /\ \A peers : NoConn \in ConnRecs(peers)
      /\ NoPlayer \in PlayerRecs /\ NoSession \in SessionRecs
  BY NewGameIsGame DEF NoConn, NoPlayer, NoSession, ConnRecs, PlayerRecs, SessionRecs
<1>2. \A peers : Typed(peers, NoConns, NoPlayers, NoSessions)
  BY <1>1 DEF Typed, NoConns, NoPlayers, NoSessions
<1>3. Active(NoConns) = {} /\ Active(NoPlayers) = {} /\ Active(NoSessions) = {}
  BY DEF Active, NoConns, NoPlayers, NoSessions, NoConn, NoPlayer, NoSession
<1> QED BY <1>2, <1>3 DEF Agree, Seated

\* The cleanup keeps what it keeps as it was, and keeps with a connection its players.
LEMMA CleanedAgrees ==
  ASSUME NEW peers, Typed(peers, conns, players, sessions), Seated(players, sessions)
  PROVE  LET clean == Cleaned IN
         /\ Typed(peers, clean.conns, clean.players, clean.sessions)
         /\ Seated(clean.players, clean.sessions)
         /\ \A names :
              Placed(conns, players, names) => Placed(clean.conns, clean.players, names)
         /\ \A i \in Active(clean.conns) : i \in Active(conns) /\ clean.conns[i] = conns[i]
         /\ \A p \in Active(clean.players) : p \in Active(players) /\ clean.players[p] = players[p]
         /\ \A s \in Active(clean.sessions) : s \in Active(sessions) /\ clean.sessions[s] = sessions[s]
         /\ \A p \in Active(players) :
              players[p].con \in Active(clean.conns) => p \in Active(clean.players)
<1> DEFINE open == {i \in Active(conns) : ~conns[i].error}
           seated == {p \in Active(players) : players[p].con \in open}
           ended == {s \in Active(sessions) : {sessions[s].p1, sessions[s].p2} \ seated # {}}
           thrownOut == {p \in seated : players[p].session \in ended}
           kept == open \ {players[p].con : p \in thrownOut}
           cs == [i \in Conns |-> IF i \in kept THEN conns[i] ELSE NoConn]
           ps == [p \in Players |-> IF p \in seated \ thrownOut THEN players[p] ELSE NoPlayer]
           ss == [s \in Sessions |-> IF s \in ended THEN NoSession ELSE sessions[s]]
<1>1. Cleaned.conns = cs /\ Cleaned.players = ps /\ Cleaned.sessions = ss
  BY DEF Cleaned, ConnectionsOf
<1>2. NoConn \in ConnRecs(peers) /\ NoPlayer \in PlayerRecs /\ NoSession \in SessionRecs
  BY NewGameIsGame DEF NoConn, NoPlayer, NoSession, ConnRecs, PlayerRecs, SessionRecs
<1>3. /\ DOMAIN conns = Conns /\ DOMAIN players = Players /\ DOMAIN sessions = Sessions
      /\ Active(conns) \subseteq Conns /\ Active(players) \subseteq Players
      /\ Active(sessions) \subseteq Sessions
  BY DEF Typed, Active
<1>4. Typed(peers, cs, ps, ss) BY <1>2 DEF Typed
<1>5. ~NoConn.active /\ ~NoPlayer.active /\ ~NoSession.active BY DEF NoConn, NoPlayer, NoSession
<1>6. Active(cs) = kept /\ \A i \in kept : cs[i] = conns[i]
  <2>1. kept \subseteq Active(conns) BY ZenonT(40)
  <2> HIDE DEF kept
  <2> QED BY <1>3, <1>5, <2>1 DEF Active
<1>7. Active(ps) = seated \ thrownOut /\ \A p \in Active(ps) : ps[p] = players[p]
  <2> DEFINE stay == seated \ thrownOut
  <2>1. stay \subseteq Active(players) OBVIOUS
  <2> HIDE DEF stay
  <2> QED BY <1>3, <1>5, <2>1 DEF Active, stay
<1>8. Active(ss) = Active(sessions) \ ended /\ \A s \in Active(ss) : ss[s] = sessions[s]
  <2>1. ended \subseteq Active(sessions) OBVIOUS
  <2> HIDE DEF ended
  <2> QED BY <1>3, <1>5, <2>1 DEF Active
<1> HIDE DEF cs, ps, ss
<1>9. ASSUME NEW p \in Active(players), players[p].con \in kept PROVE p \in Active(ps)
  BY <1>7, <1>9
<1>10. ASSUME NEW p \in Active(ps)
       PROVE  /\ ps[p].con \in Conns
              /\ ps[p].session # -1 =>
                   ps[p].session \in Active(ss) /\ p \in {ss[ps[p].session].p1, ss[ps[p].session].p2}
              /\ \A q \in Active(ps) \ {p} : ps[p].name # ps[q].name
  <2>1. p \in Active(players) /\ p \in seated /\ p \notin thrownOut /\ ps[p] = players[p] BY <1>7
  <2>2. players[p].con \in Conns /\ \A q \in Active(players) \ {p} : players[p].name # players[q].name
    BY <2>1 DEF Seated
  <2>3. players[p].session # -1 =>
          players[p].session \in Active(ss) /\ ss[players[p].session] = sessions[players[p].session]
          /\ p \in {sessions[players[p].session].p1, sessions[players[p].session].p2}
    BY <1>8, <2>1 DEF Seated
  <2>4. \A q \in Active(ps) \ {p} : q \in Active(players) \ {p} /\ ps[q] = players[q] BY <1>7
  <2> HIDE DEF kept
  <2> QED BY <2>1, <2>2, <2>3, <2>4
<1>11. ASSUME NEW s \in Active(ss)
       PROVE  /\ ss[s].p1 # ss[s].p2
              /\ \A p \in {ss[s].p1, ss[s].p2} : p \in Active(ps) /\ ps[p].session = s
  <2>1. s \in Active(sessions) /\ s \notin ended /\ ss[s] = sessions[s] BY <1>8
  <2>2. /\ sessions[s].p1 # sessions[s].p2
        /\ \A p \in {sessions[s].p1, sessions[s].p2} : p \in Active(players) /\ players[p].session = s
    BY <2>1 DEF Seated
  <2>3. \A p \in {sessions[s].p1, sessions[s].p2} : p \in seated BY <2>1
  <2> QED BY <1>7, <2>1, <2>2, <2>3
<1>12. Seated(ps, ss) BY <1>10, <1>11 DEF Seated
<1>13. /\ \A i \in Active(cs) : i \in Active(conns) /\ cs[i] = conns[i]
       /\ \A p \in Active(ps) : p \in Active(players) /\ ps[p] = players[p]
       /\ \A s \in Active(ss) : s \in Active(sessions) /\ ss[s] = sessions[s]
  BY <1>6, <1>7, <1>8
<1>14. \A p \in Active(players) : players[p].con \in Active(cs) => p \in Active(ps)
  BY <1>6, <1>9
<1>15. ASSUME NEW names, Placed(conns, players, names) PROVE Placed(cs, ps, names)
  <2> SUFFICES ASSUME NEW p \in Active(ps)
               PROVE  ps[p].con \in Active(cs) /\ ps[p].name = names[cs[ps[p].con].sock]
    BY DEF Placed
  <2>1. p \in Active(players) /\ p \in seated /\ p \notin thrownOut /\ ps[p] = players[p] BY <1>7
  <2>2. players[p].con \in kept
    <3>1. ASSUME NEW q \in thrownOut PROVE players[q].con # players[p].con
      <4>1. q \in Active(players) \ {p} BY <2>1
      <4>2. players[p].name # players[q].name BY <2>1, <4>1 DEF Seated
      <4>3. players[p].name = names[conns[players[p].con].sock] BY <1>15, <2>1 DEF Placed
      <4>4. players[q].name = names[conns[players[q].con].sock] BY <1>15, <4>1 DEF Placed
      <4> HIDE DEF thrownOut
      <4> QED BY <4>2, <4>3, <4>4
    <3>2. players[p].con \in open BY <2>1
    <3> HIDE DEF thrownOut, open
    <3> QED BY <3>1, <3>2
  <2>3. players[p].name = names[conns[players[p].con].sock] BY <1>15, <2>1 DEF Placed
  <2> HIDE DEF kept
  <2> QED BY <1>6, <2>1, <2>2, <2>3
<1> QED BY <1>1, <1>4, <1>12, <1>13, <1>14, <1>15

Alone(ps) == {p \in Active(ps) : ps[p].session = -1}

\* The pairs are of players without a session, each in one place of one pair, and leave
\* one of them at most.
LEMMA PairsAre ==
  ASSUME NEW ps \in [Players -> PlayerRecs]
  PROVE  \E m \in Nat :
         /\ DOMAIN Pairs(ps) = 1 .. m
         /\ \A k \in 1 .. m : \A a \in {1, 2} : Pairs(ps)[k][a] \in Alone(ps)
         /\ \A j, k \in 1 .. m : \A a, b \in {1, 2} : Pairs(ps)[j][a] = Pairs(ps)[k][b] => j = k /\ a = b
         /\ \E q : \A p \in Alone(ps) : p = q \/ \E k \in 1 .. m : \E a \in {1, 2} : Pairs(ps)[k][a] = p
<1> DEFINE S == Alone(ps)
           n == Cardinality(S)
           alone == InOrder(S)
           m == n \div 2
           pairs == [k \in 1 .. m |-> <<alone[2 * k - 1], alone[2 * k]>>]
<1>1. S \in SUBSET Int /\ IsFiniteSet(S)
  <2>1. S \subseteq Players BY DEF Alone, Active
  <2>2. Players \subseteq Int /\ IsFiniteSet(Players)
    BY SizesAssumption, FS_Interval DEF Players
  <2> QED BY <2>1, <2>2, FS_Subset
<1> HIDE DEF S
<1>2. /\ n \in Nat /\ alone \in [1 .. n -> S]
      /\ \A j, k \in 1 .. n : alone[j] = alone[k] => j = k
      /\ \A p \in S : \E k \in 1 .. n : alone[k] = p
  BY <1>1, InOrderHasAll
<1>3. Pairs(ps) = [k \in 1 .. Len(alone) \div 2 |-> <<alone[2 * k - 1], alone[2 * k]>>]
  BY DEF Pairs, S, Alone
<1> HIDE DEF n, alone
<1>4. Len(alone) = n BY <1>2
<1>5. Pairs(ps) = pairs BY <1>3, <1>4
<1>6. m \in Nat /\ \A k \in 1 .. m : 2 * k - 1 \in 1 .. n /\ 2 * k \in 1 .. n BY <1>2
<1>7. \A j \in 1 .. n : j = n \/ \E k \in 1 .. m : j = 2 * k - 1 \/ j = 2 * k
  <2> SUFFICES ASSUME NEW j \in 1 .. n, j # n PROVE \E k \in 1 .. m : j = 2 * k - 1 \/ j = 2 * k
    OBVIOUS
  <2>1. (j + 1) \div 2 \in 1 .. m /\ (j = 2 * ((j + 1) \div 2) - 1 \/ j = 2 * ((j + 1) \div 2))
    BY <1>2
  <2> QED BY <2>1
<1>8. \A k \in 1 .. m : pairs[k][1] = alone[2 * k - 1] /\ pairs[k][2] = alone[2 * k] OBVIOUS
<1> HIDE DEF m, pairs
<1>9. \A k \in 1 .. m : pairs[k][1] \in S /\ pairs[k][2] \in S BY <1>2, <1>6, <1>8
<1>10. ASSUME NEW j \in 1 .. m, NEW k \in 1 .. m, NEW a \in {1, 2}, NEW b \in {1, 2}, pairs[j][a] = pairs[k][b]
       PROVE  j = k /\ a = b
  <2>1. CASE a = 1 /\ b = 1
    <3>1. alone[2 * j - 1] = alone[2 * k - 1] BY <1>8, <1>10, <2>1
    <3>2. 2 * j - 1 = 2 * k - 1 BY <1>2, <1>6, <3>1
    <3> QED BY <1>6, <2>1, <3>2
  <2>2. CASE a = 1 /\ b = 2
    <3>1. alone[2 * j - 1] = alone[2 * k] BY <1>8, <1>10, <2>2
    <3>2. 2 * j - 1 = 2 * k BY <1>2, <1>6, <3>1
    <3> QED BY <1>6, <3>2
  <2>3. CASE a = 2 /\ b = 1
    <3>1. alone[2 * j] = alone[2 * k - 1] BY <1>8, <1>10, <2>3
    <3>2. 2 * j = 2 * k - 1 BY <1>2, <1>6, <3>1
    <3> QED BY <1>6, <3>2
  <2>4. CASE a = 2 /\ b = 2
    <3>1. alone[2 * j] = alone[2 * k] BY <1>8, <1>10, <2>4
    <3>2. 2 * j = 2 * k BY <1>2, <1>6, <3>1
    <3> QED BY <1>6, <2>4, <3>2
  <2> QED BY <2>1, <2>2, <2>3, <2>4
<1>11. \A p \in S : p = alone[n] \/ \E k \in 1 .. m : \E a \in {1, 2} : pairs[k][a] = p
  <2> TAKE p \in S
  <2>1. PICK j \in 1 .. n : alone[j] = p BY <1>2
  <2>2. CASE j = n BY <2>1, <2>2
  <2>3. CASE \E k \in 1 .. m : j = 2 * k - 1 \/ j = 2 * k
    <3>1. PICK k \in 1 .. m : j = 2 * k - 1 \/ j = 2 * k BY <2>3
    <3>2. pairs[k][1] = p \/ pairs[k][2] = p BY <1>8, <2>1, <3>1
    <3> QED BY <3>2
  <2> QED BY <1>7, <2>2, <2>3
<1>12. S = Alone(ps) BY DEF S
<1>13. DOMAIN Pairs(ps) = 1 .. m BY <1>5 DEF pairs
<1>14. \A k \in 1 .. m : \A a \in {1, 2} : Pairs(ps)[k][a] \in Alone(ps) BY <1>5, <1>9, <1>12
<1>15. \A j, k \in 1 .. m : \A a, b \in {1, 2} : Pairs(ps)[j][a] = Pairs(ps)[k][b] => j = k /\ a = b
  BY <1>5, <1>10
<1>16. \A p \in Alone(ps) :
         p = alone[n] \/ \E k \in 1 .. m : \E a \in {1, 2} : Pairs(ps)[k][a] = p
  BY <1>5, <1>11, <1>12
<1>17. m \in Nat BY <1>6
<1> USE <1>17
<1> WITNESS m \in Nat
<1> QED BY <1>13, <1>14, <1>15, <1>16

\* a new session, and what is sent about it
SessionOfTwo(p, q) == [active |-> TRUE, p1 |-> p, p2 |-> q, game |-> NewGame]

\* what is at the other end of a player's connection
SockIn(clean, p) == clean.conns[clean.players[p].con].sock

\* The pairing seats players without a session, at sessions not in use, and tells nobody
\* else; of the two it asks the first for a move.
Pairing(peers, clean, paired) ==
  /\ Typed(peers, clean.conns, paired.players, paired.sessions)
  /\ Seated(paired.players, paired.sessions)
  /\ Active(paired.players) = Active(clean.players)
  /\ \A p \in Active(clean.players) :
       /\ paired.players[p].con = clean.players[p].con
       /\ paired.players[p].name = clean.players[p].name
       /\ clean.players[p].session # -1 => paired.players[p] = clean.players[p]
  /\ \A s \in Active(clean.sessions) :
       s \in Active(paired.sessions) /\ paired.sessions[s] = clean.sessions[s]
  /\ paired.ok => \E q : Alone(paired.players) \subseteq {q}
  /\ \E r \in Nat : DOMAIN paired.sends = 1 .. r
  /\ \A n \in DOMAIN paired.sends :
       /\ \E p \in Alone(clean.players), player \in Player :
            paired.sends[n] = To(SockIn(clean, p), GamePacket(player, NewGame))
       /\ AsksForMove(paired.sends[n].packet) => \E p \in Alone(clean.players) :
            /\ paired.sends[n].to = SockIn(clean, p) /\ paired.sends[n].packet.game = NewGame
            /\ paired.players[p].session \in Active(paired.sessions)
            /\ paired.sessions[paired.players[p].session].p1 = p
            /\ paired.sessions[paired.players[p].session].game = NewGame
  /\ (\A p, q \in Active(clean.players) : SockIn(clean, p) = SockIn(clean, q) => p = q) =>
       \A l, n \in DOMAIN paired.sends :
         AsksForMove(paired.sends[l].packet) /\ AsksForMove(paired.sends[n].packet)
           /\ paired.sends[l].to = paired.sends[n].to => l = n

LEMMA PairedAgrees ==
  ASSUME NEW peers, NEW clean, NEW paired, paired = Paired(clean),
         Typed(peers, clean.conns, clean.players, clean.sessions),
         Seated(clean.players, clean.sessions)
  PROVE  Pairing(peers, clean, paired)
<1> DEFINE cs == clean.conns
           ps == clean.players
           ss == clean.sessions
           pairs == Pairs(ps)
           unused == Sessions \ Active(ss)
           free == InOrder(unused)
           nf == Cardinality(unused)
           seats == {k \in DOMAIN pairs : k <= Len(free)}
           Shows(k) == ShowGame(SockIn(clean, pairs[k][1]), SockIn(clean, pairs[k][2]), NewGame)
           SessionOf(p) == {k \in seats : p \in {pairs[k][1], pairs[k][2]}}
           np == [p \in Players |->
                    IF SessionOf(p) = {} THEN ps[p]
                    ELSE [ps[p] EXCEPT !.session = free[CHOOSE k \in SessionOf(p) : TRUE]]]
           ns == [s \in Sessions |->
                    IF \E k \in seats : free[k] = s
                    THEN LET k == CHOOSE j \in seats : free[j] = s
                         IN  SessionOfTwo(pairs[k][1], pairs[k][2])
                    ELSE ss[s]]
           sends == [n \in 1 .. 2 * Cardinality(seats) |->
                       Shows((n + 1) \div 2)[IF n % 2 = 1 THEN 1 ELSE 2]]
           ok == seats = DOMAIN pairs
<1>1. /\ paired.players = np /\ paired.sessions = ns
      /\ paired.sends = sends /\ paired.ok = ok
  BY DEF Paired, SessionOfTwo, SockIn
<1>2. /\ cs \in [Conns -> ConnRecs(peers)] /\ ps \in [Players -> PlayerRecs]
      /\ ss \in [Sessions -> SessionRecs] /\ Seated(ps, ss)
  BY DEF Typed
<1> HIDE DEF cs, ps, ss, ok
<1>3. PICK m \in Nat :
        /\ DOMAIN pairs = 1 .. m
        /\ \A k \in 1 .. m : \A a \in {1, 2} : pairs[k][a] \in Alone(ps)
        /\ \A j, k \in 1 .. m : \A a, b \in {1, 2} : pairs[j][a] = pairs[k][b] => j = k /\ a = b
        /\ \E q : \A p \in Alone(ps) : p = q \/ \E k \in 1 .. m : \E a \in {1, 2} : pairs[k][a] = p
  BY <1>2, PairsAre
<1>4. unused \in SUBSET Int /\ IsFiniteSet(unused)
  <2>1. Sessions \subseteq Int /\ IsFiniteSet(Sessions)
    BY SizesAssumption, FS_Interval DEF Sessions
  <2>2. unused \subseteq Sessions OBVIOUS
  <2> HIDE DEF unused
  <2> QED BY <2>1, <2>2, FS_Subset
<1>5. /\ nf \in Nat /\ free \in [1 .. nf -> unused]
      /\ \A j, k \in 1 .. nf : free[j] = free[k] => j = k
  <2> HIDE DEF unused
  <2> QED BY <1>4, InOrderHasAll
<1> HIDE DEF pairs, free, nf
<1>6. PICK r \in Nat : seats = 1 .. r /\ r <= m /\ r <= nf
  <2>1. Len(free) = nf BY <1>5
  <2>2. m <= nf => seats = 1 .. m BY <1>3, <1>5, <2>1
  <2>3. nf <= m => seats = 1 .. nf BY <1>3, <1>5, <2>1
  <2> HIDE DEF seats
  <2> QED BY <1>5, <2>2, <2>3
<1> HIDE DEF seats
<1>7. Cardinality(seats) = r
  <2>1. Cardinality(1 .. r) = r BY FS_Interval
  <2> QED BY <1>6, <2>1
<1>8. \A k \in seats : /\ k \in 1 .. m /\ k \in 1 .. nf
                       /\ free[k] \in Sessions /\ free[k] \notin Active(ss) /\ free[k] # -1
                       /\ pairs[k][1] \in Alone(ps) /\ pairs[k][2] \in Alone(ps)
                       /\ pairs[k][1] # pairs[k][2]
  <2> TAKE k \in seats
  <2>1. k \in 1 .. m /\ k \in 1 .. nf BY <1>5, <1>6
  <2>2. free[k] \in unused BY <1>5, <2>1
  <2>3. -1 \notin Sessions BY SizesAssumption DEF Sessions
  <2>4. pairs[k][1] # pairs[k][2] BY <1>3, <2>1
  <2> QED BY <1>3, <2>1, <2>2, <2>3, <2>4
<1>9. \A j, k \in seats : \A a, b \in {1, 2} : pairs[j][a] = pairs[k][b] => j = k /\ a = b
  BY <1>3, <1>8
<1>10. \A j, k \in seats : free[j] = free[k] => j = k BY <1>5, <1>8
<1>11. /\ Alone(ps) \subseteq Active(ps) /\ Active(ps) \subseteq Players
       /\ \A p \in Alone(ps) : ps[p].session = -1
  BY <1>2 DEF Alone, Active
<1>12. \A k \in seats : \A a \in {1, 2} : np[pairs[k][a]] = [ps[pairs[k][a]] EXCEPT !.session = free[k]]
  <2> TAKE k \in seats
  <2> TAKE a \in {1, 2}
  <2> DEFINE p == pairs[k][a]
  <2>1. p \in Players BY <1>8, <1>11
  <2>2. k \in SessionOf(p) OBVIOUS
  <2>3. \A j \in SessionOf(p) : j = k BY <1>9
  <2>4. (CHOOSE j \in SessionOf(p) : TRUE) = k BY <2>2, <2>3
  <2>5. SessionOf(p) # {} BY <2>2
  <2> HIDE DEF p, SessionOf
  <2> QED BY <2>1, <2>4, <2>5 DEF p
<1>13. \A p \in Players : (\A k \in seats : p # pairs[k][1] /\ p # pairs[k][2]) => np[p] = ps[p]
  <2> TAKE p \in Players
  <2>1. (\A k \in seats : p # pairs[k][1] /\ p # pairs[k][2]) => SessionOf(p) = {} OBVIOUS
  <2> HIDE DEF SessionOf
  <2> QED BY <2>1
<1>14. \A k \in seats : ns[free[k]] = SessionOfTwo(pairs[k][1], pairs[k][2])
  <2> TAKE k \in seats
  <2>1. \A j \in seats : free[j] = free[k] => j = k BY <1>10
  <2>2. (CHOOSE j \in seats : free[j] = free[k]) = k BY <2>1
  <2> QED BY <1>8, <2>2
<1>15. \A s \in Sessions : (\A k \in seats : free[k] # s) => ns[s] = ss[s] OBVIOUS
<1>16. DOMAIN np = Players /\ DOMAIN ns = Sessions OBVIOUS
<1> HIDE DEF np, ns
<1>17. \A p \in Players : \/ \E k \in seats : \E a \in {1, 2} : p = pairs[k][a]
                          \/ np[p] = ps[p] /\ \A k \in seats : p # pairs[k][1] /\ p # pairs[k][2]
  BY <1>13
<1>18. \A s \in Sessions : \/ \E k \in seats : free[k] = s
                           \/ ns[s] = ss[s] /\ \A k \in seats : free[k] # s
  BY <1>15
<1>19. ASSUME NEW k \in seats, NEW a \in {1, 2}
       PROVE  /\ pairs[k][a] \in Active(ps) /\ ps[pairs[k][a]] \in PlayerRecs
              /\ np[pairs[k][a]] \in PlayerRecs
              /\ ps[pairs[k][a]].session = -1 /\ np[pairs[k][a]].session = free[k]
              /\ np[pairs[k][a]].active /\ np[pairs[k][a]].con = ps[pairs[k][a]].con
              /\ np[pairs[k][a]].name = ps[pairs[k][a]].name
  <2> DEFINE p == pairs[k][a]
  <2>1. p \in Alone(ps) BY <1>8
  <2>2. np[p] = [ps[p] EXCEPT !.session = free[k]] BY <1>12
  <2> HIDE DEF p
  <2>3. ps[p] \in PlayerRecs /\ p \in Active(ps) /\ ps[p].session = -1 BY <1>2, <1>11, <2>1
  <2>4. ps[p].active BY <2>3 DEF Active
  <2>5. free[k] \in Sessions BY <1>8
  <2> QED BY <2>2, <2>3, <2>4, <2>5 DEF PlayerRecs, p
<1>20. /\ np \in [Players -> PlayerRecs]
       /\ \A p \in Active(ps) : np[p].con = ps[p].con /\ np[p].name = ps[p].name
       /\ \A p \in Active(ps) : ps[p].session # -1 => np[p] = ps[p]
  <2>1. np = [p \in Players |-> np[p]] BY DEF np
  <2>2. \A p \in Players : np[p] \in PlayerRecs BY <1>2, <1>17, <1>19
  <2> QED BY <1>11, <1>17, <1>19, <2>1, <2>2
<1>21. Active(np) = Active(ps)
  <2>1. \A p \in Players : np[p].active <=> ps[p].active BY <1>17, <1>19 DEF Active
  <2> QED BY <1>2, <1>16, <2>1 DEF Active
<1>22. ASSUME NEW k \in seats
       PROVE  /\ ns[free[k]] \in SessionRecs /\ ns[free[k]].active
              /\ ns[free[k]].p1 = pairs[k][1] /\ ns[free[k]].p2 = pairs[k][2]
              /\ ns[free[k]].game = NewGame
  <2>1. pairs[k][1] \in Players /\ pairs[k][2] \in Players BY <1>8, <1>11
  <2>2. SessionOfTwo(pairs[k][1], pairs[k][2]) \in SessionRecs
    <3> DEFINE p == pairs[k][1]
               q == pairs[k][2]
    <3>1. p \in Players /\ q \in Players BY <2>1
    <3> HIDE DEF p, q
    <3>2. SessionOfTwo(p, q) \in SessionRecs
      BY <3>1, NewGameIsGame DEF SessionOfTwo, SessionRecs
    <3> QED BY <3>2 DEF p, q
  <2>3. ns[free[k]] = SessionOfTwo(pairs[k][1], pairs[k][2]) BY <1>14
  <2> QED BY <2>2, <2>3 DEF SessionOfTwo
<1>23. ns \in [Sessions -> SessionRecs]
  <2>1. ns = [s \in Sessions |-> ns[s]] BY DEF ns
  <2>2. \A s \in Sessions : ns[s] \in SessionRecs BY <1>2, <1>18, <1>22
  <2> QED BY <2>1, <2>2
<1>24. /\ Active(ns) = Active(ss) \cup {free[k] : k \in seats}
       /\ \A s \in Active(ss) : s \in Active(ns) /\ ns[s] = ss[s]
  <2>1. \A s \in Sessions : ns[s].active <=> ss[s].active \/ \E k \in seats : free[k] = s
    BY <1>18, <1>22
  <2>2. \A s \in Active(ss) : s \in Sessions BY <1>2 DEF Active
  <2>3. \A s \in Active(ss) : ns[s] = ss[s] BY <1>8, <1>18, <2>2
  <2>4. Active(ns) = {s \in Sessions : ss[s].active} \cup {free[k] : k \in seats}
    BY <1>8, <1>16, <2>1 DEF Active
  <2>5. Active(ss) = {s \in Sessions : ss[s].active} BY <1>2 DEF Active
  <2> QED BY <2>3, <2>4, <2>5
<1> HIDE DEF SessionOf
<1>25. ASSUME NEW p \in Active(np)
       PROVE  /\ np[p].con \in Conns
              /\ np[p].session # -1 =>
                   np[p].session \in Active(ns) /\ p \in {ns[np[p].session].p1, ns[np[p].session].p2}
              /\ \A q \in Active(np) \ {p} : np[p].name # np[q].name
  <2>1. p \in Active(ps) /\ np[p].con = ps[p].con /\ np[p].name = ps[p].name BY <1>20, <1>21
  <2>2. /\ ps[p].con \in Conns
        /\ ps[p].session # -1 =>
             ps[p].session \in Active(ss) /\ p \in {ss[ps[p].session].p1, ss[ps[p].session].p2}
        /\ \A q \in Active(ps) \ {p} : ps[p].name # ps[q].name
    BY <1>2, <2>1 DEF Seated
  <2>3. \A q \in Active(np) \ {p} : np[p].name # np[q].name
    BY <1>20, <1>21, <2>1, <2>2
  <2>4. ASSUME np[p].session # -1
        PROVE  np[p].session \in Active(ns) /\ p \in {ns[np[p].session].p1, ns[np[p].session].p2}
    <3>1. CASE np[p] = ps[p] BY <1>24, <2>2, <2>4, <3>1
    <3>2. CASE \E k \in seats : \E a \in {1, 2} : p = pairs[k][a]
      <4>1. PICK k \in seats, a \in {1, 2} : p = pairs[k][a] BY <3>2
      <4>2. np[p].session = free[k] /\ free[k] \in Active(ns) BY <1>19, <1>24, <4>1
      <4>3. p \in {pairs[k][1], pairs[k][2]} BY <4>1
      <4> QED BY <1>22, <4>2, <4>3
    <3> QED BY <1>11, <1>17, <2>1, <3>1, <3>2
  <2> QED BY <2>1, <2>2, <2>3, <2>4
<1>26. ASSUME NEW s \in Active(ns)
       PROVE  /\ ns[s].p1 # ns[s].p2
              /\ \A p \in {ns[s].p1, ns[s].p2} : p \in Active(np) /\ np[p].session = s
  <2>1. CASE s \in Active(ss)
    <3>1. /\ ss[s].p1 # ss[s].p2
          /\ \A p \in {ss[s].p1, ss[s].p2} : p \in Active(ps) /\ ps[p].session = s
      BY <1>2, <2>1 DEF Seated
    <3>2. s # -1 BY <1>2, <2>1, SizesAssumption DEF Active, Sessions
    <3> QED BY <1>20, <1>21, <1>24, <2>1, <3>1, <3>2
  <2>2. CASE \E k \in seats : s = free[k]
    <3>1. PICK k \in seats : s = free[k] BY <2>2
    <3>2. \A a \in {1, 2} : pairs[k][a] \in Active(np) /\ np[pairs[k][a]].session = s
      BY <1>19, <1>21, <3>1
    <3> QED BY <1>8, <1>22, <3>1, <3>2
  <2> QED BY <1>24, <2>1, <2>2
<1>27. Typed(peers, cs, np, ns) /\ Seated(np, ns) BY <1>2, <1>20, <1>23, <1>25, <1>26 DEF Typed, Seated
<1>28. ok => \E q : Alone(np) \subseteq {q}
  <2> SUFFICES ASSUME ok PROVE \E q : Alone(np) \subseteq {q} OBVIOUS
  <2>1. seats = 1 .. m BY <1>3 DEF ok
  <2>2. PICK q : \A p \in Alone(ps) : p = q \/ \E k \in 1 .. m : \E a \in {1, 2} : pairs[k][a] = p
    BY <1>3
  <2>3. ASSUME NEW p \in Alone(np) PROVE p = q
    <3>1. p \in Active(ps) /\ np[p].session = -1 BY <1>21 DEF Alone
    <3>2. ~ \E k \in seats : \E a \in {1, 2} : pairs[k][a] = p BY <1>8, <1>19, <3>1
    <3>3. ps[p].session = -1 BY <1>20, <3>1
    <3>4. p \in Alone(ps) BY <3>1, <3>3 DEF Alone
    <3> QED BY <2>1, <2>2, <3>2, <3>4
  <2> QED BY <2>3
<1>29. DOMAIN sends = 1 .. 2 * r BY <1>7
<1>30. ASSUME NEW n \in DOMAIN sends
       PROVE  \E k \in seats : \E a \in {1, 2} :
                /\ n = 2 * k - (2 - a)
                /\ sends[n] = To(SockIn(clean, pairs[k][a]), GamePacket(IF a = 1 THEN "X" ELSE "O", NewGame))
  <2> DEFINE k == (n + 1) \div 2
  <2>1. n \in 1 .. 2 * r BY <1>29
  <2>2. k \in seats BY <1>6, <2>1
  <2>3. sends[n] = Shows(k)[IF n % 2 = 1 THEN 1 ELSE 2] BY <1>29
  <2>4. CASE n % 2 = 1
    <3>1. n = 2 * k - (2 - 1) BY <2>1, <2>4
    <3>2. sends[n] = To(SockIn(clean, pairs[k][1]), GamePacket("X", NewGame)) BY <2>3, <2>4 DEF ShowGame
    <3> QED BY <2>2, <3>1, <3>2
  <2>5. CASE n % 2 # 1
    <3>1. n = 2 * k - (2 - 2) BY <2>1, <2>5
    <3>2. sends[n] = To(SockIn(clean, pairs[k][2]), GamePacket("O", NewGame)) BY <2>3, <2>5 DEF ShowGame
    <3> QED BY <2>2, <3>1, <3>2
  <2> QED BY <2>4, <2>5
<1> HIDE DEF sends
<1>31. AsksForMove(GamePacket("X", NewGame)) /\ ~AsksForMove(GamePacket("O", NewGame))
  BY DEF AsksForMove, GamePacket, NewGame
<1>32. \A c, packet : To(c, packet).to = c /\ To(c, packet).packet = packet BY DEF To
<1>33. ASSUME NEW n \in DOMAIN sends
       PROVE  /\ \E p \in Alone(ps), player \in Player :
                   sends[n] = To(SockIn(clean, p), GamePacket(player, NewGame))
              /\ AsksForMove(sends[n].packet) => \E p \in Alone(ps) :
                   /\ sends[n].to = SockIn(clean, p) /\ sends[n].packet.game = NewGame
                   /\ np[p].session \in Active(ns)
                   /\ ns[np[p].session].p1 = p /\ ns[np[p].session].game = NewGame
  <2>1. PICK k \in seats, a \in {1, 2} :
          sends[n] = To(SockIn(clean, pairs[k][a]), GamePacket(IF a = 1 THEN "X" ELSE "O", NewGame))
    BY <1>30
  <2>2. pairs[k][a] \in Alone(ps) BY <1>8
  <2>3. (IF a = 1 THEN "X" ELSE "O") \in Player BY DEF Player
  <2>4. ASSUME AsksForMove(sends[n].packet)
        PROVE  /\ sends[n].to = SockIn(clean, pairs[k][1]) /\ sends[n].packet.game = NewGame
               /\ np[pairs[k][1]].session \in Active(ns)
               /\ ns[np[pairs[k][1]].session].p1 = pairs[k][1]
               /\ ns[np[pairs[k][1]].session].game = NewGame
    <3>1. a = 1 BY <1>31, <1>32, <2>1, <2>4
    <3>2. sends[n].to = SockIn(clean, pairs[k][1]) /\ sends[n].packet.game = NewGame
      BY <1>32, <2>1, <3>1 DEF GamePacket
    <3>3. np[pairs[k][1]].session = free[k] /\ free[k] \in Active(ns) BY <1>19, <1>24
    <3> QED BY <1>22, <3>2, <3>3
  <2> QED BY <1>8, <2>1, <2>2, <2>3, <2>4
<1>34. ASSUME \A p, q \in Active(ps) : SockIn(clean, p) = SockIn(clean, q) => p = q,
              NEW l \in DOMAIN sends, NEW n \in DOMAIN sends,
              AsksForMove(sends[l].packet), AsksForMove(sends[n].packet), sends[l].to = sends[n].to
       PROVE  l = n
  <2>1. PICK j \in seats, a \in {1, 2} :
          /\ l = 2 * j - (2 - a)
          /\ sends[l] = To(SockIn(clean, pairs[j][a]), GamePacket(IF a = 1 THEN "X" ELSE "O", NewGame))
    BY <1>30
  <2>2. PICK k \in seats, b \in {1, 2} :
          /\ n = 2 * k - (2 - b)
          /\ sends[n] = To(SockIn(clean, pairs[k][b]), GamePacket(IF b = 1 THEN "X" ELSE "O", NewGame))
    BY <1>30
  <2>3. a = 1 /\ b = 1 BY <1>31, <1>32, <1>34, <2>1, <2>2
  <2>4. SockIn(clean, pairs[j][1]) = SockIn(clean, pairs[k][1]) BY <1>32, <1>34, <2>1, <2>2, <2>3
  <2>5. pairs[j][1] \in Active(ps) /\ pairs[k][1] \in Active(ps) BY <1>8, <1>11
  <2>6. pairs[j][1] = pairs[k][1] BY <1>34, <2>4, <2>5
  <2>7. j = k BY <1>9, <2>6
  <2> QED BY <2>1, <2>2, <2>3, <2>7
<1>35. \E x \in Nat : DOMAIN sends = 1 .. x BY <1>29
<1> QED BY <1>1, <1>20, <1>21, <1>24, <1>27, <1>28, <1>33, <1>34, <1>35, SMTT(30) DEF Pairing, cs, ps, ss

-----------------------------------------------------------------------------
(* The token.                                                              *)

\* c has no new form of the token: what is on its way to it, but for the first d packets, was
\* before, and what it wrote, but for the first e
Kept(c, d, e) ==
  /\ \A k \in Asked(c)' : k + d \in Asked(c) /\ toClient'[c][k] = toClient[c][k + d]
  /\ \A k \in Moved(c)' : k + e \in Moved(c) /\ toServer'[c][k] = toServer[c][k + e]
  /\ Prompted(c)' => Prompted(c) /\ view'[c] = view[c]

LEMMA TokenlessStays ==
  ASSUME NEW c, NEW d, NEW e, Kept(c, d, e), Tokenless(c)
  PROVE  Tokenless(c)'
BY DEF Kept, Tokenless

LEMMA TokenlessWillDo == ASSUME NEW i, Tokenless(conns[i].sock) PROVE TokenAt(i)
BY DEF Tokenless, TokenAt, OneToken

LEMMA TokenStays ==
  ASSUME Mail', NEW d \in Nat, NEW e \in Nat, NEW i, NEW c \in Clients,
         conns[i].sock = c, conns'[i].sock = c, TokenAt(i), Kept(c, d, e),
         \A game : MayMove(i, game) => MayMove(i, game)'
  PROVE  TokenAt(i)'
<1>1. c \in Clients /\ conns'[i].sock = c OBVIOUS
<1>2. \A k \in Asked(c)' : k \in Int
  <2>1. toClient'[c] \in Seq(Packets) BY <1>1 DEF Mail
  <2> QED BY <2>1 DEF Asked
<1>3. \A k \in Moved(c)' : k \in Int
  <2>1. toServer'[c] \in Seq(Requests) BY <1>1 DEF Mail
  <2> QED BY <2>1 DEF Moved
<1>4. /\ OneToken(c)
      /\ \A k \in Asked(c) : MayMove(i, toClient[c][k].game)
      /\ Prompted(c) => MayMove(i, view[c])
      /\ \A k \in Moved(c) : \E game \in Game : MayMove(i, game) /\ Legal(game, toServer[c][k].pos)
  BY DEF TokenAt
<1>5. /\ \A k \in Asked(c)' : k + d \in Asked(c) /\ toClient'[c][k] = toClient[c][k + d]
      /\ \A k \in Moved(c)' : k + e \in Moved(c) /\ toServer'[c][k] = toServer[c][k + e]
      /\ Prompted(c)' => Prompted(c) /\ view'[c] = view[c]
  BY DEF Kept
<1>6. ASSUME NEW k \in Asked(c)', NEW l \in Asked(c)' PROVE k = l
  <2>1. k + d = l + d BY <1>4, <1>5 DEF OneToken
  <2>2. k \in Int /\ l \in Int BY <1>2
  <2> QED BY <2>1, <2>2
<1>7. ASSUME NEW k \in Moved(c)', NEW l \in Moved(c)' PROVE k = l
  <2>1. k + e = l + e BY <1>4, <1>5 DEF OneToken
  <2>2. k \in Int /\ l \in Int BY <1>3
  <2> QED BY <2>1, <2>2
<1>8. Asked(c)' # {} => ~Prompted(c)' /\ Moved(c)' = {} BY <1>4, <1>5 DEF OneToken
<1>9. Prompted(c)' => Moved(c)' = {} BY <1>4, <1>5 DEF OneToken
<1>10. OneToken(c)' BY <1>6, <1>7, <1>8, <1>9 DEF OneToken
<1>11. \A k \in Asked(c)' : \E game : game = toClient'[c][k].game /\ MayMove(i, game)'
  BY <1>4, <1>5
<1>12. Prompted(c)' => \E game : game = view'[c] /\ MayMove(i, game)' BY <1>4, <1>5
<1>13. \A k \in Moved(c)' : \E game \in Game : MayMove(i, game)' /\ Legal(game, toServer'[c][k].pos)
  BY <1>4, <1>5
<1> QED BY <1>1, <1>10, <1>11, <1>12, <1>13 DEF TokenAt, MayMove

\* a connection that may not move has no token
LEMMA NotItsTurn ==
  ASSUME NEW i, TokenAt(i), \A game : ~MayMove(i, game)
  PROVE  Tokenless(conns[i].sock)
BY DEF TokenAt, Tokenless

-----------------------------------------------------------------------------
(* Steps that leave the tables alone.                                      *)

\* conns changes in its flags only
SameTables ==
  /\ UNCHANGED <<players, sessions>>
  /\ Active(conns') = Active(conns)
  /\ \A i \in Active(conns) : conns'[i].sock = conns[i].sock

LEMMA SameTablesAgree ==
  ASSUME SameTables
  PROVE  /\ TablesAgree => TablesAgree'
         /\ Unpaired' = Unpaired
         /\ \A i, game : MayMove(i, game)' <=> MayMove(i, game)
<1>1. TablesAgree => TablesAgree'
  <2> SUFFICES ASSUME TablesAgree PROVE TablesAgree' OBVIOUS
  <2>1. Agree(conns, players, sessions) BY DEF TablesAgree, SeatsAgree, PlacesAgree, Agree, Seats, ClientOf
  <2>2. \A p \in Active(players) : players[p].con \in Active(conns) BY <2>1 DEF Agree
  <2>3. Agree(conns', players, sessions) BY <2>1, <2>2 DEF SameTables, Agree
  <2> QED BY <2>3 DEF SameTables, TablesAgree, SeatsAgree, PlacesAgree, Agree, Seats, ClientOf
<1>2. Unpaired' = Unpaired BY DEF SameTables, Unpaired
<1>3. \A i, game : MayMove(i, game)' <=> MayMove(i, game) BY DEF SameTables, MayMove, Mover
<1> QED BY <1>1, <1>2, <1>3

-----------------------------------------------------------------------------
(* The clients.                                                            *)

LEMMA TailIs ==
  ASSUME NEW S, NEW s \in Seq(S), s # <<>>
  PROVE  /\ Tail(s) \in Seq(S) /\ Head(s) \in S /\ Head(s) = s[1] /\ 1 \in DOMAIN s
         /\ \A k \in DOMAIN Tail(s) : k \in Nat /\ k + 1 \in DOMAIN s /\ k + 1 # 1 /\ Tail(s)[k] = s[k + 1]
<1>1. Len(s) \in Nat \ {0} /\ DOMAIN s = 1 .. Len(s)
  <2>1. Len(Tail(s)) \in Nat /\ Len(Tail(s)) = Len(s) - 1
    BY HeadTailProperties, LenProperties
  <2>2. Len(s) \in Nat /\ DOMAIN s = 1 .. Len(s) BY LenProperties
  <2> QED BY <2>1, <2>2
<1>2. Head(s) = s[1] /\ s[1] \in S BY <1>1
<1>3. Tail(s) \in Seq(S) /\ Len(Tail(s)) = Len(s) - 1 /\ DOMAIN Tail(s) = 1 .. Len(s) - 1
  BY <1>1, HeadTailProperties
<1>4. \A k \in 1 .. Len(s) - 1 : Tail(s)[k] = s[k + 1] BY <1>1, HeadTailProperties
<1> QED BY <1>1, <1>2, <1>3, <1>4

LEMMA AppendIs ==
  ASSUME NEW S, NEW s \in Seq(S), NEW x \in S
  PROVE  /\ Append(s, x) \in Seq(S) /\ DOMAIN s \subseteq Nat
         /\ \A k \in DOMAIN Append(s, x) :
              \/ k \in DOMAIN s /\ Append(s, x)[k] = s[k]
              \/ k = Len(s) + 1 /\ Append(s, x)[k] = x
OBVIOUS

Unopened == {"none", "backlog", "leaked"}

\* A step of one client keeps the invariant when it adds no form of the token, or when its
\* connection's is in order after it.
LEMMA ClientKeeps ==
  ASSUME IInv, TypeOK', Mail', UNCHANGED <<spc, managed, todo, adding>>,
         NEW c \in Clients, NEW d \in Nat, NEW e \in Nat,
         \A x \in Clients \ {c} :
           /\ toClient'[x] = toClient[x] /\ toServer'[x] = toServer[x]
           /\ link'[x] = link[x] /\ cpc'[x] = cpc[x] /\ view'[x] = view[x],
         link'[c] = link[c] \/ (link[c] = "none" /\ link'[c] = "backlog"),
         cpc'[c] # "off",
         link[c] \in Unopened => Kept(c, d, e) /\ toClient'[c] = <<>>,
         \A i \in Active(conns) : conns[i].sock = c => TokenAt(i)' \/ Kept(c, d, e)
  PROVE  IInv'
<1>1. SameTables BY DEF SameTables, managed
<1>2. TablesAgree' /\ Unpaired' = Unpaired /\ \A i, game : MayMove(i, game)' <=> MayMove(i, game)
  BY <1>1, SameTablesAgree DEF IInv, Settled
<1>3. Settled' BY <1>2 DEF Settled, IInv
<1>4. Loop' BY DEF IInv, Loop, managed
<1>5. \A x \in Clients \ {c} : Kept(x, 0, 0)
  <2> TAKE x \in Clients \ {c}
  <2>1. toClient'[x] \in Seq(Packets) /\ toServer'[x] \in Seq(Requests) BY DEF Mail
  <2>2. Asked(x)' = Asked(x) /\ Moved(x)' = Moved(x) BY DEF Asked, Moved
  <2>3. (\A k \in Asked(x)' : k \in Nat) /\ (\A k \in Moved(x)' : k \in Nat)
    BY <2>1 DEF Asked, Moved
  <2>4. \A k \in Asked(x)' \cup Moved(x)' : k + 0 = k BY <2>3
  <2> QED BY <2>2, <2>4 DEF Kept, Prompted
<1>6. Links'
  <2>1. \A i \in Active(conns') : conns'[i].sock \in Clients /\ link'[conns'[i].sock] = "open"
    <3> TAKE i \in Active(conns')
    <3>1. i \in Active(conns) /\ conns'[i] = conns[i] BY DEF managed
    <3>2. conns[i].sock \in Clients /\ link[conns[i].sock] = "open" BY <3>1 DEF IInv, Links
    <3> QED BY <3>1, <3>2
  <2>2. \A i, j \in Active(conns') : conns'[i].sock = conns'[j].sock => i = j
    BY DEF IInv, Links, managed
  <2>3. ASSUME NEW x \in Clients
        PROVE  /\ cpc'[x] = "off" => link'[x] = "none"
               /\ link'[x] \in Unopened => toClient'[x] = <<>> /\ Tokenless(x)'
    <3>1. /\ cpc[x] = "off" => link[x] = "none"
          /\ link[x] \in Unopened => toClient[x] = <<>> /\ Tokenless(x)
      BY DEF IInv, Links, Unopened
    <3>2. CASE x # c BY <1>5, <3>1, <3>2, TokenlessStays
    <3>3. CASE x = c
      <4>1. link'[x] \in Unopened => link[x] \in Unopened BY <3>3 DEF Unopened
      <4> QED BY <3>1, <3>3, <4>1, TokenlessStays
    <3> QED BY <3>2, <3>3
  <2> QED BY <2>1, <2>2, <2>3 DEF Links, Unopened
<1>7. Tokens'
  <2> SUFFICES ASSUME NEW i \in Active(conns') PROVE TokenAt(i)' BY DEF Tokens
  <2>1. i \in Active(conns) /\ conns'[i] = conns[i] BY DEF managed
  <2>2. conns[i].sock \in Clients /\ TokenAt(i) BY <2>1 DEF IInv, Links, Tokens
  <2>3. PICK x \in Clients : conns[i].sock = x BY <2>2
  <2>4. CASE x = c /\ ~Kept(c, d, e) BY <2>1, <2>3, <2>4
  <2>5. CASE x = c /\ Kept(c, d, e) BY <1>2, <2>1, <2>2, <2>3, <2>5, TokenStays
  <2>6. CASE x # c
    <3>1. Kept(x, 0, 0) BY <1>5, <2>6
    <3> QED BY <1>2, <2>1, <2>2, <2>3, <3>1, TokenStays
  <2> QED BY <2>4, <2>5, <2>6
<1> QED BY <1>3, <1>4, <1>6, <1>7 DEF IInv

\* what is needed to type a step of a client
LEMMA ClientTypes ==
  ASSUME IInv
  PROVE  /\ toServer \in [Clients -> Seq(Requests)] /\ toClient \in [Clients -> Seq(Packets)]
         /\ cpc \in [Clients -> {"off", "login", "wait", "turn", "status", "stopped", "closed"}]
         /\ view \in [Clients -> Game]
         /\ link \in [Clients -> {"none", "backlog", "open", "leaked", "closed"}]
         /\ NewGame \in Game
BY NewGameIsGame DEF IInv, TypeOK, ServerTypeOK, Mail

\* what a client writes goes last, if it goes anywhere
LEMMA WrittenIs ==
  ASSUME IInv, NEW c \in Clients, NEW packet \in Requests, Written(c, packet)
  PROVE  /\ toServer' \in [Clients -> Seq(Requests)]
         /\ \A x \in Clients \ {c} : toServer'[x] = toServer[x]
         /\ \A k \in DOMAIN toServer'[c] :
              /\ k \in Nat
              /\ \/ k \in DOMAIN toServer[c] /\ toServer'[c][k] = toServer[c][k]
                 \/ toServer'[c][k] = packet /\ k = Len(toServer[c]) + 1
<1>1. toServer \in [Clients -> Seq(Requests)] /\ toServer[c] \in Seq(Requests) BY ClientTypes
<1>2. /\ Append(toServer[c], packet) \in Seq(Requests) /\ DOMAIN toServer[c] \subseteq Nat
      /\ \A k \in DOMAIN Append(toServer[c], packet) :
           \/ k \in DOMAIN toServer[c] /\ Append(toServer[c], packet)[k] = toServer[c][k]
           \/ k = Len(toServer[c]) + 1 /\ Append(toServer[c], packet)[k] = packet
  BY <1>1, AppendIs
<1>3. /\ toServer'[c] = toServer[c] \/ toServer'[c] = Append(toServer[c], packet)
      /\ \A x \in Clients \ {c} : toServer'[x] = toServer[x]
      /\ toServer' \in [Clients -> Seq(Requests)]
  BY <1>1, <1>2 DEF Written
<1>4. Len(toServer[c]) + 1 \in Nat BY <1>1
<1> QED BY <1>1, <1>2, <1>3, <1>4

\* a client that ends leaves behind what it wrote and nothing else
LEMMA EndedKeeps ==
  ASSUME IInv, NEW c \in Clients, Ended(c), UNCHANGED <<serverVars, link, toServer>>,
         events' = events \/ Event
  PROVE  IInv'
<1>1. /\ cpc' = [cpc EXCEPT ![c] = "closed"] /\ view' = [view EXCEPT ![c] = NewGame]
      /\ toClient' = [toClient EXCEPT ![c] = <<>>]
  BY DEF Ended
<1>2. <<>> \in Seq(Packets) BY EmptySeq
<1>3. Mail' BY <1>1, <1>2, ClientTypes DEF Mail
<1>4. TypeOK'
  <2>1. view' \in [Clients -> Game] /\ cpc' \in [Clients -> {"off", "login", "wait", "turn", "status", "stopped", "closed"}]
    BY <1>1, ClientTypes
  <2> QED BY <2>1 DEF IInv, TypeOK, ServerTypeOK, TablesTypeOK, serverVars, managed
<1>5. toClient'[c] = <<>> /\ cpc'[c] = "closed" BY <1>1, ClientTypes
<1>6. Kept(c, 0, 0)
  <2>1. Asked(c)' = {} BY <1>5 DEF Asked
  <2>2. Moved(c)' = Moved(c) BY DEF Moved
  <2>3. \A k \in Moved(c)' : k + 0 = k
    <3>1. toServer[c] \in Seq(Requests) BY ClientTypes
    <3>2. \A k \in Moved(c)' : k \in Nat BY <2>2, <3>1 DEF Moved
    <3> QED BY <3>2
  <2> QED BY <1>5, <2>1, <2>2, <2>3 DEF Kept, Prompted
<1>7. UNCHANGED <<spc, managed, todo, adding>> BY DEF serverVars
<1>8. \A x \in Clients \ {c} :
        /\ toClient'[x] = toClient[x] /\ toServer'[x] = toServer[x]
        /\ link'[x] = link[x] /\ cpc'[x] = cpc[x] /\ view'[x] = view[x]
  BY <1>1, ClientTypes
<1>9. \A i \in Active(conns) : conns[i].sock = c => TokenAt(i)' \/ Kept(c, 0, 0) BY <1>6
<1>10. /\ link'[c] = link[c] \/ (link[c] = "none" /\ link'[c] = "backlog")
       /\ cpc'[c] # "off"
       /\ link[c] \in Unopened => Kept(c, 0, 0) /\ toClient'[c] = <<>>
  BY <1>5, <1>6
<1>11. 0 \in Nat OBVIOUS
<1> QED BY ONLY <1>3, <1>4, <1>7, <1>8, <1>9, <1>10, <1>11, IInv, c \in Clients, ClientKeeps

\* a client that takes the next packet, and no prompt from it, keeps what it had
LEMMA TakesKeeps ==
  ASSUME IInv, NEW c \in Clients, toClient[c] # <<>>,
         toClient' = [toClient EXCEPT ![c] = Tail(@)],
         UNCHANGED <<serverVars, link, view>>,
         cpc' = cpc \/ Goes(c, "wait"),
         toServer' = toServer \/ Written(c, Ping)
  PROVE  IInv'
<1>1. toClient[c] \in Seq(Packets) /\ toServer[c] \in Seq(Requests) BY ClientTypes
<1>2. /\ Tail(toClient[c]) \in Seq(Packets)
      /\ \A k \in DOMAIN Tail(toClient[c]) :
           k + 1 \in DOMAIN toClient[c] /\ Tail(toClient[c])[k] = toClient[c][k + 1]
  BY <1>1, TailIs
<1>3. toClient' \in [Clients -> Seq(Packets)] /\ toClient'[c] = Tail(toClient[c])
  BY <1>2, ClientTypes
<1>4. /\ toServer' \in [Clients -> Seq(Requests)]
      /\ \A x \in Clients \ {c} : toServer'[x] = toServer[x]
      /\ \A k \in Moved(c)' : k \in Moved(c) /\ toServer'[c][k] = toServer[c][k] /\ k + 0 = k
  <2>1. CASE toServer' = toServer
    <3>1. \A k \in DOMAIN toServer[c] : k \in Nat BY <1>1
    <3> QED BY <2>1, <3>1, ClientTypes DEF Moved
  <2>2. CASE Written(c, Ping)
    <3>1. Ping \in Requests /\ Ping.type # "MOVE" BY DEF Requests, Ping
    <3>2. /\ toServer' \in [Clients -> Seq(Requests)]
          /\ \A x \in Clients \ {c} : toServer'[x] = toServer[x]
          /\ \A k \in DOMAIN toServer'[c] :
              /\ k \in Nat
              /\ \/ k \in DOMAIN toServer[c] /\ toServer'[c][k] = toServer[c][k]
                 \/ toServer'[c][k] = Ping
      BY <2>2, <3>1, WrittenIs
    <3> QED BY <3>1, <3>2 DEF Moved
  <2> QED BY <2>1, <2>2
<1>5. /\ cpc' \in [Clients -> {"off", "login", "wait", "turn", "status", "stopped", "closed"}]
      /\ \A x \in Clients \ {c} : cpc'[x] = cpc[x]
      /\ cpc'[c] = cpc[c] \/ cpc'[c] = "wait"
  BY ClientTypes DEF Goes
<1>6. Mail' BY <1>3, <1>4 DEF Mail
<1>7. TypeOK' BY <1>5 DEF IInv, TypeOK, ServerTypeOK, TablesTypeOK, serverVars, managed
<1>8. link[c] \notin Unopened BY DEF IInv, Links, Unopened
<1>9. cpc'[c] # "off"
  <2>1. link[c] # "none" BY <1>8 DEF Unopened
  <2> QED BY <1>5, <2>1 DEF IInv, Links
<1>10. Kept(c, 1, 0)
  <2>1. \A k \in Asked(c)' : k + 1 \in Asked(c) /\ toClient'[c][k] = toClient[c][k + 1]
    BY <1>2, <1>3 DEF Asked
  <2>2. Prompted(c)' => Prompted(c) /\ view'[c] = view[c] BY <1>5 DEF Prompted
  <2> QED BY <1>4, <2>1, <2>2 DEF Kept
<1>11. UNCHANGED <<spc, managed, todo, adding>> BY DEF serverVars
<1>12. \A x \in Clients \ {c} :
         /\ toClient'[x] = toClient[x] /\ toServer'[x] = toServer[x]
         /\ link'[x] = link[x] /\ cpc'[x] = cpc[x] /\ view'[x] = view[x]
  BY <1>4, <1>5, ClientTypes
<1>13. \A i \in Active(conns) : conns[i].sock = c => TokenAt(i)' \/ Kept(c, 1, 0) BY <1>10
<1>14. /\ link'[c] = link[c] \/ (link[c] = "none" /\ link'[c] = "backlog")
       /\ link[c] \in Unopened => Kept(c, 1, 0) /\ toClient'[c] = <<>>
  BY <1>8
<1>15. 0 \in Nat /\ 1 \in Nat OBVIOUS
<1> QED BY ONLY <1>6, <1>7, <1>9, <1>11, <1>12, <1>13, <1>14, <1>15, IInv, c \in Clients, ClientKeeps

LEMMA AnswersKeeps == ASSUME IInv, NEW c \in Clients, Answers(c) PROVE IInv'
<1>1. /\ toClient[c] # <<>> /\ toClient' = [toClient EXCEPT ![c] = Tail(@)]
      /\ UNCHANGED <<serverVars, link, view>> /\ cpc' = cpc
      /\ toServer' = toServer \/ Written(c, Ping)
  BY DEF Answers, clientVars
<1> QED BY <1>1, TakesKeeps

LEMMA LogsInKeeps == ASSUME IInv, NEW c \in Clients, LogsIn(c) PROVE IInv'
<1>1. cpc[c] = "off" /\ UNCHANGED <<serverVars, events>> BY DEF LogsIn
<1>2. CASE spc = "gone"
  <2>1. Ended(c) /\ UNCHANGED <<link, toServer>> BY <1>2 DEF LogsIn
  <2> QED BY <1>1, <2>1, EndedKeeps
<1>3. CASE spc # "gone"
  <2> DEFINE init == [type |-> "INIT"]
  <2>1. /\ Goes(c, "login") /\ link' = [link EXCEPT ![c] = "backlog"]
        /\ Written(c, init) /\ UNCHANGED <<view, toClient>>
    BY <1>3 DEF LogsIn
  <2>2. init \in Requests /\ init.type # "MOVE" BY DEF Requests
  <2> HIDE DEF init
  <2>3. /\ toServer' \in [Clients -> Seq(Requests)]
        /\ \A x \in Clients \ {c} : toServer'[x] = toServer[x]
        /\ \A k \in DOMAIN toServer'[c] :
              /\ k \in Nat
              /\ \/ k \in DOMAIN toServer[c] /\ toServer'[c][k] = toServer[c][k]
                 \/ toServer'[c][k] = init
    BY <2>1, <2>2, WrittenIs
  <2>4. link[c] = "none" /\ toClient[c] = <<>> BY <1>1 DEF IInv, Links
  <2>5. /\ cpc' \in [Clients -> {"off", "login", "wait", "turn", "status", "stopped", "closed"}]
        /\ link' \in [Clients -> {"none", "backlog", "open", "leaked", "closed"}]
        /\ cpc'[c] = "login" /\ link'[c] = "backlog"
        /\ \A x \in Clients \ {c} : cpc'[x] = cpc[x] /\ link'[x] = link[x]
    BY <2>1, ClientTypes DEF Goes
  <2>6. Mail' BY <2>1, <2>3, ClientTypes DEF Mail
  <2>7. TypeOK' BY <1>1, <2>1, <2>5 DEF IInv, TypeOK, ServerTypeOK, TablesTypeOK, serverVars, managed
  <2>8. Kept(c, 0, 0)
    <3>1. toClient'[c] = <<>> BY <2>1, <2>4
    <3>2. Asked(c)' = {} BY <3>1 DEF Asked
    <3>3. \A k \in Moved(c)' : k \in Moved(c) /\ toServer'[c][k] = toServer[c][k] /\ k + 0 = k
      BY <2>2, <2>3 DEF Moved
    <3> QED BY <2>5, <3>2, <3>3 DEF Kept, Prompted
  <2>9. UNCHANGED <<spc, managed, todo, adding>> BY <1>1 DEF serverVars
  <2>10. \A x \in Clients \ {c} :
           /\ toClient'[x] = toClient[x] /\ toServer'[x] = toServer[x]
           /\ link'[x] = link[x] /\ cpc'[x] = cpc[x] /\ view'[x] = view[x]
    BY <2>1, <2>3, <2>5
  <2>11. \A i \in Active(conns) : conns[i].sock = c => TokenAt(i)' \/ Kept(c, 0, 0) BY <2>8
  <2>12. /\ link'[c] = link[c] \/ (link[c] = "none" /\ link'[c] = "backlog")
         /\ link[c] \in Unopened => Kept(c, 0, 0) /\ toClient'[c] = <<>>
         /\ cpc'[c] # "off"
    BY <2>1, <2>4, <2>5, <2>8
  <2>13. 0 \in Nat OBVIOUS
  <2> QED BY ONLY <2>6, <2>7, <2>9, <2>10, <2>11, <2>12, <2>13, IInv, c \in Clients, ClientKeeps
<1> QED BY <1>2, <1>3

LEMMA HangsUpKeeps == ASSUME IInv, NEW c \in Clients, HangsUp(c) PROVE IInv'
BY EndedKeeps DEF HangsUp

LEMMA QuitsKeeps == ASSUME IInv, NEW c \in Clients, Quits(c) PROVE IInv'
BY EndedKeeps DEF Quits

LEMMA StopsKeeps == ASSUME IInv, NEW c \in Clients, Stops(c) PROVE IInv'
<1>1. /\ cpc[c] \in {"login", "wait", "turn", "status"}
      /\ cpc' = [cpc EXCEPT ![c] = "stopped"] /\ view' = [view EXCEPT ![c] = NewGame]
      /\ UNCHANGED <<serverVars, link, toServer, toClient>>
  BY DEF Stops, Goes
<1>2. Mail' BY <1>1, ClientTypes DEF Mail
<1>3. /\ cpc' \in [Clients -> {"off", "login", "wait", "turn", "status", "stopped", "closed"}]
      /\ view' \in [Clients -> Game] /\ cpc'[c] = "stopped"
      /\ \A x \in Clients \ {c} : cpc'[x] = cpc[x] /\ view'[x] = view[x]
  BY <1>1, ClientTypes
<1>4. TypeOK' BY <1>1, <1>3 DEF IInv, TypeOK, ServerTypeOK, TablesTypeOK, serverVars, managed
<1>5. Kept(c, 0, 0)
  <2>1. toClient[c] \in Seq(Packets) /\ toServer[c] \in Seq(Requests) BY ClientTypes
  <2>2. Asked(c)' = Asked(c) /\ Moved(c)' = Moved(c) BY <1>1 DEF Asked, Moved
  <2>3. (\A k \in Asked(c) : k + 0 = k) /\ (\A k \in Moved(c) : k + 0 = k)
    BY <2>1 DEF Asked, Moved
  <2> QED BY <1>1, <1>3, <2>2, <2>3 DEF Kept, Prompted
<1>6. UNCHANGED <<spc, managed, todo, adding>> BY <1>1 DEF serverVars
<1>7. \A x \in Clients \ {c} :
        /\ toClient'[x] = toClient[x] /\ toServer'[x] = toServer[x]
        /\ link'[x] = link[x] /\ cpc'[x] = cpc[x] /\ view'[x] = view[x]
  BY <1>1, <1>3
<1>8. \A i \in Active(conns) : conns[i].sock = c => TokenAt(i)' \/ Kept(c, 0, 0) BY <1>5
<1>9. /\ link'[c] = link[c] \/ (link[c] = "none" /\ link'[c] = "backlog")
      /\ link[c] \in Unopened => Kept(c, 0, 0) /\ toClient'[c] = <<>>
      /\ cpc'[c] # "off"
  BY <1>1, <1>3, <1>5 DEF IInv, Links, Unopened
<1>10. 0 \in Nat OBVIOUS
<1> QED BY ONLY <1>2, <1>4, <1>6, <1>7, <1>8, <1>9, <1>10, IInv, c \in Clients, ClientKeeps

\* The token goes from the packet to the prompt.
LEMMA PromptKeeps ==
  ASSUME IInv, NEW c \in Clients, NEW packet, toClient[c] # <<>>, packet = Head(toClient[c]),
         AsksForMove(packet), Goes(c, "turn"), view' = [view EXCEPT ![c] = packet.game],
         toClient' = [toClient EXCEPT ![c] = Tail(@)],
         UNCHANGED <<serverVars, link, toServer>>
  PROVE  IInv'
<1>1. toClient[c] \in Seq(Packets) BY ClientTypes
<1>2. /\ Tail(toClient[c]) \in Seq(Packets)
      /\ packet \in Packets /\ packet = toClient[c][1] /\ 1 \in DOMAIN toClient[c]
      /\ \A k \in DOMAIN Tail(toClient[c]) :
           /\ k + 1 \in DOMAIN toClient[c] /\ k + 1 # 1
           /\ Tail(toClient[c])[k] = toClient[c][k + 1]
  BY <1>1, TailIs
<1>3. packet.game \in Game BY <1>2 DEF AsksForMove, Packets, Ping, Status, GamePacket
<1>4. /\ toClient' \in [Clients -> Seq(Packets)] /\ toClient'[c] = Tail(toClient[c])
      /\ cpc' \in [Clients -> {"off", "login", "wait", "turn", "status", "stopped", "closed"}]
      /\ cpc'[c] = "turn"
      /\ view' \in [Clients -> Game] /\ view'[c] = packet.game
  BY <1>2, <1>3, ClientTypes DEF Goes
<1>5. Mail' BY <1>4, ClientTypes DEF Mail
<1>6. TypeOK' BY <1>4 DEF IInv, TypeOK, ServerTypeOK, TablesTypeOK, serverVars, managed
<1>7. link[c] \notin Unopened BY DEF IInv, Links, Unopened
<1>8. UNCHANGED <<spc, managed, todo, adding>> BY DEF serverVars
<1>9. \A x \in Clients \ {c} :
        /\ toClient'[x] = toClient[x] /\ toServer'[x] = toServer[x]
        /\ link'[x] = link[x] /\ cpc'[x] = cpc[x] /\ view'[x] = view[x]
  BY ClientTypes DEF Goes
<1>10. 1 \in Asked(c) BY <1>2 DEF Asked
<1>11. ASSUME NEW i \in Active(conns), conns[i].sock = c PROVE TokenAt(i)'
  <2>1. TokenAt(i) BY DEF IInv, Tokens
  <2>2. /\ \A k \in Asked(c) : k = 1
        /\ Moved(c) = {}
        /\ MayMove(i, packet.game)
    BY <1>2, <1>10, <1>11, <2>1 DEF TokenAt, OneToken
  <2>3. Asked(c)' = {} BY <1>2, <1>4, <2>2 DEF Asked
  <2>4. Moved(c)' = {} BY <2>2 DEF Moved
  <2>5. OneToken(c)' BY <2>3, <2>4 DEF OneToken
  <2>6. \E game : game = view'[c] /\ MayMove(i, game)' BY <1>4, <2>2 DEF MayMove, Mover, serverVars, managed
  <2>7. conns'[i].sock = c BY <1>11 DEF serverVars, managed
  <2> QED BY <2>3, <2>4, <2>5, <2>6, <2>7 DEF TokenAt, MayMove
<1>12. \A i \in Active(conns) : conns[i].sock = c => TokenAt(i)' \/ Kept(c, 0, 0) BY <1>11
<1>13. /\ link'[c] = link[c] \/ (link[c] = "none" /\ link'[c] = "backlog")
       /\ link[c] \in Unopened => Kept(c, 0, 0) /\ toClient'[c] = <<>>
       /\ cpc'[c] # "off"
  BY <1>4, <1>7
<1>14. 0 \in Nat OBVIOUS
<1> QED BY ONLY <1>5, <1>6, <1>8, <1>9, <1>12, <1>13, <1>14, IInv, c \in Clients, ClientKeeps

LEMMA ReceivesKeeps == ASSUME IInv, NEW c \in Clients, Receives(c) PROVE IInv'
<1> DEFINE packet == Head(toClient[c])
           expected == IF cpc[c] = "wait" THEN "GAME" ELSE "STATUS"
           takes == toClient' = [toClient EXCEPT ![c] = Tail(@)]
           accepted == packet.type = "STATUS" /\ expected = "STATUS" /\ packet.ok
           shown == packet.type = "GAME" /\ expected = "GAME" /\ ~packet.game.is_over
<1>1. toClient[c] # <<>> /\ UNCHANGED <<serverVars, link, toServer, events>> BY DEF Receives
<1>2. CASE accepted
  <2>1. Goes(c, "wait") /\ takes /\ UNCHANGED view BY <1>2 DEF Receives
  <2> QED BY <1>1, <2>1, TakesKeeps
<1>3. CASE ~accepted /\ shown
  <2>1. takes BY <1>3 DEF Receives
  <2>2. CASE packet.game.next_player = packet.player
    <3>1. Goes(c, "turn") /\ view' = [view EXCEPT ![c] = packet.game] BY <1>3, <2>2 DEF Receives
    <3>2. AsksForMove(packet) BY <1>3, <2>2 DEF AsksForMove
    <3>3. PICK p : p = packet OBVIOUS
    <3> QED BY <1>1, <2>1, <3>1, <3>2, <3>3, PromptKeeps
  <2>3. CASE packet.game.next_player # packet.player
    <3>1. UNCHANGED clientVars BY <1>3, <2>3 DEF Receives
    <3> QED BY <1>1, <2>1, <3>1, TakesKeeps DEF clientVars
  <2> QED BY <2>2, <2>3
<1>4. CASE ~accepted /\ ~shown
  <2>1. Ended(c) BY <1>4 DEF Receives
  <2> QED BY <1>1, <2>1, EndedKeeps
<1> QED BY <1>2, <1>3, <1>4

\* The token goes from the prompt to the move.
LEMMA MovesKeeps == ASSUME IInv, NEW c \in Clients, Moves(c) PROVE IInv'
<1>1. /\ cpc[c] = "turn" /\ cpc' = [cpc EXCEPT ![c] = "status"]
      /\ view' = [view EXCEPT ![c] = NewGame]
      /\ UNCHANGED <<serverVars, link, toClient, events>>
  BY DEF Moves, Goes
<1>2. PICK pos \in Positions : Legal(view[c], pos) /\ Written(c, [type |-> "MOVE", pos |-> pos])
  BY DEF Moves
<1> DEFINE move == [type |-> "MOVE", pos |-> pos]
<1>3. move \in Requests /\ move.pos = pos BY DEF Requests
<1>4. Written(c, move) BY <1>2
<1> HIDE DEF move
<1>5. /\ toServer' \in [Clients -> Seq(Requests)]
      /\ \A x \in Clients \ {c} : toServer'[x] = toServer[x]
      /\ \A k \in DOMAIN toServer'[c] :
            \/ k \in DOMAIN toServer[c] /\ toServer'[c][k] = toServer[c][k]
            \/ toServer'[c][k] = move /\ k = Len(toServer[c]) + 1
  BY <1>3, <1>4, WrittenIs
<1>6. /\ cpc' \in [Clients -> {"off", "login", "wait", "turn", "status", "stopped", "closed"}]
      /\ view' \in [Clients -> Game] /\ cpc'[c] = "status"
      /\ \A x \in Clients \ {c} : cpc'[x] = cpc[x] /\ view'[x] = view[x]
  BY <1>1, ClientTypes
<1>7. Mail' BY <1>1, <1>5, ClientTypes DEF Mail
<1>8. TypeOK' BY <1>1, <1>6 DEF IInv, TypeOK, ServerTypeOK, TablesTypeOK, serverVars, managed
<1>9. Prompted(c) BY <1>1 DEF Prompted
<1>10. link[c] \notin Unopened BY <1>9 DEF IInv, Links, Unopened, Tokenless
<1>11. UNCHANGED <<spc, managed, todo, adding>> BY <1>1 DEF serverVars
<1>12. \A x \in Clients \ {c} :
         /\ toClient'[x] = toClient[x] /\ toServer'[x] = toServer[x]
         /\ link'[x] = link[x] /\ cpc'[x] = cpc[x] /\ view'[x] = view[x]
  BY <1>1, <1>5, <1>6
<1>13. ASSUME NEW i \in Active(conns), conns[i].sock = c PROVE TokenAt(i)'
  <2>1. TokenAt(i) BY DEF IInv, Tokens
  <2>2. Asked(c) = {} /\ Moved(c) = {} /\ MayMove(i, view[c])
    BY <1>9, <1>13, <2>1 DEF TokenAt, OneToken
  <2>3. Asked(c)' = {} BY <1>1, <2>2 DEF Asked
  <2>4. \A k \in Moved(c)' : k = Len(toServer[c]) + 1 /\ toServer'[c][k] = move
    BY <1>5, <2>2 DEF Moved
  <2>5. ~Prompted(c)' BY <1>6 DEF Prompted
  <2>6. OneToken(c)' BY <2>3, <2>4, <2>5 DEF OneToken
  <2>7. PICK game : game = view[c] OBVIOUS
  <2>8. game \in Game /\ Legal(game, pos) /\ MayMove(i, game)' 
    BY <1>1, <1>2, <2>2, <2>7, ClientTypes DEF MayMove, Mover, serverVars, managed
  <2>9. \A k \in Moved(c)' : MayMove(i, game)' /\ Legal(game, toServer'[c][k].pos)
    BY <1>3, <2>4, <2>8
  <2>10. conns'[i].sock = c BY <1>1, <1>13 DEF serverVars, managed
  <2> QED BY <2>3, <2>5, <2>6, <2>8, <2>9, <2>10 DEF TokenAt
<1>14. \A i \in Active(conns) : conns[i].sock = c => TokenAt(i)' \/ Kept(c, 0, 0) BY <1>13
<1>15. /\ link'[c] = link[c] \/ (link[c] = "none" /\ link'[c] = "backlog")
       /\ link[c] \in Unopened => Kept(c, 0, 0) /\ toClient'[c] = <<>>
       /\ cpc'[c] # "off"
  BY <1>1, <1>6, <1>10
<1>16. 0 \in Nat OBVIOUS
<1> QED BY ONLY <1>7, <1>8, <1>11, <1>12, <1>14, <1>15, <1>16, IInv, c \in Clients, ClientKeeps

-----------------------------------------------------------------------------
(* The server: steps that leave the tables alone.                          *)

\* What the server sends to connections keeps what was on its way, and reaches no client
\* that has none.
LEMMA DeliveredKeeps ==
  ASSUME IInv, NEW sends \in Sends(Clients), toClient' = Delivered(sends),
         \A m \in DOMAIN sends : \E i \in Active(conns) : conns[i].sock = sends[m].to
  PROVE  /\ toClient' \in [Clients -> Seq(Packets)]
         /\ \A x \in Clients : link[x] \in Unopened => toClient'[x] = <<>>
         /\ \A x \in Clients :
              /\ Asking(x, sends) = {} =>
                   \A k \in Asked(x)' : k + 0 \in Asked(x) /\ toClient'[x][k] = toClient[x][k + 0]
              /\ Asked(x) = {} =>
                   /\ \A k \in Asked(x)' : \E m \in Asking(x, sends) : toClient'[x][k] = sends[m].packet
                   /\ (\A l, m \in Asking(x, sends) : l = m) => \A j, k \in Asked(x)' : j = k
<1>1. Mail BY DEF IInv
<1>2. ASSUME NEW x \in Clients
      PROVE  /\ toClient'[x] = Delivered(sends)[x] /\ toClient'[x] \in Seq(Packets)
             /\ (\A m \in DOMAIN sends : sends[m].to # x) => toClient'[x] = toClient[x]
             /\ \A k \in Asked(x)' :
                  \/ k \in Asked(x) /\ toClient'[x][k] = toClient[x][k]
                  \/ \E m \in Asking(x, sends) : toClient'[x][k] = sends[m].packet
             /\ (\A l, m \in Asking(x, sends) : l = m) /\ Asked(x) = {} => \A j, k \in Asked(x)' : j = k
  <2>1. toClient'[x] = Delivered(sends)[x] OBVIOUS
  <2>2. /\ toClient'[x] \in Seq(Packets)
        /\ (\A m \in DOMAIN sends : sends[m].to # x) => toClient'[x] = toClient[x]
        /\ \A k \in DOMAIN toClient'[x] : AsksForMove(toClient'[x][k]) =>
             \/ k \in DOMAIN toClient[x] /\ toClient'[x][k] = toClient[x][k]
             \/ \E m \in Asking(x, sends) : toClient'[x][k] = sends[m].packet
        /\ (\A l, m \in Asking(x, sends) : l = m) /\ Asked(x) = {} =>
             \A j, k \in DOMAIN toClient'[x] :
               AsksForMove(toClient'[x][j]) /\ AsksForMove(toClient'[x][k]) => j = k
    BY <1>1, <2>1, Arrivals
  <2> QED BY <2>1, <2>2 DEF Asked
<1>3. toClient' \in [Clients -> Seq(Packets)]
  <2>1. toClient' = [x \in Clients |-> toClient'[x]] BY DEF Delivered
  <2> QED BY <1>2, <2>1
<1>4. ASSUME NEW x \in Clients, link[x] \in Unopened PROVE toClient'[x] = <<>>
  <2>1. toClient[x] = <<>> /\ link[x] # "open" BY <1>4 DEF IInv, Links, Unopened
  <2>2. \A m \in DOMAIN sends : sends[m].to # x BY <2>1 DEF IInv, Links
  <2> QED BY <1>2, <2>1, <2>2
<1>5. ASSUME NEW x \in Clients, Asking(x, sends) = {}, NEW k \in Asked(x)'
      PROVE  k + 0 \in Asked(x) /\ toClient'[x][k] = toClient[x][k + 0]
  <2>1. k \in Asked(x) /\ toClient'[x][k] = toClient[x][k] BY <1>2, <1>5
  <2>2. k \in Nat
    <3>1. toClient'[x] \in Seq(Packets) BY <1>2
    <3> QED BY <3>1 DEF Asked
  <2> QED BY <2>1, <2>2
<1> QED BY <1>2, <1>3, <1>4, <1>5

LEMMA ConnsAre == ASSUME IInv PROVE conns \in [Conns -> ConnRecs(Clients)]
BY DEF IInv, TypeOK, ServerTypeOK, TablesTypeOK, ConnRecs

LEMMA FlagsOnly ==
  ASSUME NEW peers, conns \in [Conns -> ConnRecs(peers)], NEW i \in Conns,
         NEW rec \in ConnRecs(peers), conns' = [conns EXCEPT ![i] = rec],
         rec.active = conns[i].active, rec.sock = conns[i].sock
  PROVE  /\ conns' \in [Conns -> ConnRecs(peers)] /\ conns[i] \in ConnRecs(peers)
         /\ Active(conns') = Active(conns)
         /\ \A j \in Active(conns) : conns'[j].sock = conns[j].sock
BY DEF Active

\* A step of the server that changes flags only, reads what it may and asks for no move
\* keeps the invariant.
LEMMA FlagsKeep ==
  ASSUME IInv, TypeOK', Mail', Loop', SameTables, UNCHANGED <<link, cpc, view>>,
         spc' = "poll" => spc = "poll",
         \A x \in Clients : \E e \in Nat : Kept(x, 0, e),
         \A x \in Clients : link[x] \in Unopened => toClient'[x] = <<>>
  PROVE  IInv'
<1>1. TablesAgree' /\ Unpaired' = Unpaired /\ \A i, game : MayMove(i, game)' <=> MayMove(i, game)
  BY SameTablesAgree DEF IInv, Settled
<1>2. Settled' BY <1>1 DEF Settled, IInv
<1>3. Links'
  <2>1. \A i \in Active(conns') : conns'[i].sock \in Clients /\ link'[conns'[i].sock] = "open"
    BY DEF IInv, Links, SameTables
  <2>2. \A i, j \in Active(conns') : conns'[i].sock = conns'[j].sock => i = j
    BY DEF IInv, Links, SameTables
  <2>3. ASSUME NEW x \in Clients
        PROVE  /\ cpc'[x] = "off" => link'[x] = "none"
               /\ link'[x] \in Unopened => toClient'[x] = <<>> /\ Tokenless(x)'
    <3>1. /\ cpc[x] = "off" => link[x] = "none"
          /\ link[x] \in Unopened => Tokenless(x)
      BY DEF IInv, Links, Unopened
    <3> QED BY <3>1, TokenlessStays
  <2> QED BY <2>1, <2>2, <2>3 DEF Links, Unopened
<1>4. Tokens'
  <2> SUFFICES ASSUME NEW i \in Active(conns') PROVE TokenAt(i)' BY DEF Tokens
  <2>1. i \in Active(conns) /\ conns'[i].sock = conns[i].sock BY DEF SameTables
  <2>2. conns[i].sock \in Clients /\ TokenAt(i) BY <2>1 DEF IInv, Links, Tokens
  <2>3. PICK x \in Clients : conns[i].sock = x BY <2>2
  <2>4. PICK e \in Nat : Kept(x, 0, e) OBVIOUS
  <2>5. 0 \in Nat OBVIOUS
  <2> QED BY <1>1, <2>1, <2>2, <2>3, <2>4, <2>5, TokenStays
<1> QED BY <1>2, <1>3, <1>4 DEF IInv

\* nothing is added to what is under way
LEMMA NothingNew ==
  ASSUME IInv, UNCHANGED <<cpc, view, toServer, toClient>>, NEW x \in Clients
  PROVE  Kept(x, 0, 0)
<1>1. toClient[x] \in Seq(Packets) /\ toServer[x] \in Seq(Requests) BY ClientTypes
<1>2. Asked(x)' = Asked(x) /\ Moved(x)' = Moved(x) BY DEF Asked, Moved
<1>3. (\A k \in Asked(x) : k + 0 = k) /\ (\A k \in Moved(x) : k + 0 = k)
  BY <1>1 DEF Asked, Moved
<1> QED BY <1>2, <1>3 DEF Kept, Prompted

LEMMA SigintKeeps == ASSUME IInv, Sigint PROVE IInv'
<1>1. /\ g_got_sigint' = TRUE /\ spc' \in IF spc = "poll" THEN {"poll", "test"} ELSE {spc}
      /\ UNCHANGED <<managed, todo, adding, ppc, link, clientVars, toServer, toClient>>
  BY DEF Sigint
<1>2. TypeOK' BY <1>1 DEF IInv, TypeOK, ServerTypeOK, TablesTypeOK, managed, clientVars
<1>3. Mail' BY <1>1 DEF IInv, Mail
<1>4. Loop' BY <1>1 DEF IInv, Loop, managed
<1>5. SameTables BY <1>1 DEF SameTables, managed
<1>6. spc' = "poll" => spc = "poll" BY <1>1
<1>7. \A x \in Clients : \E e \in Nat : Kept(x, 0, e)
  <2>1. \A x \in Clients : Kept(x, 0, 0) BY <1>1, NothingNew DEF clientVars
  <2> QED BY <2>1
<1>8. \A x \in Clients : link[x] \in Unopened => toClient'[x] = <<>>
  BY <1>1 DEF IInv, Links, Unopened
<1> QED BY <1>1, <1>2, <1>3, <1>4, <1>5, <1>6, <1>7, <1>8, FlagsKeep DEF clientVars

LEMMA AddsKeeps == ASSUME IInv, Adds PROVE IInv'
<1> DEFINE rec == [conns[adding] EXCEPT !.alive = TRUE, !.error = FALSE]
<1>1. /\ spc = "add" /\ spc' = AfterReads(todo) /\ adding' = -1
      /\ conns' = [conns EXCEPT ![adding] = rec]
      /\ UNCHANGED <<players, sessions, todo, ppc, g_got_sigint, link, clientVars, toServer, toClient>>
  BY DEF Adds
<1>2. /\ conns \in [Conns -> ConnRecs(Clients)] /\ todo \subseteq Active(conns) /\ adding \in Active(conns)
  BY <1>1 DEF IInv, TypeOK, ServerTypeOK, TablesTypeOK, ConnRecs, Loop
<1>3. adding \in Conns /\ conns[adding] \in ConnRecs(Clients) BY <1>2 DEF Active
<1>4. rec \in ConnRecs(Clients) /\ rec.active = conns[adding].active /\ rec.sock = conns[adding].sock
  BY <1>3 DEF ConnRecs
<1> HIDE DEF rec
<1>5. /\ conns' \in [Conns -> ConnRecs(Clients)] /\ Active(conns') = Active(conns)
      /\ \A j \in Active(conns) : conns'[j].sock = conns[j].sock
  <2>1. PICK i \in Conns, r \in ConnRecs(Clients) : i = adding /\ r = rec BY <1>3, <1>4
  <2> QED BY <1>1, <1>4, <2>1, ConnsAre, FlagsOnly
<1>6. SameTables BY <1>1, <1>5 DEF SameTables
<1>7. spc' \in {"test", "read"} /\ (spc' = "test" => todo = {}) BY <1>1 DEF AfterReads
<1>8. TypeOK' BY <1>1, <1>2, <1>5, <1>7 DEF IInv, TypeOK, ServerTypeOK, TablesTypeOK, ConnRecs, clientVars
<1>9. Mail' BY <1>1 DEF IInv, Mail
<1>10. Loop' BY <1>1, <1>7 DEF Loop
<1>11. \A x \in Clients : \E e \in Nat : Kept(x, 0, e)
  <2>1. \A x \in Clients : Kept(x, 0, 0) BY <1>1, NothingNew DEF clientVars
  <2> QED BY <2>1
<1>12. \A x \in Clients : link[x] \in Unopened => toClient'[x] = <<>>
  BY <1>1 DEF IInv, Links, Unopened
<1> QED BY <1>1, <1>6, <1>7, <1>8, <1>9, <1>10, <1>11, <1>12, FlagsKeep DEF clientVars

\* one packet
LEMMA OneSend ==
  ASSUME NEW peers, NEW c \in peers, NEW packet \in Packets
  PROVE  /\ <<To(c, packet)>> \in Sends(peers) /\ DOMAIN <<To(c, packet)>> = {1}
         /\ <<To(c, packet)>>[1].to = c /\ <<To(c, packet)>>[1].packet = packet
<1>1. To(c, packet) \in [to : peers, packet : Packets] BY DEF To
<1> QED BY <1>1 DEF Sends, To

LEMMA PingsKeeps == ASSUME IInv, Pings PROVE IInv'
<1> DEFINE i == ppc
           pinged(failed) == [conns[i] EXCEPT !.alive = FALSE, !.error = conns[i].error \/ failed]
           missed == [conns[i] EXCEPT !.error = TRUE]
           pings == <<To(conns[i].sock, Ping)>>
<1>1. /\ ppc \in Conns /\ AfterPing
      /\ UNCHANGED <<spc, players, sessions, todo, adding, g_got_sigint, link, clientVars, toServer>>
  BY DEF Pings
<1>2. conns \in [Conns -> ConnRecs(Clients)] BY DEF IInv, TypeOK, ServerTypeOK, TablesTypeOK, ConnRecs
<1>3. conns[i] \in ConnRecs(Clients) BY <1>1, <1>2
<1>4. ppc' \in Conns \cup {-1}
  <2>1. ppc \in Nat /\ 0 \in Conns BY <1>1, SizesAssumption DEF Conns
  <2>2. ppc + 1 < SERVER_MAX_CONNECTIONS => ppc + 1 \in Conns BY <2>1, SizesAssumption DEF Conns
  <2>3. (ppc' = ppc + 1 /\ ppc + 1 < SERVER_MAX_CONNECTIONS) \/ ppc' \in {-1, 0}
    BY <1>1 DEF AfterPing
  <2> QED BY <2>1, <2>2, <2>3
<1>5. (conns[i].active /\ conns[i].sock \in Clients /\ toClient' = Delivered(pings)) \/ toClient' = toClient
  <2>1. CASE Pinged(ppc)
    <3>1. toClient' = Delivered(pings) BY <1>1, <2>1 DEF Pings, Pinged
    <3>2. i \in Active(conns) BY <1>1, <1>2, <2>1 DEF Pinged, Active
    <3>3. conns[i].sock \in Clients BY <3>2 DEF IInv, Links
    <3> QED BY <2>1, <3>1, <3>3 DEF Pinged
  <2>2. CASE ~Pinged(ppc) BY <2>2 DEF Pings
  <2> QED BY <2>1, <2>2
<1>6. \/ \E failed \in BOOLEAN : conns' = [conns EXCEPT ![i] = pinged(failed)]
      \/ conns' = [conns EXCEPT ![i] = missed]
      \/ conns' = conns
  <2>1. CASE Pinged(ppc)
    <3>1. \E failed \in BOOLEAN :
            conns' = [conns EXCEPT ![ppc] = [@ EXCEPT !.alive = FALSE, !.error = conns[ppc].error \/ failed]]
      <4>1. \E failed \in IF cpc[conns[ppc].sock] = "closed" THEN BOOLEAN ELSE {FALSE} :
              conns' = [conns EXCEPT ![ppc] = [@ EXCEPT !.alive = FALSE, !.error = conns[ppc].error \/ failed]]
        BY <2>1 DEF Pings, Pinged
      <4> QED BY <4>1
    <3> QED BY <3>1
  <2>2. CASE ~Pinged(ppc) /\ conns[ppc].active /\ ~conns[ppc].alive
    <3>1. conns' = [conns EXCEPT ![ppc].error = TRUE] BY <2>2 DEF Pings
    <3> QED BY <3>1
  <2>3. CASE ~Pinged(ppc) /\ ~(conns[ppc].active /\ ~conns[ppc].alive) BY <2>3 DEF Pings
  <2> QED BY <2>1, <2>2, <2>3
<1>7. /\ conns' \in [Conns -> ConnRecs(Clients)] /\ Active(conns') = Active(conns)
      /\ \A j \in Active(conns) : conns'[j].sock = conns[j].sock
  <2>1. CASE conns' = conns BY <1>2, <2>1
  <2>2. CASE \E rec \in {pinged(TRUE), pinged(FALSE), missed} : conns' = [conns EXCEPT ![i] = rec]
    <3>1. PICK rec : rec \in {pinged(TRUE), pinged(FALSE), missed} /\ conns' = [conns EXCEPT ![i] = rec]
      BY <2>2
    <3>2. rec \in ConnRecs(Clients) /\ rec.active = conns[i].active /\ rec.sock = conns[i].sock
      BY <1>3, <3>1 DEF ConnRecs
    <3>3. PICK j \in Conns : j = i BY <1>1
    <3> HIDE DEF i, pinged, missed
    <3> QED BY <3>1, <3>2, <3>3, ConnsAre, FlagsOnly
  <2>3. BOOLEAN = {TRUE, FALSE} OBVIOUS
  <2> HIDE DEF pinged, missed, i
  <2> QED BY <1>6, <2>1, <2>2, <2>3
<1>8. SameTables BY <1>1, <1>7 DEF SameTables
<1>9. TypeOK' BY <1>1, <1>4, <1>7, <1>8 DEF IInv, TypeOK, ServerTypeOK, TablesTypeOK, ConnRecs, clientVars
<1>10. Loop' BY <1>1, <1>7 DEF IInv, Loop
<1>11. /\ toClient' \in [Clients -> Seq(Packets)]
       /\ \A x \in Clients : link[x] \in Unopened => toClient'[x] = <<>>
       /\ \A x \in Clients : \A k \in Asked(x)' : k + 0 \in Asked(x) /\ toClient'[x][k] = toClient[x][k + 0]
  <2>1. CASE toClient' = toClient
    <3>1. \A x \in Clients : \A k \in Asked(x) : k + 0 = k
      <4> TAKE x \in Clients
      <4>1. toClient[x] \in Seq(Packets) BY ClientTypes
      <4> QED BY <4>1 DEF Asked
    <3>2. \A x \in Clients : Asked(x)' = Asked(x) BY <2>1 DEF Asked
    <3>3. \A x \in Clients : link[x] \in Unopened => toClient[x] = <<>> BY DEF IInv, Links, Unopened
    <3> QED BY <2>1, <3>1, <3>2, <3>3, ClientTypes
  <2>2. CASE conns[i].active /\ conns[i].sock \in Clients /\ toClient' = Delivered(pings)
    <3>1. PICK c \in Clients : c = conns[i].sock BY <2>2
    <3>2. Ping \in Packets /\ ~AsksForMove(Ping) BY DEF Packets, Ping, AsksForMove
    <3>3. /\ pings \in Sends(Clients) /\ DOMAIN pings = {1} /\ pings[1].to = c /\ pings[1].packet = Ping
      BY <3>1, <3>2, OneSend
    <3>4. i \in Active(conns) BY <1>1, <1>2, <2>2 DEF Active
    <3>5. \A m \in DOMAIN pings : \E j \in Active(conns) : conns[j].sock = pings[m].to
      BY <3>1, <3>3, <3>4
    <3>6. PICK sends : sends = pings OBVIOUS
    <3> HIDE DEF pings
    <3>7. \A x \in Clients : Asking(x, sends) = {} BY <3>2, <3>3, <3>6 DEF Asking
    <3> QED BY <2>2, <3>3, <3>5, <3>6, <3>7, DeliveredKeeps
  <2> QED BY <1>5, <2>1, <2>2
<1>12. Mail' BY <1>1, <1>11, ClientTypes DEF Mail
<1>13. \A x \in Clients : \E e \in Nat : Kept(x, 0, e)
  <2> TAKE x \in Clients
  <2>1. toServer[x] \in Seq(Requests) BY ClientTypes
  <2>2. Moved(x)' = Moved(x) /\ \A k \in Moved(x) : k + 0 = k BY <1>1, <2>1 DEF Moved
  <2>3. Kept(x, 0, 0) BY <1>1, <1>11, <2>2 DEF Kept, Prompted, clientVars
  <2> QED BY <2>3
<1> HIDE DEF i
<1> QED BY <1>1, <1>8, <1>9, <1>10, <1>11, <1>12, <1>13, FlagsKeep DEF clientVars

-----------------------------------------------------------------------------
(* The server: what it reads.                                              *)

\* the tables, as the steps that change them need them: their connections are of clients
Tables ==
  /\ Typed(Clients, conns, players, sessions) /\ Agree(conns, players, sessions)
  /\ \A i \in Active(conns) : conns[i].sock \in Clients

LEMMA TablesOf == ASSUME IInv PROVE Tables
BY TablesAre DEF IInv, TypeOK, ServerTypeOK, Settled, Links, Tables

LEMMA TablesMean ==
  ASSUME Tables
  PROVE  /\ Typed(Clients, conns, players, sessions) /\ Agree(conns, players, sessions)
         /\ Seated(players, sessions) /\ Placed(conns, players, NameOf)
         /\ Active(conns) \subseteq Conns /\ Active(players) \subseteq Players
         /\ Active(sessions) \subseteq Sessions /\ -1 \notin Sessions
         /\ \A i \in Active(conns) : conns[i].sock \in Clients /\ NameOf[conns[i].sock] \in STRING
         /\ \A p \in Active(players) :
              /\ players[p].con \in Active(conns) /\ ClientOf(p) = conns[players[p].con].sock
              /\ ClientOf(p) \in Clients /\ players[p].name = NameOf[ClientOf(p)]
         /\ \A p, q \in Active(players) :
              players[p].name = players[q].name \/ players[p].con = players[q].con
                \/ ClientOf(p) = ClientOf(q) => p = q
<1>1. Typed(Clients, conns, players, sessions) /\ Agree(conns, players, sessions)
  BY DEF Tables
<1>2. /\ Active(conns) \subseteq Conns /\ Active(players) \subseteq Players
      /\ Active(sessions) \subseteq Sessions
  BY <1>1 DEF Typed, Active
<1>3. -1 \notin Sessions BY SizesAssumption DEF Sessions
<1>4. \A i \in Active(conns) : conns[i].sock \in Clients /\ NameOf[conns[i].sock] \in STRING
  BY SizesAssumption DEF Tables
<1>5. \A p \in Active(players) :
        /\ players[p].con \in Active(conns) /\ ClientOf(p) = conns[players[p].con].sock
        /\ ClientOf(p) \in Clients /\ players[p].name = NameOf[ClientOf(p)]
  BY <1>1, <1>4 DEF Agree, ClientOf
<1>6. \A p, q \in Active(players) :
        players[p].name = players[q].name \/ players[p].con = players[q].con
          \/ ClientOf(p) = ClientOf(q) => p = q
  BY <1>1, <1>5 DEF Agree
<1>7. Seated(players, sessions) /\ Placed(conns, players, NameOf) BY <1>1, AgreeIs
<1> QED BY <1>1, <1>2, <1>3, <1>4, <1>5, <1>6, <1>7

\* A packet is read, and what is sent for it asks for a move only where that is in order.
LEMMA ReadKeeps ==
  ASSUME IInv, NEW i \in Active(conns), NEW c \in Clients, conns[i].sock = c, toServer[c] # <<>>,
         Typed(Clients, conns', players', sessions'), Agree(conns', players', sessions'),
         Active(conns') = Active(conns),
         \A j \in Active(conns) : conns'[j].sock = conns[j].sock,
         toServer' = [toServer EXCEPT ![c] = Tail(@)],
         UNCHANGED <<adding, ppc, g_got_sigint, link, clientVars>>,
         todo' \subseteq todo, spc' = AfterReads(todo'),
         NEW sends \in Sends(Clients), toClient' = Delivered(sends),
         \A m \in DOMAIN sends : \E j \in Active(conns) : conns[j].sock = sends[m].to,
         \A j \in Active(conns) :
           \/ TokenAt(j)'
           \/ /\ Asking(conns[j].sock, sends) = {}
              /\ \A game : MayMove(j, game) => MayMove(j, game)'
  PROVE  IInv'
<1>1. /\ toClient' \in [Clients -> Seq(Packets)]
      /\ \A x \in Clients : link[x] \in Unopened => toClient'[x] = <<>>
      /\ \A x \in Clients : Asking(x, sends) = {} =>
           \A k \in Asked(x)' : k + 0 \in Asked(x) /\ toClient'[x][k] = toClient[x][k + 0]
  BY DeliveredKeeps
<1>2. /\ toServer \in [Clients -> Seq(Requests)] /\ Tail(toServer[c]) \in Seq(Requests)
      /\ \A k \in DOMAIN Tail(toServer[c]) :
           k + 1 \in DOMAIN toServer[c] /\ Tail(toServer[c])[k] = toServer[c][k + 1]
  <2>1. toServer \in [Clients -> Seq(Requests)] /\ toServer[c] \in Seq(Requests) BY ClientTypes
  <2> QED BY <2>1, TailIs
<1>3. Mail' BY <1>1, <1>2 DEF Mail
<1>4. \A k \in Moved(c)' : k + 1 \in Moved(c) /\ toServer'[c][k] = toServer[c][k + 1]
  BY <1>2 DEF Moved
<1>5. \A x \in Clients \ {c} : \A k \in Moved(x)' : k + 0 \in Moved(x) /\ toServer'[x][k] = toServer[x][k + 0]
  <2> TAKE x \in Clients \ {c}
  <2>1. toServer'[x] = toServer[x] /\ toServer[x] \in Seq(Requests) BY <1>2
  <2>2. Moved(x)' = Moved(x) /\ \A k \in Moved(x) : k + 0 = k BY <2>1 DEF Moved
  <2> QED BY <2>1, <2>2
<1>6. \A x \in Clients : Asking(x, sends) = {} => \E e \in Nat : Kept(x, 0, e)
  <2> SUFFICES ASSUME NEW x \in Clients, Asking(x, sends) = {} PROVE \E e \in Nat : Kept(x, 0, e)
    OBVIOUS
  <2>1. Prompted(x)' => Prompted(x) /\ view'[x] = view[x] BY DEF Prompted, clientVars
  <2>2. x = c => Kept(x, 0, 1) BY <1>1, <1>4, <2>1 DEF Kept
  <2>3. x # c => Kept(x, 0, 0) BY <1>1, <1>5, <2>1 DEF Kept
  <2> QED BY <2>2, <2>3
<1>7. spc' \in {"test", "read"} /\ (spc' = "test" => todo' = {}) BY DEF AfterReads
<1>8. Loop' BY <1>7 DEF Loop
<1>9. TypeOK'
  <2>1. TablesTypeOK(Clients)' BY DEF TablesTypeOK, Typed, ConnRecs, PlayerRecs, SessionRecs
  <2> QED BY <1>7, <2>1 DEF IInv, TypeOK, ServerTypeOK, clientVars
<1>10. TablesAgree' BY DEF TablesAgree, SeatsAgree, PlacesAgree, Agree, Seats, ClientOf
<1>11. Settled' BY <1>7, <1>10 DEF Settled
<1>12. Links'
  <2>1. \A j \in Active(conns') : conns'[j].sock \in Clients /\ link'[conns'[j].sock] = "open"
    BY DEF IInv, Links
  <2>2. \A j, k \in Active(conns') : conns'[j].sock = conns'[k].sock => j = k
    BY DEF IInv, Links
  <2>3. ASSUME NEW x \in Clients
        PROVE  /\ cpc'[x] = "off" => link'[x] = "none"
               /\ link'[x] \in Unopened => toClient'[x] = <<>> /\ Tokenless(x)'
    <3>1. /\ cpc[x] = "off" => link[x] = "none"
          /\ link[x] \in Unopened => Tokenless(x)
      BY DEF IInv, Links, Unopened
    <3>2. ASSUME link[x] \in Unopened PROVE Asking(x, sends) = {}
      BY <3>2 DEF Asking, IInv, Links, Unopened
    <3>3. link[x] \in Unopened => Tokenless(x)' BY <1>6, <3>1, <3>2, TokenlessStays
    <3> QED BY <1>1, <3>1, <3>3 DEF clientVars
  <2> QED BY <2>1, <2>2, <2>3 DEF Links, Unopened
<1>13. Tokens'
  <2> SUFFICES ASSUME NEW j \in Active(conns') PROVE TokenAt(j)' BY DEF Tokens
  <2>1. j \in Active(conns) /\ conns'[j].sock = conns[j].sock OBVIOUS
  <2>2. conns[j].sock \in Clients /\ TokenAt(j) BY <2>1 DEF IInv, Links, Tokens
  <2>3. PICK x \in Clients : conns[j].sock = x BY <2>2
  <2>4. CASE Asking(x, sends) = {} /\ \A game : MayMove(j, game) => MayMove(j, game)'
    <3>1. PICK e \in Nat : Kept(x, 0, e) BY <1>6, <2>4
    <3>2. 0 \in Nat OBVIOUS
    <3> QED BY <1>3, <2>1, <2>2, <2>3, <2>4, <3>1, <3>2, TokenStays
  <2> QED BY <2>1, <2>3, <2>4
<1> QED BY <1>3, <1>8, <1>9, <1>11, <1>12, <1>13 DEF IInv

LEMMA AgreeAnyFlags ==
  ASSUME NEW cs, NEW others, NEW ps, NEW ss, Agree(cs, ps, ss),
         Active(others) = Active(cs), \A i \in Active(cs) : others[i].sock = cs[i].sock
  PROVE  Agree(others, ps, ss)
BY DEF Agree

\* a login under a name that is in use, or that finds no place, changes nothing; any other
\* takes a free place
LEMMA AddedAgrees ==
  ASSUME NEW peers, Typed(peers, conns, players, sessions), Seated(players, sessions),
         NEW i \in Conns, NEW name \in STRING
  PROVE  LET added == gman_add_player(i, name) IN
         /\ added.ok \in BOOLEAN
         /\ Typed(peers, conns, added.players, sessions) /\ Seated(added.players, sessions)
         /\ \A p \in Active(players) : p \in Active(added.players) /\ added.players[p] = players[p]
         /\ \A names :
              Placed(conns, players, names) /\ i \in Active(conns) /\ name = names[conns[i].sock]
                => Placed(conns, added.players, names)
<1> DEFINE free == Players \ Active(players)
           new == [active |-> TRUE, con |-> i, name |-> name, session |-> -1]
           place == Max(free)
           ps == [players EXCEPT ![place] = new]
<1>1. players \in [Players -> PlayerRecs] /\ Active(players) \subseteq Players
  BY DEF Typed, Active
<1>2. CASE free = {} \/ \E p \in Active(players) : players[p].name = name
  <2>1. gman_add_player(i, name) = [ok |-> FALSE, players |-> players] BY <1>2 DEF gman_add_player
  <2> QED BY <2>1
<1>3. CASE ~(free = {} \/ \E p \in Active(players) : players[p].name = name)
  <2>1. gman_add_player(i, name) = [ok |-> TRUE, players |-> ps] BY <1>3 DEF gman_add_player
  <2>2. place \in free
    <3>1. Players \in SUBSET Int /\ IsFiniteSet(Players) BY SizesAssumption, FS_Interval DEF Players
    <3>2. free \in SUBSET Int /\ IsFiniteSet(free) /\ free # {} BY <1>3, <3>1, FS_Subset
    <3> HIDE DEF free
    <3> QED BY <3>2, EndsAreMembers
  <2>3. new \in PlayerRecs BY <1>1 DEF PlayerRecs
  <2>4. new.active /\ new.con = i /\ new.name = name /\ new.session = -1 OBVIOUS
  <2> HIDE DEF new, place
  <2>5. /\ ps \in [Players -> PlayerRecs] /\ ps[place] = new
        /\ \A p \in Active(players) : p # place /\ ps[p] = players[p]
        /\ Active(ps) = Active(players) \cup {place}
    BY <1>1, <2>2, <2>3, <2>4 DEF Active
  <2> HIDE DEF ps
  <2>6. Typed(peers, conns, ps, sessions) BY <2>5 DEF Typed
  <2>7. ASSUME NEW p \in Active(ps)
        PROVE  /\ ps[p].con \in Conns
               /\ ps[p].session # -1 =>
                    /\ ps[p].session \in Active(sessions)
                    /\ p \in {sessions[ps[p].session].p1, sessions[ps[p].session].p2}
               /\ \A q \in Active(ps) \ {p} : ps[p].name # ps[q].name
    <3>1. \A q \in Active(players) : players[q].name # name BY <1>3
    <3>2. CASE p = place BY <2>4, <2>5, <3>1, <3>2
    <3>3. CASE p \in Active(players)
      <4>1. ps[p] = players[p] BY <2>5, <3>3
      <4>2. /\ players[p].con \in Conns
            /\ players[p].session # -1 =>
                 /\ players[p].session \in Active(sessions)
                 /\ p \in {sessions[players[p].session].p1, sessions[players[p].session].p2}
            /\ \A q \in Active(players) \ {p} : players[p].name # players[q].name
        BY <3>3 DEF Seated
      <4>3. \A q \in Active(ps) \ {p} : ps[p].name # ps[q].name
        <5> TAKE q \in Active(ps) \ {p}
        <5>1. CASE q = place BY <2>4, <2>5, <3>1, <3>3, <4>1, <5>1
        <5>2. CASE q # place
          <6>1. q \in Active(players) \ {p} /\ ps[q] = players[q] BY <2>5, <5>2
          <6> QED BY <4>1, <4>2, <6>1
        <5> QED BY <5>1, <5>2
      <4> QED BY <4>1, <4>2, <4>3
    <3> QED BY <2>5, <3>2, <3>3
  <2>8. ASSUME NEW s \in Active(sessions)
        PROVE  /\ sessions[s].p1 # sessions[s].p2
               /\ \A p \in {sessions[s].p1, sessions[s].p2} : p \in Active(ps) /\ ps[p].session = s
    <3>1. /\ sessions[s].p1 # sessions[s].p2
          /\ \A p \in {sessions[s].p1, sessions[s].p2} : p \in Active(players) /\ players[p].session = s
      BY DEF Seated
    <3> QED BY <2>5, <3>1
  <2>9. Seated(ps, sessions) BY <2>7, <2>8 DEF Seated
  <2>10. ASSUME NEW names, Placed(conns, players, names), i \in Active(conns), name = names[conns[i].sock]
         PROVE  Placed(conns, ps, names)
    <3>1. \A p \in Active(players) : ps[p] = players[p] BY <2>5
    <3> QED BY <2>4, <2>5, <2>10, <3>1 DEF Placed
  <2> QED BY <2>1, <2>5, <2>6, <2>9, <2>10
<1> QED BY <1>2, <1>3

\* A move is of the game of a player who has the name in it, or does nothing.
MoveIs(name, pos, did) ==
  \/ /\ did = [sessions |-> sessions, sends |-> <<>>]
     /\ \A p \in Active(players) : players[p].name = name =>
          \E q \in Active(players) : players[q].name = name /\ players[q].session = -1
  \/ \E p \in Active(players) : \E s \in Active(sessions) :
       /\ players[p].name = name /\ players[p].session = s
       /\ \/ /\ ~Legal(sessions[s].game, pos)
             /\ did = [sessions |-> sessions, sends |-> <<To(ClientOf(p), Status(FALSE))>>]
          \/ /\ Legal(sessions[s].game, pos)
             /\ did = [sessions |-> [sessions EXCEPT ![s].game = game_move(sessions[s].game, pos)],
                       sends |-> <<To(ClientOf(p), Status(TRUE))>>
                          \o ShowGame(ClientOf(sessions[s].p1), ClientOf(sessions[s].p2),
                                      game_move(sessions[s].game, pos))]

LEMMA MoveCases ==
  ASSUME Seated(players, sessions), NEW name, NEW pos \in Positions
  PROVE  MoveIs(name, pos, gman_execute_move(name, pos))
<1> DEFINE named == {p \in Active(players) : players[p].name = name}
           p == CHOOSE q \in named : TRUE
           s == players[p].session
           game == sessions[s].game
           next == game_move(game, pos)
           refused == [sessions |-> sessions, sends |-> <<To(ClientOf(p), Status(FALSE))>>]
           done == [sessions |-> [sessions EXCEPT ![s].game = next],
                    sends |-> <<To(ClientOf(p), Status(TRUE))>>
                              \o ShowGame(ClientOf(sessions[s].p1), ClientOf(sessions[s].p2), next)]
           nothing == [sessions |-> sessions, sends |-> <<>>]
<1>1. gman_execute_move(name, pos) =
        IF named = {} \/ s = -1 THEN nothing ELSE IF Legal(game, pos) THEN done ELSE refused
  BY Zenon DEF gman_execute_move
<1>2. CASE named = {} \/ s = -1
  <2>1. gman_execute_move(name, pos) = nothing BY <1>1, <1>2, Zenon
  <2>2. named # {} => p \in named OBVIOUS
  <2>3. \A q \in named : \E r \in named : players[r].session = -1
    <3> HIDE DEF named, p
    <3> QED BY <1>2, <2>2, Zenon
  <2> QED BY <2>1, <2>3, Zenon DEF MoveIs
<1>3. CASE ~(named = {} \/ s = -1)
  <2>1. p \in named BY <1>3
  <2>2. p \in Active(players) /\ players[p].name = name BY <2>1
  <2>3. s \in Active(sessions) BY <1>3, <2>2 DEF Seated
  <2>4. CASE Legal(game, pos)
    <3>1. gman_execute_move(name, pos) = done BY <1>1, <1>3, <2>4, Zenon
    <3> HIDE DEF p
    <3> QED BY <2>2, <2>3, <2>4, <3>1, Zenon DEF MoveIs
  <2>5. CASE ~Legal(game, pos)
    <3>1. gman_execute_move(name, pos) = refused BY <1>1, <1>3, <2>5, Zenon
    <3> HIDE DEF p
    <3> QED BY <2>2, <2>3, <2>5, <3>1, Zenon DEF MoveIs
  <2> QED BY <2>4, <2>5, Zenon
<1> QED BY <1>2, <1>3, Zenon

LEMMA StatusesAre == \A ok \in BOOLEAN : Status(ok) \in Packets /\ ~AsksForMove(Status(ok))
BY DEF Packets, AsksForMove, Status

\* the three packets of a move
Shown(sends, a, status, b, c, game) == sends = <<To(a, status)>> \o ShowGame(b, c, game)

LEMMA ShowsAre ==
  ASSUME NEW peers, NEW a \in peers, NEW b \in peers, NEW c \in peers, NEW game \in Game,
         NEW status \in Packets, ~AsksForMove(status),
         NEW sends, Shown(sends, a, status, b, c, game)
  PROVE  /\ sends \in Sends(peers) /\ DOMAIN sends = {1, 2, 3}
         /\ sends[1].to = a /\ sends[2].to = b /\ sends[3].to = c
         /\ ~AsksForMove(sends[1].packet)
         /\ sends[2].packet = GamePacket("X", game) /\ sends[3].packet = GamePacket("O", game)
<1> DEFINE x == To(a, status)
           y == To(b, GamePacket("X", game))
           z == To(c, GamePacket("O", game))
<1>1. /\ x.to = a /\ y.to = b /\ z.to = c
      /\ x.packet = status /\ y.packet = GamePacket("X", game) /\ z.packet = GamePacket("O", game)
  BY DEF To
<1>2. /\ x \in [to : peers, packet : Packets] /\ y \in [to : peers, packet : Packets]
      /\ z \in [to : peers, packet : Packets]
  <2>1. "X" \in Player /\ "O" \in Player BY DEF Player
  <2>2. GamePacket("X", game) \in Packets BY <2>1 DEF Packets
  <2>3. GamePacket("O", game) \in Packets BY <2>1 DEF Packets
  <2> QED BY <2>2, <2>3 DEF To
<1>3. sends = <<x>> \o <<y, z>> BY DEF ShowGame, Shown
<1> HIDE DEF x, y, z
<1> DEFINE S == [to : peers, packet : Packets]
<1>4. <<x>> \in Seq(S) /\ Len(<<x>>) = 1 /\ <<x>>[1] = x BY <1>2
<1>5. <<y, z>> \in Seq(S) /\ Len(<<y, z>>) = 2 /\ <<y, z>>[1] = y /\ <<y, z>>[2] = z BY <1>2
<1>6. /\ sends \in Seq(S) /\ Len(sends) = 3
      /\ \A k \in 1 .. 3 : sends[k] = IF k <= 1 THEN <<x>>[k] ELSE <<y, z>>[k - 1]
  <2> HIDE DEF S
  <2>1. PICK u \in Seq(S), v \in Seq(S) : u = <<x>> /\ v = <<y, z>> BY <1>4, <1>5
  <2>2. sends = u \o v /\ Len(u) = 1 /\ Len(v) = 2 BY <1>3, <1>4, <1>5, <2>1
  <2>3. /\ sends \in Seq(S) /\ Len(sends) = Len(u) + Len(v)
        /\ \A k \in 1 .. Len(u) + Len(v) : sends[k] = IF k <= Len(u) THEN u[k] ELSE v[k - Len(u)]
    <3>1. u \o v \in Seq(S) /\ Len(u \o v) = Len(u) + Len(v) BY ConcatProperties
    <3>2. \A k \in 1 .. Len(u) + Len(v) : (u \o v)[k] = IF k <= Len(u) THEN u[k] ELSE v[k - Len(u)]
      BY <3>1, ConcatProperties
    <3> QED BY ONLY <2>2, <3>1, <3>2
  <2> QED BY <2>1, <2>2, <2>3
<1>7. sends[1] = x /\ sends[2] = y /\ sends[3] = z BY <1>4, <1>5, <1>6
<1>8. DOMAIN sends = {1, 2, 3}
  <2>1. DOMAIN sends = 1 .. 3 BY <1>6, LenProperties
  <2> QED BY <2>1
<1>9. sends \in Sends(peers) BY <1>6 DEF Sends
<1> QED BY <1>1, <1>7, <1>8, <1>9

\* a move in the game of session s leaves all but that game as it was
MovedTo(ss, s, game) == ss = [sessions EXCEPT ![s].game = game]

LEMMA MovedAgrees ==
  ASSUME NEW peers, Typed(peers, conns, players, sessions), Seated(players, sessions),
         NEW s \in Active(sessions), NEW game \in Game, NEW ss, MovedTo(ss, s, game)
  PROVE  /\ Typed(peers, conns, players, ss) /\ Seated(players, ss)
         /\ Active(ss) = Active(sessions)
         /\ ss[s].game = game
         /\ \A t \in Active(sessions) : ss[t].p1 = sessions[t].p1 /\ ss[t].p2 = sessions[t].p2
         /\ \A t \in Active(sessions) \ {s} : ss[t] = sessions[t]
<1>1. sessions \in [Sessions -> SessionRecs] /\ Active(sessions) \subseteq Sessions
  BY DEF Typed, Active
<1>2. s \in Sessions /\ sessions[s] \in SessionRecs BY <1>1
<1>3. ss = [sessions EXCEPT ![s] = [sessions[s] EXCEPT !.game = game]] BY DEF MovedTo
<1>4. /\ [sessions[s] EXCEPT !.game = game] \in SessionRecs
      /\ [sessions[s] EXCEPT !.game = game].active = sessions[s].active
      /\ [sessions[s] EXCEPT !.game = game].p1 = sessions[s].p1
      /\ [sessions[s] EXCEPT !.game = game].p2 = sessions[s].p2
      /\ [sessions[s] EXCEPT !.game = game].game = game
  BY <1>2 DEF SessionRecs
<1>5. ss \in [Sessions -> SessionRecs] /\ \A t \in Sessions \ {s} : ss[t] = sessions[t]
  BY <1>1, <1>2, <1>3, <1>4
<1>6. ss[s] = [sessions[s] EXCEPT !.game = game] BY <1>1, <1>2, <1>3
<1>7. Active(ss) = Active(sessions)
  BY <1>1, <1>2, <1>4, <1>5, <1>6 DEF Active
<1>8. \A t \in Active(sessions) : ss[t].p1 = sessions[t].p1 /\ ss[t].p2 = sessions[t].p2
  BY <1>1, <1>4, <1>5, <1>6
<1>9. Seated(players, ss)
  <2>1. \A p \in Active(players) :
          players[p].session # -1 =>
            /\ players[p].session \in Active(ss)
            /\ p \in {ss[players[p].session].p1, ss[players[p].session].p2}
    <3> SUFFICES ASSUME NEW p \in Active(players), players[p].session # -1
                 PROVE  /\ players[p].session \in Active(ss)
                        /\ p \in {ss[players[p].session].p1, ss[players[p].session].p2}
      OBVIOUS
    <3>1. /\ players[p].session \in Active(sessions)
          /\ p \in {sessions[players[p].session].p1, sessions[players[p].session].p2}
      BY DEF Seated
    <3> QED BY <1>7, <1>8, <3>1
  <2>2. \A t \in Active(ss) :
          /\ ss[t].p1 # ss[t].p2
          /\ \A p \in {ss[t].p1, ss[t].p2} : p \in Active(players) /\ players[p].session = t
    <3> TAKE t \in Active(ss)
    <3>1. /\ sessions[t].p1 # sessions[t].p2
          /\ \A p \in {sessions[t].p1, sessions[t].p2} : p \in Active(players) /\ players[p].session = t
      BY <1>7 DEF Seated
    <3> QED BY <1>7, <1>8, <3>1
  <2>3. \A p \in Active(players) :
          players[p].con \in Conns /\ \A q \in Active(players) \ {p} : players[p].name # players[q].name
    BY DEF Seated
  <2> QED BY <2>1, <2>2, <2>3 DEF Seated
<1> QED BY <1>1, <1>4, <1>5, <1>6, <1>7, <1>8, <1>9 DEF Typed

\* who has the name of the client at a connection sits there
LEMMA NamesAre ==
  ASSUME IInv, NEW i \in Active(conns), NEW p \in Active(players), NEW q \in Active(players),
         players[p].con = i, players[q].name = NameOf[conns[i].sock]
  PROVE  q = p
<1>1. players[p].name = NameOf[conns[i].sock] BY TablesOf, TablesMean
<1> QED BY <1>1, TablesOf, TablesMean

\* The token goes from the move to the packet that shows the game to the other player, and
\* is gone when the game is over.
LEMMA MovePasses ==
  ASSUME IInv, NEW i \in Active(conns), NEW c \in Clients, conns[i].sock = c, toServer[c] # <<>>,
         NEW packet, packet = Head(toServer[c]), packet.type = "MOVE", packet.pos \in Positions,
         conns' \in [Conns -> ConnRecs(Clients)], Active(conns') = Active(conns),
         \A j \in Active(conns) : conns'[j].sock = conns[j].sock,
         toServer' = [toServer EXCEPT ![c] = Tail(@)],
         UNCHANGED <<players, adding, ppc, g_got_sigint, link, clientVars>>,
         todo' \subseteq todo, spc' = AfterReads(todo'),
         sessions' = gman_execute_move(NameOf[conns[i].sock], packet.pos).sessions,
         toClient' = Delivered(gman_execute_move(NameOf[conns[i].sock], packet.pos).sends)
  PROVE  IInv'
<1>1. /\ toServer \in [Clients -> Seq(Requests)] /\ packet = toServer[c][1]
      /\ 1 \in DOMAIN toServer[c]
      /\ \A k \in DOMAIN Tail(toServer[c]) :
           k + 1 \in DOMAIN toServer[c] /\ k + 1 # 1 /\ Tail(toServer[c])[k] = toServer[c][k + 1]
  <2>1. toServer \in [Clients -> Seq(Requests)] /\ toServer[c] \in Seq(Requests) BY ClientTypes
  <2> QED BY <2>1, TailIs
<1>2. 1 \in Moved(c) BY <1>1 DEF Moved
<1>3. /\ \A k \in Moved(c) : k = 1
      /\ Asked(c) = {} /\ ~Prompted(c)
      /\ \E game \in Game : MayMove(i, game) /\ Legal(game, packet.pos)
  <2>1. TokenAt(i) BY DEF IInv, Tokens
  <2> QED BY <1>1, <1>2, <2>1 DEF TokenAt, OneToken
<1>4. PICK game \in Game : MayMove(i, game) /\ Legal(game, packet.pos) BY <1>3
<1>5. PICK p \in Active(players) :
        /\ players[p].con = i /\ players[p].session # -1
        /\ p = Mover(players[p].session)
        /\ game = sessions[players[p].session].game /\ ~game.is_over
  BY <1>4 DEF MayMove
<1>6. PICK s : s = players[p].session OBVIOUS
<1>7. PICK next : next = game_move(game, packet.pos) OBVIOUS
<1>8. s \in Active(sessions) BY <1>5, <1>6, TablesOf, TablesMean DEF Agree
<1>9. next \in Game /\ next.next_player = Opponent(game.next_player) BY <1>4, <1>7, MoveIsGame
<1>10. PICK p1, p2 : p1 = sessions[s].p1 /\ p2 = sessions[s].p2 OBVIOUS
<1>11. /\ p1 \in Active(players) /\ p2 \in Active(players) /\ p1 # p2
       /\ players[p1].session = s /\ players[p2].session = s
  BY <1>8, <1>10, TablesOf, TablesMean DEF Agree
<1>12. p = IF game.next_player = "X" THEN p1 ELSE p2 BY <1>5, <1>6, <1>10 DEF Mover
<1>13. ClientOf(p) = c BY <1>5, TablesOf, TablesMean
<1>14. ClientOf(p1) \in Clients /\ ClientOf(p2) \in Clients BY <1>11, TablesOf, TablesMean
<1>15. PICK ss : ss = [sessions EXCEPT ![s].game = next] OBVIOUS
<1>16. PICK status : status = Status(TRUE) OBVIOUS
<1>17. PICK c1, c2 : c1 = ClientOf(p1) /\ c2 = ClientOf(p2) OBVIOUS
<1>18. PICK sends : sends = <<To(c, status)>> \o ShowGame(c1, c2, next)
  BY Zenon
<1>19. gman_execute_move(NameOf[conns[i].sock], packet.pos) = [sessions |-> ss, sends |-> sends]
  <2>1. PICK name, pos, did :
          name = NameOf[conns[i].sock] /\ pos = packet.pos /\ did = gman_execute_move(name, pos)
    OBVIOUS
  <2>2. pos \in Positions BY <2>1
  <2>3. Seated(players, sessions) BY TablesOf, TablesMean
  <2>4. \/ \A r \in Active(players) : players[r].name = name =>
             \E q \in Active(players) : players[q].name = name /\ players[q].session = -1
        \/ \E r \in Active(players) : \E t \in Active(sessions) :
             /\ players[r].name = name /\ players[r].session = t
             /\ Legal(sessions[t].game, pos) =>
                  did = [sessions |-> [sessions EXCEPT ![t].game = game_move(sessions[t].game, pos)],
                         sends |-> <<To(ClientOf(r), Status(TRUE))>>
                            \o ShowGame(ClientOf(sessions[t].p1), ClientOf(sessions[t].p2),
                                        game_move(sessions[t].game, pos))]
    <3>1. MoveIs(name, pos, did) BY <2>1, <2>2, <2>3, MoveCases, Zenon
    <3> QED BY ONLY <3>1, Zenon DEF MoveIs
  <2>5. \A q \in Active(players) : players[q].name = name => q = p
    BY <1>5, <2>1, NamesAre
  <2>6. players[p].name = name BY <1>5, <2>1, TablesOf, TablesMean
  <2>7. did = [sessions |-> [sessions EXCEPT ![s].game = game_move(sessions[s].game, pos)],
               sends |-> <<To(ClientOf(p), Status(TRUE))>>
                  \o ShowGame(ClientOf(sessions[s].p1), ClientOf(sessions[s].p2),
                              game_move(sessions[s].game, pos))]
    BY <1>4, <1>5, <1>6, <2>1, <2>4, <2>5, <2>6, Zenon
  <2>8. did = [sessions |-> ss, sends |-> sends]
    BY <1>5, <1>6, <1>10, <1>13, <1>15, <1>16, <1>18, <1>17, <1>7, <2>1, <2>7, Zenon
  <2> QED BY <2>1, <2>8
<1>20. sessions' = ss /\ toClient' = Delivered(sends) BY <1>19
<1>21. status \in Packets /\ ~AsksForMove(status) BY <1>16, StatusesAre
<1>22. /\ sends \in Sends(Clients) /\ DOMAIN sends = {1, 2, 3}
       /\ sends[1].to = c /\ sends[2].to = c1 /\ sends[3].to = c2
       /\ ~AsksForMove(sends[1].packet)
       /\ sends[2].packet = GamePacket("X", next) /\ sends[3].packet = GamePacket("O", next)
  <2>1. c1 \in Clients /\ c2 \in Clients BY <1>14, <1>17
  <2>2. Shown(sends, c, status, c1, c2, next) BY <1>18 DEF Shown
  <2> QED BY ONLY <1>9, <1>21, <2>1, <2>2, c \in Clients, ShowsAre
<1>23. /\ Typed(Clients, conns, players, ss) /\ Agree(conns, players, ss)
       /\ Active(ss) = Active(sessions) /\ ss[s].game = next
       /\ \A t \in Active(sessions) : ss[t].p1 = sessions[t].p1 /\ ss[t].p2 = sessions[t].p2
       /\ \A t \in Active(sessions) \ {s} : ss[t] = sessions[t]
  <2>1. MovedTo(ss, s, next) BY <1>15 DEF MovedTo
  <2>2. /\ Typed(Clients, conns, players, sessions) /\ Seated(players, sessions)
        /\ Placed(conns, players, NameOf)
    BY TablesOf, TablesMean
  <2>3. /\ Typed(Clients, conns, players, ss) /\ Seated(players, ss)
        /\ Active(ss) = Active(sessions) /\ ss[s].game = next
        /\ \A t \in Active(sessions) : ss[t].p1 = sessions[t].p1 /\ ss[t].p2 = sessions[t].p2
        /\ \A t \in Active(sessions) \ {s} : ss[t] = sessions[t]
    BY ONLY <1>8, <1>9, <2>1, <2>2, MovedAgrees
  <2>4. Agree(conns, players, ss) BY <2>2, <2>3, AgreeIs
  <2> QED BY <2>3, <2>4
<1>24. Typed(Clients, conns', players', sessions') /\ Agree(conns', players', sessions')
  <2>1. players' = players BY DEF clientVars
  <2>2. PICK cs : cs = conns' OBVIOUS
  <2>3. Agree(cs, players, ss) BY <1>23, <2>2, AgreeAnyFlags
  <2> QED BY <1>20, <1>23, <2>1, <2>2, <2>3 DEF Typed
<1>25. UNCHANGED <<players, cpc, view, link>> BY DEF clientVars
<1>26. PICK q : q = IF p = p1 THEN p2 ELSE p1 OBVIOUS
<1>27. /\ q \in Active(players) /\ q # p /\ players[q].session = s
       /\ q = IF next.next_player = "X" THEN p1 ELSE p2
       /\ (IF next.next_player = "X" THEN c1 ELSE c2) = ClientOf(q)
       /\ next.next_player \in {"X", "O"}
  <2>1. game.next_player \in {"X", "O"} BY DEF Game, Player
  <2>2. next.next_player = IF game.next_player = "X" THEN "O" ELSE "X" BY <1>9 DEF Opponent
  <2>3. q = IF next.next_player = "X" THEN p1 ELSE p2 BY <1>11, <1>12, <1>26, <2>1, <2>2
  <2> QED BY <1>11, <1>12, <1>17, <1>26, <2>1, <2>2, <2>3
<1>28. ASSUME NEW x, NEW m \in Asking(x, sends)
       PROVE  /\ x = ClientOf(q) /\ sends[m].packet.game = next /\ ~next.is_over
              /\ m = IF next.next_player = "X" THEN 2 ELSE 3
  <2>1. m \in {2, 3} /\ sends[m].to = x /\ AsksForMove(sends[m].packet) BY <1>22 DEF Asking
  <2>2. CASE m = 2
    <3>1. next.next_player = "X" /\ ~next.is_over /\ sends[m].packet.game = next
      BY <1>22, <2>1, <2>2 DEF AsksForMove, GamePacket
    <3> QED BY <1>22, <1>27, <2>1, <2>2, <3>1
  <2>3. CASE m = 3
    <3>1. next.next_player = "O" /\ ~next.is_over /\ sends[m].packet.game = next
      BY <1>22, <2>1, <2>3 DEF AsksForMove, GamePacket
    <3> QED BY <1>22, <1>27, <2>1, <2>3, <3>1
  <2> QED BY <2>1, <2>2, <2>3
<1>29. \A m \in DOMAIN sends : \E j \in Active(conns) : conns[j].sock = sends[m].to
  <2>1. /\ players[p1].con \in Active(conns) /\ conns[players[p1].con].sock = c1
        /\ players[p2].con \in Active(conns) /\ conns[players[p2].con].sock = c2
    BY <1>11, <1>17, TablesOf, TablesMean, SMTT(20)
  <2> QED BY <1>22, <2>1
<1>30. \A x \in Clients :
         /\ Asking(x, sends) = {} =>
              \A k \in Asked(x)' : k + 0 \in Asked(x) /\ toClient'[x][k] = toClient[x][k + 0]
         /\ Asked(x) = {} =>
              /\ \A k \in Asked(x)' : \E m \in Asking(x, sends) : toClient'[x][k] = sends[m].packet
              /\ (\A l, m \in Asking(x, sends) : l = m) => \A j, k \in Asked(x)' : j = k
  BY <1>20, <1>22, <1>29, DeliveredKeeps
<1>31. ASSUME NEW j, NEW r \in Active(players), NEW t, players[r].con = j,
              players[r].session = t, t # -1,
              r = (IF ss[t].game.next_player = "X" THEN ss[t].p1 ELSE ss[t].p2), ~ss[t].game.is_over
       PROVE  MayMove(j, ss[t].game)'
  <2>1. PICK g : g = ss[t].game OBVIOUS
  <2>2. MayMove(j, g)' BY <1>20, <1>25, <1>31, <2>1 DEF MayMove, Mover
  <2> QED BY <2>1, <2>2
<1>32. ASSUME NEW j \in Active(conns), j = i PROVE TokenAt(j)'
  <2>1. conns'[j].sock = c BY <1>32
  <2>2. ClientOf(q) # c BY <1>13, <1>27, TablesOf, TablesMean
  <2>3. Asking(c, sends) = {} BY <1>28, <2>2
  <2>4. Asked(c)' = {} BY <1>3, <1>30, <2>3
  <2>5. toServer'[c] = Tail(toServer[c]) BY <1>1
  <2>6. Moved(c)' = {} BY <1>1, <1>3, <2>5, SMTT(30) DEF Moved
  <2>7. ~Prompted(c)' BY <1>3, <1>25 DEF Prompted
  <2> QED BY <2>1, <2>4, <2>6, <2>7 DEF TokenAt, OneToken
<1>33. ASSUME NEW j \in Active(conns), j # i, j = players[q].con PROVE TokenAt(j)'
  <2>1. PICK x \in Clients : conns[j].sock = x BY <1>33, TablesOf, TablesMean
  <2>2. x # c BY <1>33, <2>1 DEF IInv, Links
  <2>3. \A g : ~MayMove(j, g)
    <3> SUFFICES ASSUME NEW g, MayMove(j, g) PROVE FALSE OBVIOUS
    <3>1. PICK r \in Active(players) : players[r].con = j /\ r = Mover(players[r].session)
      BY DEF MayMove
    <3>2. r = q BY <1>27, <1>33, <3>1, TablesOf, TablesMean
    <3> QED BY <1>5, <1>6, <1>27, <3>1, <3>2
  <2>4. TokenAt(j) BY DEF IInv, Tokens
  <2>5. Tokenless(x) BY <2>1, <2>3, <2>4, NotItsTurn
  <2>6. Moved(x)' = {} /\ ~Prompted(x)'
    <3>1. toServer'[x] = toServer[x] BY <1>1, <2>2
    <3> QED BY <1>25, <2>5, <3>1 DEF Tokenless, Moved, Prompted
  <2>7. \A k, l \in Asked(x)' : k = l BY <1>28, <1>30, <2>5 DEF Tokenless
  <2>8. ASSUME NEW k \in Asked(x)'
        PROVE  \E g : g = toClient'[x][k].game /\ MayMove(j, g)'
    <3>1. toClient'[x][k].game = next /\ ~next.is_over BY <1>28, <1>30, <2>5 DEF Tokenless
    <3>2. s # -1 BY <1>5, <1>6
    <3>3. MayMove(j, ss[s].game)'
      BY <1>10, <1>8, <1>23, <1>27, <1>31, <1>33, <3>1, <3>2
    <3> QED BY <1>23, <3>1, <3>3
  <2>9. conns'[j].sock = x BY <2>1
  <2>10. OneToken(x)' BY <2>6, <2>7 DEF OneToken
  <2>11. \A k \in Asked(x)' : MayMove(j, toClient[x][k].game)'
    <3> HIDE <1>31
    <3> SUFFICES ASSUME NEW k \in Asked(x)' PROVE MayMove(j, toClient[x][k].game)' OBVIOUS
    <3>1. PICK g : g = toClient'[x][k].game /\ MayMove(j, g)' BY <2>8
    <3> QED BY ONLY <3>1 DEF MayMove
  <2> QED BY ONLY <2>6, <2>9, <2>10, <2>11 DEF TokenAt, MayMove, OneToken
<1>34. ASSUME NEW j \in Active(conns), j # i, j # players[q].con
       PROVE  /\ Asking(conns[j].sock, sends) = {}
              /\ \A g : MayMove(j, g) => MayMove(j, g)'
  <2>1. conns[j].sock # ClientOf(q)
    <3>1. players[q].con \in Active(conns) /\ ClientOf(q) = conns[players[q].con].sock
      BY <1>27, TablesOf, TablesMean
    <3> QED BY <1>34, <3>1 DEF IInv, Links
  <2>2. Asking(conns[j].sock, sends) = {} BY <1>28, <2>1
  <2>3. ASSUME NEW g, MayMove(j, g) PROVE MayMove(j, g)'
    <3>1. PICK r \in Active(players) :
            /\ players[r].con = j /\ players[r].session # -1
            /\ r = Mover(players[r].session)
            /\ g = sessions[players[r].session].game /\ ~g.is_over
      BY <2>3 DEF MayMove
    <3>2. PICK t : t = players[r].session OBVIOUS
    <3>3. r # p /\ r # q BY <1>5, <1>34, <3>1
    <3>4. t \in Active(sessions) /\ r \in {sessions[t].p1, sessions[t].p2}
      BY <3>1, <3>2, TablesOf, TablesMean DEF Agree
    <3>5. t # s BY <1>10, <1>12, <1>26, <3>3, <3>4
    <3>6. ss[t] = sessions[t] BY <1>23, <3>4, <3>5
    <3>7. MayMove(j, ss[t].game)' BY <1>31, <3>1, <3>2, <3>6 DEF Mover
    <3> QED BY <3>1, <3>2, <3>6, <3>7
  <2> QED BY <2>2, <2>3
<1>35. \A j \in Active(conns) :
         \/ TokenAt(j)'
         \/ /\ Asking(conns[j].sock, sends) = {}
            /\ \A g : MayMove(j, g) => MayMove(j, g)'
  BY <1>32, <1>33, <1>34
<1> QED BY <1>20, <1>22, <1>24, <1>29, <1>35, ReadKeeps

\* A login changes the tables and is answered.
LEMMA LoginKeeps ==
  ASSUME IInv, NEW i \in Active(conns), NEW c \in Clients, conns[i].sock = c, toServer[c] # <<>>,
         conns' \in [Conns -> ConnRecs(Clients)], Active(conns') = Active(conns),
         \A j \in Active(conns) : conns'[j].sock = conns[j].sock,
         toServer' = [toServer EXCEPT ![c] = Tail(@)],
         UNCHANGED <<sessions, adding, ppc, g_got_sigint, link, clientVars>>,
         todo' \subseteq todo, spc' = AfterReads(todo'),
         players' = gman_add_player(i, NameOf[conns[i].sock]).players,
         toClient' = Delivered(<<To(c, Status(gman_add_player(i, NameOf[conns[i].sock]).ok))>>)
  PROVE  IInv'
<1>1. PICK ps, ok : ps = gman_add_player(i, NameOf[conns[i].sock]).players /\ ok = gman_add_player(i, NameOf[conns[i].sock]).ok OBVIOUS
<1>2. /\ ok \in BOOLEAN
      /\ Typed(Clients, conns, ps, sessions) /\ Agree(conns, ps, sessions)
      /\ \A p \in Active(players) : p \in Active(ps) /\ ps[p] = players[p]
  <2>1. PICK name \in STRING : name = NameOf[conns[i].sock] BY TablesOf, TablesMean
  <2>2. /\ Typed(Clients, conns, players, sessions) /\ Seated(players, sessions)
        /\ Placed(conns, players, NameOf) /\ i \in Conns
    BY TablesOf, TablesMean
  <2>3. ps = gman_add_player(i, name).players /\ ok = gman_add_player(i, name).ok BY <1>1, <2>1
  <2>4. /\ ok \in BOOLEAN
        /\ Typed(Clients, conns, ps, sessions) /\ Seated(ps, sessions)
        /\ \A p \in Active(players) : p \in Active(ps) /\ ps[p] = players[p]
        /\ Placed(conns, ps, NameOf)
    BY <2>1, <2>2, <2>3, AddedAgrees
  <2> QED BY <2>4, AgreeIs
<1>3. PICK status : status = Status(ok) OBVIOUS
<1>4. status \in Packets /\ ~AsksForMove(status) BY <1>2, <1>3, StatusesAre
<1>5. PICK sends : sends = <<To(c, status)>> OBVIOUS
<1>6. sends \in Sends(Clients) /\ DOMAIN sends = {1} /\ sends[1].to = c /\ sends[1].packet = status
  BY <1>4, <1>5, OneSend
<1>7. toClient' = Delivered(sends) /\ players' = ps BY <1>1, <1>3, <1>5
<1>8. \A x : Asking(x, sends) = {} BY <1>4, <1>6 DEF Asking
<1>9. Typed(Clients, conns', players', sessions') /\ Agree(conns', players', sessions')
  <2>1. PICK cs : cs = conns' OBVIOUS
  <2>2. Agree(cs, ps, sessions) BY <1>2, <2>1, AgreeAnyFlags
  <2> QED BY <1>2, <1>7, <2>1, <2>2 DEF Typed
<1>10. \A j, game : MayMove(j, game) => MayMove(j, game)'
  <2>1. PICK ss : ss = sessions OBVIOUS
  <2>2. sessions' = ss BY <2>1
  <2> QED BY <1>2, <1>7, <2>1, <2>2 DEF MayMove, Mover
<1>11. \A m \in DOMAIN sends : \E j \in Active(conns) : conns[j].sock = sends[m].to BY <1>6
<1> QED BY <1>6, <1>7, <1>8, <1>9, <1>10, <1>11, ReadKeeps

\* A PING is only counted.
LEMMA PingReadKeeps ==
  ASSUME IInv, NEW i \in Active(conns), NEW c \in Clients, conns[i].sock = c, toServer[c] # <<>>,
         conns' \in [Conns -> ConnRecs(Clients)], Active(conns') = Active(conns),
         \A j \in Active(conns) : conns'[j].sock = conns[j].sock,
         toServer' = [toServer EXCEPT ![c] = Tail(@)],
         UNCHANGED <<players, sessions, adding, ppc, g_got_sigint, link, clientVars>>,
         todo' \subseteq todo, spc' = AfterReads(todo'),
         toClient' = Delivered(<<>>)
  PROVE  IInv'
<1>1. PICK sends : sends = <<>> OBVIOUS
<1>2. sends \in Sends(Clients) /\ DOMAIN sends = {} BY <1>1, EmptySeq DEF Sends
<1>3. toClient' = Delivered(sends) BY <1>1
<1>4. \A x : Asking(x, sends) = {} BY <1>2 DEF Asking
<1>5. SameTables BY DEF SameTables
<1>6. \A j, game : MayMove(j, game) => MayMove(j, game)' BY <1>5, SameTablesAgree
<1>7. Typed(Clients, conns', players', sessions') /\ Agree(conns', players', sessions')
  <2>1. Typed(Clients, conns, players, sessions) /\ Agree(conns, players, sessions) BY TablesOf, TablesMean
  <2>2. PICK cs : cs = conns' OBVIOUS
  <2>3. Agree(cs, players, sessions) BY <2>1, <2>2, AgreeAnyFlags
  <2> QED BY <2>1, <2>2, <2>3 DEF Typed
<1> QED BY <1>2, <1>3, <1>4, <1>6, <1>7, ReadKeeps

LEMMA ReadsKeeps == ASSUME IInv, Reads PROVE IInv'
<1>1. /\ spc = "read" /\ todo # {}
      /\ todo' = todo \ {Min(todo)} /\ spc' = AfterReads(todo')
      /\ UNCHANGED <<adding, ppc, g_got_sigint, link, clientVars, events>>
  BY DEF Reads
<1>2. PICK i : i = Min(todo) OBVIOUS
<1>3. i \in Active(conns)
  <2>1. todo \subseteq Active(conns) BY DEF IInv, TypeOK, ServerTypeOK
  <2>2. Active(conns) \subseteq Conns BY TablesOf, TablesMean
  <2>3. Conns \in SUBSET Int /\ IsFiniteSet(Conns) BY SizesAssumption, FS_Interval DEF Conns
  <2>4. todo \in SUBSET Int /\ IsFiniteSet(todo) BY <2>1, <2>2, <2>3, FS_Subset
  <2>5. Min(todo) \in todo BY <1>1, <2>4, EndsAreMembers
  <2> QED BY <1>2, <2>1, <2>5
<1>4. PICK c \in Clients : conns[i].sock = c BY <1>3, TablesOf, TablesMean
<1>5. conns \in [Conns -> ConnRecs(Clients)] /\ i \in Conns /\ conns[i] \in ConnRecs(Clients)
  BY <1>3, TablesOf, TablesMean DEF Typed
<1>6. CASE toServer[c] = <<>>
  <2>1. conns' = [conns EXCEPT ![i].error = TRUE] /\ UNCHANGED <<players, sessions, toServer, toClient>>
    BY <1>2, <1>4, <1>6 DEF Reads
  <2>2. PICK rec : rec = [conns[i] EXCEPT !.error = TRUE] OBVIOUS
  <2>3. rec \in ConnRecs(Clients) /\ rec.active = conns[i].active /\ rec.sock = conns[i].sock
    BY <1>5, <2>2 DEF ConnRecs
  <2>4. conns' = [conns EXCEPT ![i] = rec] BY <2>1, <2>2
  <2>5. /\ conns' \in [Conns -> ConnRecs(Clients)] /\ Active(conns') = Active(conns)
        /\ \A j \in Active(conns) : conns'[j].sock = conns[j].sock
    BY <1>5, <2>3, <2>4, ConnsAre, FlagsOnly
  <2>6. SameTables BY <2>1, <2>5 DEF SameTables
  <2>7. spc' \in {"test", "read"} /\ (spc' = "test" => todo' = {}) BY <1>1 DEF AfterReads
  <2>8. TypeOK' BY <1>1, <2>1, <2>5, <2>7 DEF IInv, TypeOK, ServerTypeOK, TablesTypeOK, ConnRecs, clientVars
  <2>9. Mail' BY <2>1 DEF IInv, Mail
  <2>10. Loop' BY <2>7 DEF Loop
  <2>11. \A x \in Clients : \E e \in Nat : Kept(x, 0, e)
    <3>1. \A x \in Clients : Kept(x, 0, 0) BY <1>1, <2>1, NothingNew DEF clientVars
    <3> QED BY <3>1
  <2>12. \A x \in Clients : link[x] \in Unopened => toClient'[x] = <<>>
    BY <2>1 DEF IInv, Links, Unopened
  <2> QED BY <1>1, <2>6, <2>7, <2>8, <2>9, <2>10, <2>11, <2>12, FlagsKeep DEF clientVars
<1>7. CASE toServer[c] # <<>>
  <2>1. PICK packet : packet = Head(toServer[c]) OBVIOUS
  <2>2. PICK did : did = Handled(i, packet) OBVIOUS
  <2>3. /\ \E failed \in IF packet.type = "INIT" /\ cpc[c] = "closed" THEN BOOLEAN ELSE {FALSE} :
             conns' = [conns EXCEPT ![i] = Noted(conns[i], packet.type, failed)]
        /\ players' = did.players /\ sessions' = did.sessions
        /\ toServer' = [toServer EXCEPT ![c] = Tail(@)]
        /\ toClient' = Delivered(did.sends)
    <3>1. \E d \in {Handled(i, Head(toServer[c]))} : \E type \in {Head(toServer[c]).type} :
            /\ \E failed \in IF type = "INIT" /\ cpc[c] = "closed" THEN BOOLEAN ELSE {FALSE} :
                 conns' = [conns EXCEPT ![i] = Noted(conns[i], type, failed)]
            /\ players' = d.players /\ sessions' = d.sessions
            /\ toServer' = [toServer EXCEPT ![c] = Tail(@)]
            /\ toClient' = Delivered(d.sends)
      BY <1>2, <1>4, <1>7, ZenonT(40) DEF Reads
    <3> QED BY <2>1, <2>2, <3>1
  <2>4. /\ conns' \in [Conns -> ConnRecs(Clients)] /\ Active(conns') = Active(conns)
        /\ \A j \in Active(conns) : conns'[j].sock = conns[j].sock
    <3>1. PICK failed \in BOOLEAN :
             conns' = [conns EXCEPT ![i] = Noted(conns[i], packet.type, failed)]
      BY <2>3
    <3>2. PICK rec : rec = Noted(conns[i], packet.type, failed) OBVIOUS
    <3>3. rec \in ConnRecs(Clients) /\ rec.active = conns[i].active /\ rec.sock = conns[i].sock
      BY <1>5, <3>2 DEF ConnRecs, Noted
    <3>4. conns' = [conns EXCEPT ![i] = rec] BY <3>1, <3>2
    <3> QED BY <1>5, <3>3, <3>4, ConnsAre, FlagsOnly
  <2>5. packet \in Requests
    <3>1. toServer[c] \in Seq(Requests) BY ClientTypes
    <3> QED BY <1>7, <2>1, <3>1, TailIs
  <2>6. todo' \subseteq todo BY <1>1
  <2>7. CASE packet.type = "INIT"
    <3>1. /\ did.players = gman_add_player(i, NameOf[conns[i].sock]).players /\ did.sessions = sessions
          /\ did.sends = <<To(c, Status(gman_add_player(i, NameOf[conns[i].sock]).ok))>>
      BY <1>4, <2>2, <2>7 DEF Handled
    <3>2. /\ players' = gman_add_player(i, NameOf[conns[i].sock]).players /\ UNCHANGED sessions
          /\ toClient' = Delivered(<<To(c, Status(gman_add_player(i, NameOf[conns[i].sock]).ok))>>)
      BY <2>3, <3>1
    <3> QED BY <1>1, <1>3, <1>4, <1>7, <2>3, <2>4, <2>6, <3>2, LoginKeeps
  <2>8. CASE packet.type = "MOVE"
    <3>1. packet.pos \in Positions BY <2>5, <2>8 DEF Requests, Ping
    <3>2. did.players = players /\ did.sessions = gman_execute_move(NameOf[conns[i].sock], packet.pos).sessions
          /\ did.sends = gman_execute_move(NameOf[conns[i].sock], packet.pos).sends
      BY <2>2, <2>8 DEF Handled
    <3>3. /\ UNCHANGED players /\ sessions' = gman_execute_move(NameOf[conns[i].sock], packet.pos).sessions
          /\ toClient' = Delivered(gman_execute_move(NameOf[conns[i].sock], packet.pos).sends)
      BY <2>3, <3>2
    <3> QED BY <1>1, <1>3, <1>4, <1>7, <2>1, <2>3, <2>4, <2>6, <2>8, <3>1, <3>3, MovePasses
  <2>9. CASE packet.type = "PING"
    <3>1. did.players = players /\ did.sessions = sessions /\ did.sends = <<>>
      BY <2>2, <2>9 DEF Handled
    <3>2. UNCHANGED <<players, sessions>> /\ toClient' = Delivered(<<>>) BY <2>3, <3>1
    <3> QED BY <1>1, <1>3, <1>4, <1>7, <2>3, <2>4, <2>6, <3>2, PingReadKeeps
  <2>10. packet.type \in {"INIT", "MOVE", "PING"} BY <2>5 DEF Requests, Ping
  <2> QED BY <2>7, <2>8, <2>9, <2>10
<1> QED BY <1>6, <1>7

-----------------------------------------------------------------------------
(* The server: what it accepts.                                            *)

\* A connection more is one to a client that has no token.
LEMMA AcceptKeeps ==
  ASSUME IInv, TypeOK', Loop', spc' # "poll",
         UNCHANGED <<players, sessions, cpc, view, toServer, toClient>>,
         \A i \in Active(conns) : i \in Active(conns') /\ conns'[i] = conns[i],
         \A x \in Clients :
           link'[x] = link[x] \/ (link[x] = "backlog" /\ link'[x] \in {"leaked", "open"}),
         \A i \in Active(conns') \ Active(conns) :
           /\ conns'[i].sock \in Clients
           /\ link[conns'[i].sock] = "backlog" /\ link'[conns'[i].sock] = "open",
         \A i, j \in Active(conns') \ Active(conns) : i = j
  PROVE  IInv'
<1>1. Mail' BY DEF IInv, Mail
<1>2. \A x \in Clients : Kept(x, 0, 0) BY NothingNew
<1>3. Settled'
  <2>1. Agree(conns, players, sessions) /\ \A p \in Active(players) : players[p].con \in Active(conns)
    BY TablesOf, TablesMean
  <2>2. PICK cs : cs = conns' OBVIOUS
  <2>3. Agree(cs, players, sessions) BY <2>1, <2>2 DEF Agree
  <2>4. TablesAgree' BY <2>2, <2>3 DEF TablesAgree, SeatsAgree, PlacesAgree, Agree, Seats, ClientOf
  <2> QED BY <2>4 DEF Settled
<1>4. \A i, game : MayMove(i, game) => MayMove(i, game)' BY DEF MayMove, Mover
<1>5. Links'
  <2>1. ASSUME NEW i \in Active(conns')
        PROVE  conns'[i].sock \in Clients /\ link'[conns'[i].sock] = "open"
    <3>1. CASE i \in Active(conns)
      <4>1. PICK x \in Clients : x = conns[i].sock /\ link[x] = "open" BY <3>1 DEF IInv, Links
      <4> QED BY <3>1, <4>1
    <3>2. CASE i \notin Active(conns) BY <2>1, <3>2
    <3> QED BY <3>1, <3>2
  <2>2. ASSUME NEW i \in Active(conns'), NEW j \in Active(conns'), conns'[i].sock = conns'[j].sock
        PROVE  i = j
    <3>1. \A k \in Active(conns) : link[conns'[k].sock] = "open" BY DEF IInv, Links
    <3>2. \A k \in Active(conns') \ Active(conns) : link[conns'[k].sock] # "open" OBVIOUS
    <3>3. i \in Active(conns) <=> j \in Active(conns) BY <2>2, <3>1, <3>2
    <3>4. CASE i \in Active(conns) BY <2>2, <3>3, <3>4 DEF IInv, Links
    <3>5. CASE i \notin Active(conns) BY <3>3, <3>5
    <3> QED BY <3>4, <3>5
  <2>3. ASSUME NEW x \in Clients
        PROVE  /\ cpc'[x] = "off" => link'[x] = "none"
               /\ link'[x] \in Unopened => toClient'[x] = <<>> /\ Tokenless(x)'
    <3>1. /\ cpc[x] = "off" => link[x] = "none"
          /\ link[x] \in Unopened => toClient[x] = <<>> /\ Tokenless(x)
      BY DEF IInv, Links, Unopened
    <3>2. link'[x] \in Unopened => link[x] \in Unopened BY DEF Unopened
    <3> QED BY <1>2, <3>1, <3>2, TokenlessStays
  <2> QED BY <2>1, <2>2, <2>3 DEF Links, Unopened
<1>6. Tokens'
  <2> SUFFICES ASSUME NEW i \in Active(conns') PROVE TokenAt(i)' BY DEF Tokens
  <2>1. CASE i \in Active(conns)
    <3>1. conns'[i].sock = conns[i].sock /\ conns[i].sock \in Clients /\ TokenAt(i)
      BY <2>1 DEF IInv, Links, Tokens
    <3>2. PICK x \in Clients : conns[i].sock = x BY <3>1
    <3>3. Kept(x, 0, 0) /\ 0 \in Nat BY <1>2
    <3> QED BY <1>1, <1>4, <3>1, <3>2, <3>3, TokenStays
  <2>2. CASE i \notin Active(conns)
    <3>1. PICK x \in Clients : conns'[i].sock = x /\ link[x] = "backlog" BY <2>2
    <3>2. Tokenless(x) BY <3>1 DEF IInv, Links
    <3>3. Tokenless(x)' BY <1>2, <3>2, TokenlessStays
    <3> QED BY <3>1, <3>3 DEF Tokenless, TokenAt, OneToken
  <2> QED BY <2>1, <2>2
<1> QED BY <1>1, <1>3, <1>5, <1>6 DEF IInv

LEMMA PollsKeeps == ASSUME IInv, Polls PROVE IInv'
<1>1. /\ spc = "poll" /\ todo' = {i \in Conns : Readable(i)}
      /\ UNCHANGED <<players, sessions, ppc, g_got_sigint, clientVars, toServer, toClient, events>>
  BY DEF Polls
<1>2. conns \in [Conns -> ConnRecs(Clients)] /\ Active(conns) \subseteq Conns /\ todo' \subseteq Active(conns)
  BY <1>1, TablesOf, TablesMean DEF Typed, Readable, Active
<1>3. UNCHANGED <<cpc, view>> BY <1>1 DEF clientVars
<1>4. CASE Backlog = {} /\ todo' # {} /\ spc' = "read" /\ UNCHANGED <<conns, adding, link>>
  <2>1. TypeOK' BY <1>1, <1>2, <1>3, <1>4 DEF IInv, TypeOK, ServerTypeOK, TablesTypeOK
  <2>2. Loop' BY <1>4 DEF Loop
  <2> QED BY <1>1, <1>3, <1>4, <2>1, <2>2, AcceptKeeps
<1>5. ASSUME NEW c \in Backlog, Accepts(c) PROVE IInv'
  <2> DEFINE free == Conns \ Active(conns)
  <2>1. c \in Clients /\ link[c] = "backlog" BY DEF Backlog
  <2>2. link \in [Clients -> {"none", "backlog", "open", "leaked", "closed"}] BY ClientTypes
  <2>3. CASE free = {}
    <3>1. link' = [link EXCEPT ![c] = "leaked"] /\ spc' = AfterReads(todo') /\ UNCHANGED <<conns, adding>>
      BY <1>5, <2>3 DEF Accepts
    <3>2. spc' \in {"test", "read"} /\ (spc' = "test" => todo' = {}) BY <3>1 DEF AfterReads
    <3>3. link' \in [Clients -> {"none", "backlog", "open", "leaked", "closed"}] BY <2>2, <3>1
    <3>4. TypeOK' BY <1>1, <1>2, <1>3, <3>1, <3>2, <3>3 DEF IInv, TypeOK, ServerTypeOK, TablesTypeOK
    <3>5. Loop' BY <3>2 DEF Loop
    <3>6. \A x \in Clients :
            link'[x] = link[x] \/ (link[x] = "backlog" /\ link'[x] \in {"leaked", "open"})
      BY <2>1, <2>2, <3>1
    <3> QED BY <1>1, <1>3, <3>1, <3>2, <3>4, <3>5, <3>6, AcceptKeeps
  <2>4. CASE free # {}
    <3>1. PICK n : n = Min(free) OBVIOUS
    <3>2. n \in free
      <4>1. Conns \in SUBSET Int /\ IsFiniteSet(Conns) BY SizesAssumption, FS_Interval DEF Conns
      <4>2. free \in SUBSET Int /\ IsFiniteSet(free) BY <4>1, FS_Subset
      <4> HIDE DEF free
      <4> QED BY <2>4, <3>1, <4>2, EndsAreMembers
    <3>3. PICK rec : rec = [conns[n] EXCEPT !.active = TRUE, !.sock = c] OBVIOUS
    <3>4. /\ link' = [link EXCEPT ![c] = "open"] /\ spc' = "add" /\ adding' = n
          /\ conns' = [conns EXCEPT ![n] = rec]
      BY <1>5, <2>4, <3>1, <3>3 DEF Accepts
    <3>5. rec \in ConnRecs(Clients) /\ rec.active /\ rec.sock = c
      <4>1. conns[n] \in ConnRecs(Clients) BY <1>2, <3>2
      <4> QED BY <2>1, <3>3, <4>1 DEF ConnRecs
    <3>6. /\ conns' \in [Conns -> ConnRecs(Clients)] /\ conns'[n] = rec
          /\ \A i \in Conns \ {n} : conns'[i] = conns[i]
      BY <1>2, <3>2, <3>4, <3>5
    <3>7. Active(conns') = Active(conns) \cup {n} BY <1>2, <3>2, <3>5, <3>6 DEF Active
    <3>8. link' \in [Clients -> {"none", "backlog", "open", "leaked", "closed"}] BY <2>2, <3>4
    <3>9. todo' \subseteq Active(conns') /\ adding' \in Conns BY <1>2, <3>2, <3>4, <3>7
    <3>10. TypeOK'
      BY <1>1, <1>3, <3>4, <3>6, <3>8, <3>9 DEF IInv, TypeOK, ServerTypeOK, TablesTypeOK, ConnRecs
    <3>11. Loop' BY <3>4, <3>7 DEF Loop
    <3>12. \A x \in Clients :
             link'[x] = link[x] \/ (link[x] = "backlog" /\ link'[x] \in {"leaked", "open"})
      BY <2>1, <2>2, <3>4
    <3>13. \A i \in Active(conns) : i \in Active(conns') /\ conns'[i] = conns[i]
      BY <1>2, <3>2, <3>6, <3>7
    <3>14. \A i \in Active(conns') \ Active(conns) :
             /\ conns'[i].sock \in Clients
             /\ link[conns'[i].sock] = "backlog" /\ link'[conns'[i].sock] = "open"
      BY <2>1, <2>2, <3>4, <3>5, <3>6, <3>7
    <3>15. \A i, j \in Active(conns') \ Active(conns) : i = j BY <3>7
    <3>16. spc' # "poll" BY <3>4
    <3> QED BY <1>1, <1>3, <3>10, <3>11, <3>12, <3>13, <3>14, <3>15, <3>16, AcceptKeeps
  <2> QED BY <2>3, <2>4
<1> QED BY <1>1, <1>4, <1>5 DEF Polls

-----------------------------------------------------------------------------
(* The server: the cleanup and the pairing.                                *)

\* After the cleanup a player has the connection it had.
LEMMA CleanedTables ==
  ASSUME Tables, NEW clean, clean = Cleaned
  PROVE  /\ Typed(Clients, clean.conns, clean.players, clean.sessions)
         /\ Seated(clean.players, clean.sessions) /\ Placed(clean.conns, clean.players, NameOf)
         /\ \A i \in Active(clean.conns) : i \in Active(conns) /\ clean.conns[i] = conns[i]
         /\ \A p \in Active(clean.players) :
              p \in Active(players) /\ clean.players[p] = players[p] /\ SockIn(clean, p) = ClientOf(p)
         /\ \A s \in Active(clean.sessions) : s \in Active(sessions) /\ clean.sessions[s] = sessions[s]
         /\ \A p \in Active(players) :
              players[p].con \in Active(clean.conns) => p \in Active(clean.players)
<1>1. /\ Typed(Clients, conns, players, sessions) /\ Seated(players, sessions)
      /\ Placed(conns, players, NameOf)
  BY TablesMean
<1>2. /\ Typed(Clients, clean.conns, clean.players, clean.sessions)
      /\ Seated(clean.players, clean.sessions) /\ Placed(clean.conns, clean.players, NameOf)
      /\ \A i \in Active(clean.conns) : i \in Active(conns) /\ clean.conns[i] = conns[i]
      /\ \A p \in Active(clean.players) : p \in Active(players) /\ clean.players[p] = players[p]
      /\ \A s \in Active(clean.sessions) : s \in Active(sessions) /\ clean.sessions[s] = sessions[s]
      /\ \A p \in Active(players) :
           players[p].con \in Active(clean.conns) => p \in Active(clean.players)
  BY <1>1, CleanedAgrees
<1>3. \A p \in Active(clean.players) : SockIn(clean, p) = ClientOf(p)
  BY <1>2 DEF Placed, SockIn, ClientOf
<1> QED BY <1>2, <1>3

\* what find_pairs sends goes to clients that are connected
LEMMA PairedSends ==
  ASSUME Tables, NEW clean, clean = Cleaned, NEW paired, paired = Paired(clean)
  PROVE  /\ paired.sends \in Sends(Clients)
         /\ \A n \in DOMAIN paired.sends : \E i \in Active(conns) : conns[i].sock = paired.sends[n].to
<1> DEFINE sends == paired.sends
<1>1. /\ Typed(Clients, clean.conns, clean.players, clean.sessions)
      /\ Seated(clean.players, clean.sessions)
      /\ \A p \in Active(clean.players) : p \in Active(players) /\ SockIn(clean, p) = ClientOf(p)
  BY CleanedTables
<1>2. Pairing(Clients, clean, paired) BY ONLY <1>1, paired = Paired(clean), PairedAgrees
<1>3. \A n \in DOMAIN sends :
         /\ sends[n] \in [to : Clients, packet : Packets]
         /\ \E i \in Active(conns) : conns[i].sock = sends[n].to
  <2> TAKE n \in DOMAIN sends
  <2>1. PICK p \in Alone(clean.players), player \in Player :
          sends[n] = To(ClientOf(p), GamePacket(player, NewGame))
    <3>1. PICK p \in Alone(clean.players), player \in Player :
            sends[n] = To(SockIn(clean, p), GamePacket(player, NewGame))
      BY <1>2 DEF Pairing
    <3> QED BY <1>1, <3>1 DEF Alone
  <2>2. p \in Active(players) BY <1>1, <2>1 DEF Alone
  <2>3. PICK d \in Clients : d = ClientOf(p) BY <2>2, TablesMean
  <2>4. players[p].con \in Active(conns) /\ conns[players[p].con].sock = d BY <2>2, <2>3, TablesMean
  <2>5. GamePacket(player, NewGame) \in Packets BY NewGameIsGame DEF Packets
  <2> QED BY <2>1, <2>3, <2>4, <2>5 DEF To
<1>4. sends \in Sends(Clients)
  <2>1. sends = [n \in DOMAIN sends |-> sends[n]] BY DEF Paired
  <2>2. PICK r \in Nat : DOMAIN sends = 1 .. r BY <1>2 DEF Pairing
  <2>3. PICK S : S = [to : Clients, packet : Packets] OBVIOUS
  <2>4. \A n \in 1 .. r : sends[n] \in S BY <1>3, <2>2, <2>3
  <2>5. sends \in [1 .. r -> S] BY <2>1, <2>2, <2>4
  <2>6. sends \in Seq(S) BY <2>2, <2>5
  <2> QED BY <2>3, <2>6 DEF Sends
<1> QED BY <1>3, <1>4

\* A token is given to the first player of a new session, who had none.
LEMMA TestsKeeps == ASSUME IInv, Tests PROVE IInv'
<1>1. spc = "test" /\ todo = {} /\ UNCHANGED <<todo, adding, ppc, g_got_sigint, clientVars, events>>
  BY DEF Tests, IInv, Loop
<1>2. UNCHANGED <<cpc, view>> BY <1>1 DEF clientVars
<1>3. CASE g_got_sigint
  <2>1. spc' = "closing" /\ UNCHANGED <<managed, link, toServer, toClient>> BY <1>3 DEF Tests
  <2>2. TypeOK' BY <1>1, <1>2, <2>1 DEF IInv, TypeOK, ServerTypeOK, TablesTypeOK, managed
  <2>3. Mail' BY <2>1 DEF IInv, Mail
  <2>4. Loop' BY <1>1, <2>1 DEF Loop
  <2>5. SameTables BY <2>1 DEF SameTables, managed
  <2>6. \A x \in Clients : \E e \in Nat : Kept(x, 0, e)
    <3>1. \A x \in Clients : Kept(x, 0, 0) BY <1>2, <2>1, NothingNew
    <3> QED BY <3>1
  <2>7. \A x \in Clients : link[x] \in Unopened => toClient'[x] = <<>>
    BY <2>1 DEF IInv, Links, Unopened
  <2> QED BY <1>2, <2>1, <2>2, <2>3, <2>4, <2>5, <2>6, <2>7, FlagsKeep
<1>4. CASE ~g_got_sigint
  <2>1. PICK clean : clean = Cleaned OBVIOUS
  <2>2. PICK paired : paired = Paired(clean) OBVIOUS
  <2>3. PICK gone : gone = {conns[i].sock : i \in Active(conns) \ Active(clean.conns)} OBVIOUS
  <2>4. /\ spc' = IF paired.ok THEN "poll" ELSE "closing"
        /\ conns' = clean.conns
        /\ players' = paired.players /\ sessions' = paired.sessions
        /\ link' = [c \in Clients |-> IF c \in gone THEN "closed" ELSE link[c]]
        /\ toServer' = [c \in Clients |-> IF c \in gone THEN <<>> ELSE toServer[c]]
        /\ toClient' = Delivered(paired.sends)
    BY <1>4, <2>1, <2>2, <2>3 DEF Tests
  <2> DEFINE sends == paired.sends
  <2>5. /\ Typed(Clients, clean.conns, clean.players, clean.sessions)
        /\ Seated(clean.players, clean.sessions) /\ Placed(clean.conns, clean.players, NameOf)
        /\ \A i \in Active(clean.conns) : i \in Active(conns) /\ clean.conns[i] = conns[i]
        /\ \A p \in Active(clean.players) :
             p \in Active(players) /\ clean.players[p] = players[p] /\ SockIn(clean, p) = ClientOf(p)
        /\ \A s \in Active(clean.sessions) : s \in Active(sessions) /\ clean.sessions[s] = sessions[s]
        /\ \A p \in Active(players) :
             players[p].con \in Active(clean.conns) => p \in Active(clean.players)
    BY <2>1, TablesOf, CleanedTables
  <2>6. \A p, q \in Active(clean.players) : ClientOf(p) = ClientOf(q) => p = q BY <2>5, TablesOf, TablesMean
  <2>7. /\ Typed(Clients, clean.conns, paired.players, paired.sessions)
        /\ Agree(clean.conns, paired.players, paired.sessions)
        /\ Active(paired.players) = Active(clean.players)
        /\ \A p \in Active(clean.players) :
             /\ paired.players[p].con = clean.players[p].con
             /\ clean.players[p].session # -1 => paired.players[p] = clean.players[p]
        /\ \A s \in Active(clean.sessions) :
             s \in Active(paired.sessions) /\ paired.sessions[s] = clean.sessions[s]
        /\ paired.ok => \E q : Alone(paired.players) \subseteq {q}
        /\ \E r \in Nat : DOMAIN sends = 1 .. r
        /\ \A n \in DOMAIN sends :
             /\ \E p \in Alone(clean.players), player \in Player :
                  sends[n] = To(ClientOf(p), GamePacket(player, NewGame))
             /\ AsksForMove(sends[n].packet) => \E p \in Alone(clean.players) :
                  /\ sends[n].to = ClientOf(p) /\ sends[n].packet.game = NewGame
                  /\ paired.players[p].session \in Active(paired.sessions)
                  /\ paired.sessions[paired.players[p].session].p1 = p
                  /\ paired.sessions[paired.players[p].session].game = NewGame
        /\ \A l, n \in DOMAIN sends :
             AsksForMove(sends[l].packet) /\ AsksForMove(sends[n].packet)
               /\ sends[l].to = sends[n].to => l = n
    <3>1. Pairing(Clients, clean, paired) BY ONLY <2>2, <2>5, PairedAgrees
    <3>2. \A p, q \in Active(clean.players) : SockIn(clean, p) = SockIn(clean, q) => p = q
      BY <2>5, <2>6
    <3>3. \A p \in Alone(clean.players) : SockIn(clean, p) = ClientOf(p) BY <2>5 DEF Alone
    <3>4. Agree(clean.conns, paired.players, paired.sessions)
      <4>1. Typed(Clients, clean.conns, paired.players, paired.sessions) /\ Seated(paired.players, paired.sessions)
        BY <3>1 DEF Pairing
      <4>2. Placed(clean.conns, paired.players, NameOf) BY <2>5, <3>1 DEF Pairing, Placed
      <4> QED BY <4>1, <4>2, AgreeIs
    <3>5. /\ Typed(Clients, clean.conns, paired.players, paired.sessions)
          /\ Active(paired.players) = Active(clean.players)
          /\ \A p \in Active(clean.players) :
               /\ paired.players[p].con = clean.players[p].con
               /\ clean.players[p].session # -1 => paired.players[p] = clean.players[p]
          /\ \A s \in Active(clean.sessions) :
               s \in Active(paired.sessions) /\ paired.sessions[s] = clean.sessions[s]
          /\ paired.ok => \E q : Alone(paired.players) \subseteq {q}
          /\ \E r \in Nat : DOMAIN sends = 1 .. r
          /\ \A l, n \in DOMAIN sends :
               AsksForMove(sends[l].packet) /\ AsksForMove(sends[n].packet)
                 /\ sends[l].to = sends[n].to => l = n
      BY <3>1, <3>2 DEF Pairing
    <3>6. \A n \in DOMAIN sends :
            /\ \E p \in Alone(clean.players), player \in Player :
                 sends[n] = To(ClientOf(p), GamePacket(player, NewGame))
            /\ AsksForMove(sends[n].packet) => \E p \in Alone(clean.players) :
                 /\ sends[n].to = ClientOf(p) /\ sends[n].packet.game = NewGame
                 /\ paired.players[p].session \in Active(paired.sessions)
                 /\ paired.sessions[paired.players[p].session].p1 = p
                 /\ paired.sessions[paired.players[p].session].game = NewGame
      <4> TAKE n \in DOMAIN sends
      <4>1. /\ \E p \in Alone(clean.players), player \in Player :
                 sends[n] = To(SockIn(clean, p), GamePacket(player, NewGame))
            /\ AsksForMove(sends[n].packet) => \E p \in Alone(clean.players) :
                 /\ sends[n].to = SockIn(clean, p) /\ sends[n].packet.game = NewGame
                 /\ paired.players[p].session \in Active(paired.sessions)
                 /\ paired.sessions[paired.players[p].session].p1 = p
                 /\ paired.sessions[paired.players[p].session].game = NewGame
        BY <3>1 DEF Pairing
      <4> HIDE DEF sends
      <4> QED BY <3>3, <4>1
    <3> QED BY <3>4, <3>5, <3>6
  <2>8. \A p \in Alone(clean.players) :
          /\ p \in Active(clean.players) /\ p \in Active(players)
          /\ clean.players[p] = players[p] /\ players[p].session = -1
    BY <2>5 DEF Alone
  <2>9. sends \in Sends(Clients) /\ \A n \in DOMAIN sends : \E i \in Active(conns) : conns[i].sock = sends[n].to
    BY <2>1, <2>2, TablesOf, PairedSends
  <2>10. toClient' = Delivered(sends) BY <2>4
  <2>11. /\ toClient' \in [Clients -> Seq(Packets)]
         /\ \A x \in Clients : link[x] \in Unopened => toClient'[x] = <<>>
         /\ \A x \in Clients :
              /\ Asking(x, sends) = {} =>
                   \A k \in Asked(x)' : k + 0 \in Asked(x) /\ toClient'[x][k] = toClient[x][k + 0]
              /\ Asked(x) = {} =>
                   /\ \A k \in Asked(x)' : \E m \in Asking(x, sends) : toClient'[x][k] = sends[m].packet
                   /\ (\A l, m \in Asking(x, sends) : l = m) => \A j, k \in Asked(x)' : j = k
    BY <2>9, <2>10, DeliveredKeeps
  <2>12. /\ toServer' \in [Clients -> Seq(Requests)]
         /\ link' \in [Clients -> {"none", "backlog", "open", "leaked", "closed"}]
         /\ \A x \in Clients : x \notin gone => link'[x] = link[x] /\ toServer'[x] = toServer[x]
         /\ \A x \in Clients : x \in gone => link'[x] = "closed"
    <3>1. <<>> \in Seq(Requests) BY EmptySeq
    <3> QED BY <2>4, <3>1, ClientTypes
  <2>13. Mail' BY <2>11, <2>12 DEF Mail
  <2>14. TypeOK'
    <3>1. TablesTypeOK(Clients)' BY <2>4, <2>7 DEF TablesTypeOK, Typed, ConnRecs, PlayerRecs, SessionRecs
    <3>2. spc' \in {"poll", "closing"} BY <2>4
    <3> QED BY <1>1, <1>2, <2>12, <3>1, <3>2 DEF IInv, TypeOK, ServerTypeOK
  <2>15. Loop' BY <1>1, <2>4 DEF Loop
  <2>16. Settled'
    <3>1. TablesAgree' BY <2>4, <2>7 DEF TablesAgree, SeatsAgree, PlacesAgree, Agree, Seats, ClientOf
    <3>2. ASSUME spc' = "poll" PROVE Cardinality(Unpaired') <= 1
      <4>1. PICK q : Alone(paired.players) \subseteq {q} BY <2>4, <2>7, <3>2
      <4>2. PICK U : U = Unpaired' OBVIOUS
      <4>3. U \subseteq {q} BY <2>4, <4>1, <4>2 DEF Unpaired, Alone
      <4>4. IsFiniteSet({q}) /\ Cardinality({q}) = 1 BY FS_Singleton
      <4>5. Cardinality(U) <= Cardinality({q}) BY <4>3, <4>4, FS_Subset
      <4> QED BY <4>2, <4>4, <4>5
    <3> QED BY <3>1, <3>2 DEF Settled
  <2>17. Active(conns') \subseteq Active(conns) /\ \A i \in Active(conns') : conns'[i] = conns[i]
    BY <2>4, <2>5
  <2>18. \A i \in Active(conns') : conns[i].sock \in Clients /\ conns[i].sock \notin gone
    BY <2>3, <2>4, <2>5 DEF IInv, Links
  <2>19. \A x \in Clients : x \in gone => link[x] = "open" BY <2>3 DEF IInv, Links
  <2>20. ASSUME NEW x \in Clients, x \notin gone, Asking(x, sends) = {} PROVE Kept(x, 0, 0)
    <3>1. toServer'[x] = toServer[x] /\ toServer[x] \in Seq(Requests) BY <2>12, <2>20, ClientTypes
    <3>2. Moved(x)' = Moved(x) /\ \A k \in Moved(x) : k + 0 = k BY <3>1 DEF Moved
    <3> QED BY <1>2, <2>11, <2>20, <3>1, <3>2 DEF Kept, Prompted
  <2>21. Links'
    <3>1. \A i \in Active(conns') : conns'[i].sock \in Clients /\ link'[conns'[i].sock] = "open"
      BY <2>12, <2>17, <2>18 DEF IInv, Links
    <3>2. \A i, j \in Active(conns') : conns'[i].sock = conns'[j].sock => i = j
      BY <2>17 DEF IInv, Links
    <3>3. ASSUME NEW x \in Clients
          PROVE  /\ cpc'[x] = "off" => link'[x] = "none"
                 /\ link'[x] \in Unopened => toClient'[x] = <<>> /\ Tokenless(x)'
      <4>1. /\ cpc[x] = "off" => link[x] = "none"
            /\ link[x] \in Unopened => Tokenless(x)
        BY DEF IInv, Links, Unopened
      <4>2. ASSUME link[x] \in Unopened PROVE x \notin gone /\ Asking(x, sends) = {}
        <5>1. link[x] # "open" BY <4>2 DEF Unopened
        <5>2. \A m \in DOMAIN sends : sends[m].to # x BY <2>9, <5>1 DEF IInv, Links
        <5> QED BY <2>19, <5>1, <5>2 DEF Asking
      <4>3. link'[x] \in Unopened => link[x] \in Unopened BY <2>12 DEF Unopened
      <4>4. link[x] \in Unopened => Tokenless(x)' BY <2>20, <4>1, <4>2, TokenlessStays
      <4>5. cpc[x] = "off" => link'[x] = "none" BY <2>12, <2>19, <4>1
      <4> QED BY <1>2, <2>11, <4>3, <4>4, <4>5
    <3> QED BY <3>1, <3>2, <3>3 DEF Links, Unopened
  <2>22. Tokens'
    <3> SUFFICES ASSUME NEW i \in Active(conns') PROVE TokenAt(i)' BY DEF Tokens
    <3>1. i \in Active(conns) /\ TokenAt(i) /\ conns'[i] = conns[i] BY <2>17 DEF IInv, Tokens
    <3>2. PICK x \in Clients : conns[i].sock = x /\ x \notin gone BY <2>18
    <3>3. CASE Asking(x, sends) = {}
      <4>1. Kept(x, 0, 0) /\ 0 \in Nat BY <2>20, <3>2, <3>3
      <4>2. ASSUME NEW game, MayMove(i, game) PROVE MayMove(i, game)'
        <5>1. PICK p \in Active(players) :
                /\ players[p].con = i /\ players[p].session # -1
                /\ p = Mover(players[p].session)
                /\ game = sessions[players[p].session].game /\ ~game.is_over
          BY <4>2 DEF MayMove
        <5>2. i \in Active(clean.conns) BY <2>4
        <5>3. p \in Active(clean.players) /\ clean.players[p] = players[p] BY <2>5, <5>1, <5>2
        <5>4. p \in Active(paired.players) /\ paired.players[p] = players[p] BY <2>7, <5>1, <5>3
        <5>5. players[p].session \in Active(clean.sessions) BY <2>5, <5>1, <5>3 DEF Seated
        <5>6. paired.sessions[players[p].session] = sessions[players[p].session] BY <2>5, <2>7, <5>5
        <5> QED BY <2>4, <5>1, <5>4, <5>6 DEF MayMove, Mover
      <4> QED BY <2>13, <3>1, <3>2, <4>1, <4>2, TokenStays
    <3>4. CASE Asking(x, sends) # {}
      <4>1. PICK m \in Asking(x, sends) : TRUE BY <3>4
      <4>2. m \in DOMAIN sends /\ sends[m].to = x /\ AsksForMove(sends[m].packet) BY DEF Asking
      <4>3. PICK p \in Alone(clean.players) :
              /\ ClientOf(p) = x
              /\ paired.players[p].session \in Active(paired.sessions)
              /\ paired.sessions[paired.players[p].session].p1 = p
              /\ paired.sessions[paired.players[p].session].game = NewGame
        BY <2>7, <4>2
      <4>4. p \in Active(players) /\ players[p].session = -1 BY <2>8
      <4>5. players[p].con = i
        <5>1. players[p].con \in Active(conns) /\ conns[players[p].con].sock = x BY <4>3, <4>4, TablesOf, TablesMean
        <5> QED BY <3>1, <3>2, <5>1 DEF IInv, Links
      <4>6. \A game : ~MayMove(i, game) BY <4>4, <4>5, TablesOf, TablesMean DEF MayMove
      <4>7. Tokenless(x) BY <3>1, <3>2, <4>6, NotItsTurn
      <4>8. Moved(x)' = {} /\ ~Prompted(x)'
        <5>1. toServer'[x] = toServer[x] BY <2>12, <3>2
        <5> QED BY <1>2, <4>7, <5>1 DEF Tokenless, Moved, Prompted
      <4>9. \A l, n \in Asking(x, sends) : l = n BY <2>7 DEF Asking
      <4>10. \A k, l \in Asked(x)' : k = l BY <2>11, <4>7, <4>9 DEF Tokenless
      <4>11. \A k \in Asked(x)' : toClient'[x][k].game = NewGame
        <5> TAKE k \in Asked(x)'
        <5>1. PICK n \in Asking(x, sends) : toClient'[x][k] = sends[n].packet
          BY <2>11, <4>7 DEF Tokenless
        <5> QED BY <2>7, <5>1 DEF Asking
      <4>12. \E game : game = NewGame /\ MayMove(i, game)'
        <5>1. p \in Active(paired.players) /\ paired.players[p].con = i BY <2>7, <2>8, <4>5
        <5>2. paired.players[p].session # -1
          <6>1. Active(paired.sessions) \subseteq Sessions BY <2>7 DEF Typed, Active
          <6>2. -1 \notin Sessions BY TablesOf, TablesMean
          <6> QED BY <4>3, <6>1, <6>2
        <5>3. PICK game : game = NewGame OBVIOUS
        <5>4. ~game.is_over /\ game.next_player = "X" BY <5>3, NewGameIsGame
        <5>5. MayMove(i, game)' BY <2>4, <4>3, <5>1, <5>2, <5>3, <5>4 DEF MayMove, Mover
        <5> QED BY <5>3, <5>5
      <4>13. conns'[i].sock = x BY <3>1, <3>2
      <4>14. \A k \in Asked(x)' : \E game : game = toClient'[x][k].game /\ MayMove(i, game)'
        BY <4>11, <4>12
      <4> QED BY <4>8, <4>10, <4>13, <4>14 DEF TokenAt, OneToken, MayMove
    <3> QED BY <3>3, <3>4
  <2> QED BY <2>13, <2>14, <2>15, <2>16, <2>21, <2>22 DEF IInv
<1> QED BY <1>3, <1>4

-----------------------------------------------------------------------------
(* The server ends.                                                        *)

\* What the server is about to write goes to clients that are connected.
LEMMA HandledSends ==
  ASSUME Tables, NEW i \in Active(conns), NEW packet \in Requests, NEW sends, sends = Handled(i, packet).sends
  PROVE  /\ sends \in Sends(Clients)
         /\ \A m \in DOMAIN sends : \E j \in Active(conns) : conns[j].sock = sends[m].to
<1>1. PICK c \in Clients : conns[i].sock = c BY TablesMean
<1>2. ASSUME sends = <<>> PROVE sends \in Sends(Clients) /\ DOMAIN sends = {}
  BY <1>2, EmptySeq DEF Sends
<1>3. ASSUME NEW d \in Clients, NEW j \in Active(conns), conns[j].sock = d, NEW ok \in BOOLEAN,
             sends = <<To(d, Status(ok))>>
      PROVE  /\ sends \in Sends(Clients)
             /\ \A m \in DOMAIN sends : \E k \in Active(conns) : conns[k].sock = sends[m].to
  <2>1. PICK status \in Packets : status = Status(ok) BY StatusesAre
  <2>2. sends = <<To(d, status)>> BY <1>3, <2>1
  <2>3. sends \in Sends(Clients) /\ DOMAIN sends = {1} /\ sends[1].to = d BY <2>2, OneSend
  <2> QED BY <1>3, <2>3
<1>4. CASE packet.type = "INIT"
  <2>1. PICK ok \in BOOLEAN : ok = gman_add_player(i, NameOf[conns[i].sock]).ok
    <3>1. PICK name \in STRING : name = NameOf[conns[i].sock] BY TablesMean
    <3>2. gman_add_player(i, name).ok \in BOOLEAN BY TablesMean, AddedAgrees
    <3> QED BY <3>1, <3>2
  <2>2. sends = <<To(c, Status(ok))>> BY <1>1, <1>4, <2>1 DEF Handled
  <2> QED BY <1>1, <1>3, <2>2
<1>5. CASE packet.type = "PING"
  <2>1. sends = <<>> BY <1>5 DEF Handled
  <2> QED BY <1>2, <2>1
<1>6. CASE packet.type = "MOVE"
  <2>1. packet.pos \in Positions BY <1>6 DEF Requests, Ping
  <2>2. PICK pos \in Positions : pos = packet.pos BY <2>1
  <2>3. PICK name, did : name = NameOf[conns[i].sock] /\ did = gman_execute_move(name, pos) OBVIOUS
  <2>4. sends = did.sends BY <1>6, <2>2, <2>3 DEF Handled
  <2>5. \/ did = [sessions |-> sessions, sends |-> <<>>]
        \/ \E p \in Active(players) : \E s \in Active(sessions) :
             \/ did = [sessions |-> sessions, sends |-> <<To(ClientOf(p), Status(FALSE))>>]
             \/ did = [sessions |-> [sessions EXCEPT ![s].game = game_move(sessions[s].game, pos)],
                       sends |-> <<To(ClientOf(p), Status(TRUE))>>
                          \o ShowGame(ClientOf(sessions[s].p1), ClientOf(sessions[s].p2),
                                      game_move(sessions[s].game, pos))]
    <3>1. Seated(players, sessions) BY TablesMean
    <3>2. MoveIs(name, pos, did) BY <2>3, <3>1, MoveCases, Zenon
    <3> QED BY ONLY <3>2, Zenon DEF MoveIs
  <2>6. CASE did = [sessions |-> sessions, sends |-> <<>>] BY <1>2, <2>4, <2>6
  <2>7. ASSUME NEW p \in Active(players),
               did = [sessions |-> sessions, sends |-> <<To(ClientOf(p), Status(FALSE))>>]
        PROVE  /\ sends \in Sends(Clients)
               /\ \A m \in DOMAIN sends : \E j \in Active(conns) : conns[j].sock = sends[m].to
    <3>1. PICK d \in Clients, j \in Active(conns) : d = ClientOf(p) /\ conns[j].sock = d BY TablesMean
    <3>2. sends = <<To(d, Status(FALSE))>> BY <2>4, <2>7, <3>1
    <3>3. FALSE \in BOOLEAN OBVIOUS
    <3> QED BY <1>3, <3>1, <3>2, <3>3
  <2>8. ASSUME NEW p \in Active(players), NEW s \in Active(sessions),
               did = [sessions |-> [sessions EXCEPT ![s].game = game_move(sessions[s].game, pos)],
                      sends |-> <<To(ClientOf(p), Status(TRUE))>>
                         \o ShowGame(ClientOf(sessions[s].p1), ClientOf(sessions[s].p2),
                                     game_move(sessions[s].game, pos))]
        PROVE  /\ sends \in Sends(Clients)
               /\ \A m \in DOMAIN sends : \E j \in Active(conns) : conns[j].sock = sends[m].to
    <3>1. PICK p1, p2 : p1 = sessions[s].p1 /\ p2 = sessions[s].p2 OBVIOUS
    <3>2. p1 \in Active(players) /\ p2 \in Active(players) BY <3>1, TablesMean DEF Agree
    <3>3. PICK d \in Clients, j \in Active(conns) : d = ClientOf(p) /\ conns[j].sock = d BY TablesMean
    <3>4. PICK d1 \in Clients, j1 \in Active(conns) : d1 = ClientOf(p1) /\ conns[j1].sock = d1
      BY <3>2, TablesMean
    <3>5. PICK d2 \in Clients, j2 \in Active(conns) : d2 = ClientOf(p2) /\ conns[j2].sock = d2
      BY <3>2, TablesMean
    <3>6. PICK game : game = sessions[s].game OBVIOUS
    <3>7. game \in Game BY <3>6, TablesMean DEF Typed, SessionRecs
    <3>8. PICK next \in Game : next = game_move(game, pos) BY <3>7, MoveIsGame
    <3>9. PICK status \in Packets : status = Status(TRUE) /\ ~AsksForMove(status) BY StatusesAre
    <3>10. Shown(sends, d, status, d1, d2, next)
      BY <2>4, <2>8, <3>1, <3>3, <3>4, <3>5, <3>6, <3>8, <3>9 DEF Shown
    <3>11. /\ sends \in Sends(Clients) /\ DOMAIN sends = {1, 2, 3}
           /\ sends[1].to = d /\ sends[2].to = d1 /\ sends[3].to = d2
      <4>1. ~AsksForMove(status) BY <3>9
      <4> QED
        BY ONLY d \in Clients, d1 \in Clients, d2 \in Clients, next \in Game, status \in Packets,
           <3>10, <4>1, ShowsAre
    <3> QED BY <3>3, <3>4, <3>5, <3>11
  <2> QED BY <2>5, <2>6, <2>7, <2>8
<1>7. packet.type \in {"INIT", "MOVE", "PING"} BY DEF Requests, Ping
<1> QED BY <1>4, <1>5, <1>6, <1>7

LEMMA NextWritesAre ==
  ASSUME IInv, NEW sends \in NextWrites
  PROVE  /\ sends \in Sends(Clients)
         /\ \A m \in DOMAIN sends : \E j \in Active(conns) : conns[j].sock = sends[m].to
<1>1. CASE sends = Paired(Cleaned).sends
  <2>1. PICK clean : clean = Cleaned OBVIOUS
  <2>2. PICK paired : paired = Paired(clean) OBVIOUS
  <2>3. sends = paired.sends BY <1>1, <2>1, <2>2
  <2> QED BY <2>1, <2>2, <2>3, TablesOf, PairedSends
<1>2. ASSUME NEW i \in todo, toServer[conns[i].sock] # <<>>,
             sends = Handled(i, Head(toServer[conns[i].sock])).sends
      PROVE  /\ sends \in Sends(Clients)
             /\ \A m \in DOMAIN sends : \E j \in Active(conns) : conns[j].sock = sends[m].to
  <2>1. i \in Active(conns) BY DEF IInv, TypeOK, ServerTypeOK
  <2>2. PICK c \in Clients : conns[i].sock = c BY <2>1, TablesOf, TablesMean
  <2>3. toServer[c] \in Seq(Requests) BY ClientTypes
  <2>4. PICK packet : packet = Head(toServer[c]) OBVIOUS
  <2>5. packet \in Requests BY <1>2, <2>2, <2>3, <2>4, TailIs
  <2>6. sends = Handled(i, packet).sends BY <1>2, <2>2, <2>4
  <2> QED BY <2>1, <2>5, <2>6, TablesOf, HandledSends
<1>3. ASSUME NEW i \in Conns, Pinged(i), sends = <<To(conns[i].sock, Ping)>>
      PROVE  /\ sends \in Sends(Clients)
             /\ \A m \in DOMAIN sends : \E j \in Active(conns) : conns[j].sock = sends[m].to
  <2>1. i \in Active(conns) BY <1>3, TablesOf, TablesMean DEF Pinged, Active, Typed
  <2>2. PICK c \in Clients : conns[i].sock = c BY <2>1, TablesOf, TablesMean
  <2>3. PICK packet \in Packets : packet = Ping BY DEF Packets
  <2>4. sends = <<To(c, packet)>> BY <1>3, <2>2, <2>3
  <2>5. sends \in Sends(Clients) /\ DOMAIN sends = {1} /\ sends[1].to = c BY <2>4, OneSend
  <2> QED BY <2>1, <2>2, <2>5
<1> QED BY <1>1, <1>2, <1>3 DEF NextWrites

\* No connection and no player is left, and what was on its way to the server is gone.
LEMMA EndsKeep ==
  ASSUME IInv, ServerEnds, toClient' \in [Clients -> Seq(Packets)],
         \A x \in Clients : link[x] \in Unopened => toClient'[x] = <<>>
  PROVE  IInv'
<1>1. /\ spc' = "gone" /\ ppc' = -1
      /\ conns' = NoConns /\ players' = NoPlayers /\ sessions' = NoSessions
      /\ todo' = {} /\ adding' = -1
      /\ link' = [c \in Clients |-> IF link[c] = "none" THEN "none" ELSE "closed"]
      /\ toServer' = [c \in Clients |-> <<>>]
      /\ UNCHANGED <<g_got_sigint, cpc, view, events>>
  BY DEF ServerEnds, clientVars
<1>2. Active(NoConns) = {} BY DEF Active, NoConns, NoConn
<1>3. Mail'
  <2>1. <<>> \in Seq(Requests) BY EmptySeq
  <2> QED BY <1>1, <2>1 DEF Mail
<1>4. TypeOK'
  <2>1. TablesTypeOK(Clients)'
    BY <1>1, NothingIsTyped DEF TablesTypeOK, Typed, ConnRecs, PlayerRecs, SessionRecs
  <2>2. link' \in [Clients -> {"none", "backlog", "open", "leaked", "closed"}] BY <1>1
  <2>3. todo' \subseteq Active(conns') BY <1>1
  <2> QED BY <1>1, <2>1, <2>2, <2>3 DEF IInv, TypeOK, ServerTypeOK
<1>5. Loop' BY <1>1 DEF Loop
<1>6. Settled'
  <2>1. TablesAgree' BY <1>1, NothingIsTyped DEF TablesAgree, SeatsAgree, PlacesAgree, Agree, Seats, ClientOf
  <2> QED BY <1>1, <2>1 DEF Settled
<1>7. Links'
  <2>1. ASSUME NEW x \in Clients
        PROVE  /\ cpc'[x] = "off" => link'[x] = "none"
               /\ link'[x] \in Unopened => toClient'[x] = <<>> /\ Tokenless(x)'
    <3>1. cpc[x] = "off" => link[x] = "none" BY DEF IInv, Links
    <3>2. ASSUME link'[x] \in Unopened PROVE toClient'[x] = <<>> /\ Tokenless(x)'
      <4>1. link[x] = "none" BY <1>1, <3>2 DEF Unopened
      <4>2. toClient'[x] = <<>> /\ ~Prompted(x) BY <4>1 DEF IInv, Links, Tokenless, Unopened
      <4>3. toServer'[x] = <<>> BY <1>1
      <4>4. Asked(x)' = {} /\ Moved(x)' = {} /\ ~Prompted(x)'
        BY <1>1, <4>2, <4>3 DEF Asked, Moved, Prompted
      <4> QED BY <4>2, <4>4 DEF Tokenless
    <3> QED BY <1>1, <3>1, <3>2
  <2> QED BY <1>1, <1>2, <2>1 DEF Links, Unopened
<1>8. Tokens' BY <1>1, <1>2 DEF Tokens
<1> QED BY <1>3, <1>4, <1>5, <1>6, <1>7, <1>8 DEF IInv

LEMMA ClosesKeeps == ASSUME IInv, Closes PROVE IInv'
<1>1. ServerEnds /\ toClient' = toClient BY DEF Closes
<1>2. toClient' \in [Clients -> Seq(Packets)] BY <1>1, ClientTypes
<1>3. \A x \in Clients : link[x] \in Unopened => toClient'[x] = <<>>
  BY <1>1 DEF IInv, Links, Unopened
<1> QED BY <1>1, <1>2, <1>3, EndsKeep

LEMMA SigpipeKeeps == ASSUME IInv, Sigpipe PROVE IInv'
<1>1. PICK all \in NextWrites : \E k \in DOMAIN all : toClient' = Delivered(SubSeq(all, 1, k - 1))
  BY DEF Sigpipe
<1>2. PICK k \in DOMAIN all : toClient' = Delivered(SubSeq(all, 1, k - 1)) BY <1>1
<1>3. /\ all \in Sends(Clients)
      /\ \A m \in DOMAIN all : \E j \in Active(conns) : conns[j].sock = all[m].to
  BY NextWritesAre
<1>4. PICK S : S = [to : Clients, packet : Packets] OBVIOUS
<1>5. all \in Seq(S) /\ Len(all) \in Nat /\ DOMAIN all = 1 .. Len(all) BY <1>3, <1>4 DEF Sends
<1>6. PICK sends : sends = SubSeq(all, 1, k - 1) OBVIOUS
<1>7. sends \in Seq(S) /\ DOMAIN sends = 1 .. k - 1 /\ \A m \in 1 .. k - 1 : sends[m] = all[m]
  BY <1>5, <1>6
<1>8. \A m \in DOMAIN sends : m \in DOMAIN all /\ sends[m] = all[m] BY <1>5, <1>7
<1>9. sends \in Sends(Clients) /\ toClient' = Delivered(sends) BY <1>2, <1>4, <1>6, <1>7 DEF Sends
<1>10. \A m \in DOMAIN sends : \E j \in Active(conns) : conns[j].sock = sends[m].to
  BY <1>3, <1>8
<1>11. /\ toClient' \in [Clients -> Seq(Packets)]
       /\ \A x \in Clients : link[x] \in Unopened => toClient'[x] = <<>>
  BY <1>9, <1>10, DeliveredKeeps
<1> QED BY <1>11, EndsKeep DEF Sigpipe

-----------------------------------------------------------------------------
(* The specification.                                                      *)

LEMMA InitHolds == ASSUME Init PROVE IInv
<1>1. /\ spc = "test" /\ todo = {} /\ adding = -1 /\ g_got_sigint = FALSE
      /\ conns = NoConns /\ players = NoPlayers /\ sessions = NoSessions
      /\ ppc = 0 /\ events = 0
      /\ link = [c \in Clients |-> "none"] /\ cpc = [c \in Clients |-> "off"]
      /\ view = [c \in Clients |-> NewGame]
      /\ toServer = [c \in Clients |-> <<>>] /\ toClient = [c \in Clients |-> <<>>]
  BY DEF Init
<1>2. Active(conns) = {} BY <1>1 DEF Active, NoConns, NoConn
<1>3. TypeOK
  <2>1. TablesTypeOK(Clients) BY <1>1, NothingIsTyped, TablesAre
  <2>2. 0 \in Conns BY SizesAssumption DEF Conns
  <2> QED BY <1>1, <2>1, <2>2, NewGameIsGame DEF TypeOK, ServerTypeOK
<1>4. Mail
  <2>1. <<>> \in Seq(Requests) /\ <<>> \in Seq(Packets) BY EmptySeq
  <2> QED BY <1>1, <2>1 DEF Mail
<1>5. Loop BY <1>1 DEF Loop
<1>6. Settled
  <2>1. TablesAgree BY <1>1, NothingIsTyped, TablesAre
  <2> QED BY <1>1, <2>1 DEF Settled
<1>7. Links
  <2>1. ASSUME NEW x \in Clients PROVE toClient[x] = <<>> /\ Tokenless(x) /\ link[x] = "none"
    <3>1. toClient[x] = <<>> /\ toServer[x] = <<>> /\ cpc[x] = "off" /\ link[x] = "none" BY <1>1
    <3> QED BY <3>1 DEF Tokenless, Asked, Moved, Prompted
  <2> QED BY <1>2, <2>1 DEF Links
<1>8. Tokens BY <1>2 DEF Tokens
<1> QED BY <1>3, <1>4, <1>5, <1>6, <1>7, <1>8 DEF IInv

LEMMA StutterKeeps == ASSUME IInv, UNCHANGED vars PROVE IInv'
<1>1. /\ UNCHANGED <<spc, conns, players, sessions, todo, adding, ppc, g_got_sigint>>
      /\ UNCHANGED <<link, cpc, view, toServer, toClient, events>>
  BY DEF vars, managed, clientVars
<1>2. TypeOK' BY <1>1 DEF IInv, TypeOK, ServerTypeOK, TablesTypeOK
<1>3. Mail' BY <1>1 DEF IInv, Mail
<1>4. Loop' BY <1>1 DEF IInv, Loop
<1>5. SameTables BY <1>1 DEF SameTables
<1>6. \A x \in Clients : \E e \in Nat : Kept(x, 0, e)
  <2>1. \A x \in Clients : Kept(x, 0, 0) BY <1>1, NothingNew
  <2> QED BY <2>1
<1>7. \A x \in Clients : link[x] \in Unopened => toClient'[x] = <<>>
  BY <1>1 DEF IInv, Links, Unopened
<1> QED BY <1>1, <1>2, <1>3, <1>4, <1>5, <1>6, <1>7, FlagsKeep

\* Every step keeps the tables in agreement and the token single.
LEMMA StepKeeps == ASSUME IInv, [Next]_vars PROVE IInv'
<1>1. CASE Tests BY <1>1, TestsKeeps
<1>2. CASE Polls BY <1>2, PollsKeeps
<1>3. CASE Adds BY <1>3, AddsKeeps
<1>4. CASE Reads BY <1>4, ReadsKeeps
<1>5. CASE Closes BY <1>5, ClosesKeeps
<1>6. CASE Pings BY <1>6, PingsKeeps
<1>7. CASE Sigpipe BY <1>7, SigpipeKeeps
<1>8. CASE Sigint BY <1>8, SigintKeeps
<1>9. ASSUME NEW c \in Clients, ClientStep(c) \/ Moves(c) \/ Quits(c) \/ Stops(c) PROVE IInv'
  <2>1. CASE LogsIn(c) BY <2>1, LogsInKeeps
  <2>2. CASE Answers(c) BY <2>2, AnswersKeeps
  <2>3. CASE Receives(c) BY <2>3, ReceivesKeeps
  <2>4. CASE HangsUp(c) BY <2>4, HangsUpKeeps
  <2>5. CASE Moves(c) BY <2>5, MovesKeeps
  <2>6. CASE Quits(c) BY <2>6, QuitsKeeps
  <2>7. CASE Stops(c) BY <2>7, StopsKeeps
  <2> QED BY <1>9, <2>1, <2>2, <2>3, <2>4, <2>5, <2>6, <2>7 DEF ClientStep
<1>10. CASE UNCHANGED vars BY <1>10, StutterKeeps
<1> QED
  BY <1>1, <1>2, <1>3, <1>4, <1>5, <1>6, <1>7, <1>8, <1>9, <1>10 DEF Next, ServerStep

LEMMA InvariantHolds == Spec => []IInv
<1>1. Init => IInv BY InitHolds
<1>2. IInv /\ [Next]_vars => IInv' BY StepKeeps
<1> QED BY <1>1, <1>2, PTL DEF Spec

\* Whatever the clients, the pinger and the signals do, every part of the state has its
\* type, and server_loop looks only at connections in use.
THEOREM TypeCorrect == Spec => []TypeOK
<1>1. IInv => TypeOK BY DEF IInv
<1> QED BY <1>1, InvariantHolds, PTL

\* The cleanup passes of the loop leave no dangling index: whoever goes, and whenever, a
\* player has its connection, a session its two players, and nobody two of either; and the
\* server goes to poll with one player waiting at most.
THEOREM TablesStayConsistent == Spec => []RegistryConsistent
<1>1. IInv => RegistryConsistent 
  BY DEF IInv, TypeOK, Links, Settled, TablesAgree, RegistryConsistent, OneConnectionEach, OneWaits
<1> QED BY <1>1, InvariantHolds, PTL

\* gman_execute_move takes a mover by name and does not ask whose turn it is, and need not:
\* each MOVE on its way to the server is of a seated player, in its turn, to a free field.
THEOREM NoMoveIsRefused == Spec => []MovesAreLegal
<1>1. ASSUME IInv PROVE MovesAreLegal
  <2> SUFFICES ASSUME NEW i \in Active(conns), NEW k \in DOMAIN toServer[conns[i].sock],
                      toServer[conns[i].sock][k].type = "MOVE"
               PROVE  \E p \in Active(players) :
                        /\ players[p].con = i /\ players[p].session # -1
                        /\ Legal(sessions[players[p].session].game, toServer[conns[i].sock][k].pos)
                        /\ p = IF sessions[players[p].session].game.next_player = "X"
                               THEN sessions[players[p].session].p1
                               ELSE sessions[players[p].session].p2
    BY DEF MovesAreLegal
  <2>1. k \in Moved(conns[i].sock) BY DEF Moved
  <2>2. TokenAt(i) BY <1>1 DEF IInv, Tokens
  <2>3. PICK game : MayMove(i, game) /\ Legal(game, toServer[conns[i].sock][k].pos)
    BY <2>1, <2>2 DEF TokenAt
  <2> QED BY <2>3 DEF MayMove, Mover
<1> QED BY <1>1, InvariantHolds, PTL

-----------------------------------------------------------------------------
(* The datagram server.  What it shares with the stream server goes by the *)
(* same names; this is the rest.                                           *)

CONSTANTS OnUnix, Paths, Ports
VARIABLES datagram, received, holder, inherited, interrupted

D == INSTANCE GameDatagram

-----------------------------------------------------------------------------
(* The game manager of the datagram server is the same one.                *)

LEMMA SameRules ==
  /\ D!NewGame = NewGame /\ D!Game = Game
  /\ \A game, pos : D!Legal(game, pos) = Legal(game, pos)
  /\ \A game, pos : D!game_move(game, pos) = game_move(game, pos)
<1>1. D!NewGame = NewGame /\ D!Game = Game
  BY DEF D!NewGame, NewGame, D!Game, Game, D!Field, Field, D!Winner, Winner, D!Player, Player
<1>2. \A game, pos : D!Legal(game, pos) = Legal(game, pos) BY DEF D!Legal, Legal
<1>3. \A game, pos : D!game_move(game, pos) = game_move(game, pos)
  BY Zenon DEF D!game_move, game_move, D!update_game_winner, update_game_winner, D!Full, Full,
     D!Owners, Owners, D!Opponent, Opponent, D!Player, Player
<1> QED BY <1>1, <1>2, <1>3

LEMMA SameTypes ==
  /\ D!Conns = Conns /\ D!Players = Players /\ D!Sessions = Sessions
  /\ D!NoConn = NoConn /\ D!NoPlayer = NoPlayer /\ D!NoSession = NoSession
  /\ D!NoConns = NoConns /\ D!NoPlayers = NoPlayers /\ D!NoSessions = NoSessions
BY SameRules
   DEF D!Conns, Conns, D!Players, Players, D!Sessions, Sessions, D!NoConn, NoConn, D!NoPlayer,
       NoPlayer, D!NoSession, NoSession, D!NoConns, NoConns, D!NoPlayers, NoPlayers, D!NoSessions,
       NoSessions

\* sets, numbers and sequences
LEMMA SameLibrary ==
  /\ \A S : D!Cardinality(S) = Cardinality(S)
  /\ \A S : D!Min(S) = Min(S) /\ D!Max(S) = Max(S)
  /\ \A S : D!InOrder(S) = InOrder(S)
  /\ \A c, sends : D!SentTo(c, sends) = SentTo(c, sends)
<1>1. \A S : D!Cardinality(S) = Cardinality(S) BY DEF D!Cardinality, Cardinality
<1>2. \A S : D!Min(S) = Min(S) /\ D!Max(S) = Max(S) BY DEF D!Min, Min, D!Max, Max
<1>3. \A S : D!InOrder(S) = InOrder(S) BY <1>1, Zenon DEF D!InOrder, InOrder
<1>4. \A c, sends : D!SentTo(c, sends) = SentTo(c, sends) BY <1>3, Zenon DEF D!SentTo, SentTo
<1> QED BY <1>1, <1>2, <1>3, <1>4

LEMMA SamePackets ==
  /\ D!Ping = Ping
  /\ \A ok : D!Status(ok) = Status(ok)
  /\ \A c, packet : D!To(c, packet) = To(c, packet)
  /\ \A c, d, game : D!ShowGame(c, d, game) = ShowGame(c, d, game)
BY Zenon
   DEF D!Ping, Ping, D!Status, Status, D!To, To, D!ShowGame, ShowGame, D!GamePacket, GamePacket

LEMMA SameAgreement ==
  /\ \A table : D!Active(table) = Active(table)
  /\ \A p : D!ClientOf(p) = ClientOf(p)
  /\ D!Unpaired = Unpaired /\ D!SeatsAgree = SeatsAgree
  /\ \A peers : D!TablesTypeOK(peers) = TablesTypeOK(peers)
<1>1. \A table : D!Active(table) = Active(table) BY DEF D!Active, Active
<1>2. \A p : D!ClientOf(p) = ClientOf(p) BY DEF D!ClientOf, ClientOf
<1>3. D!Unpaired = Unpaired BY <1>1, Zenon DEF D!Unpaired, Unpaired
<1>4. D!SeatsAgree = SeatsAgree BY <1>1, Zenon DEF D!SeatsAgree, SeatsAgree, D!Seats, Seats
<1>5. \A peers : D!TablesTypeOK(peers) = TablesTypeOK(peers)
  BY SameTypes, SameRules, Zenon DEF D!TablesTypeOK, TablesTypeOK
<1> QED BY <1>1, <1>2, <1>3, <1>4, <1>5

LEMMA SameManager ==
  /\ D!Cleaned = Cleaned
  /\ \A clean : D!Paired(clean) = Paired(clean)
  /\ \A i, name : D!gman_add_player(i, name) = gman_add_player(i, name)
  /\ \A name, pos : D!gman_execute_move(name, pos) = gman_execute_move(name, pos)
<1>1. D!Cleaned = Cleaned
  BY Zenon DEF D!Cleaned, D!Active, D!ConnectionsOf, D!NoConn, D!NoPlayer, D!NoSession, D!Conns,
     D!Players, D!Sessions, D!NewGame, Cleaned, Active, ConnectionsOf, NoConn, NoPlayer, NoSession,
     Conns, Players, Sessions, NewGame
<1>2. \A clean : D!Pairs(clean) = Pairs(clean)
  BY SameAgreement, SameLibrary, Zenon DEF D!Pairs, Pairs
<1>3. ASSUME NEW clean PROVE D!Paired(clean) = Paired(clean)
  <2>1. D!NewGame = NewGame BY SameRules
  <2>2. D!Players = Players /\ D!Sessions = Sessions BY SameTypes
  <2>3. \A S : D!Cardinality(S) = Cardinality(S) BY SameLibrary
  <2>4. \A S : D!InOrder(S) = InOrder(S) BY SameLibrary
  <2>5. \A c, d, game : D!ShowGame(c, d, game) = ShowGame(c, d, game) BY SamePackets
  <2>6. \A table : D!Active(table) = Active(table) BY SameAgreement
  <2> QED BY ONLY <1>2, <2>1, <2>2, <2>3, <2>4, <2>5, <2>6, Zenon DEF D!Paired, Paired
<1>4. \A i, name : D!gman_add_player(i, name) = gman_add_player(i, name)
  BY SameTypes, SameLibrary, SameAgreement DEF D!gman_add_player, gman_add_player
<1>5. ASSUME NEW name, NEW pos PROVE D!gman_execute_move(name, pos) = gman_execute_move(name, pos)
  <2> DEFINE named == {p \in Active(players) : players[p].name = name}
             p == CHOOSE q \in named : TRUE
             s == players[p].session
             game == sessions[s].game
             next == game_move(game, pos)
             did == [sessions |-> [sessions EXCEPT ![s].game = next],
                     sends |-> <<To(ClientOf(p), Status(TRUE))>>
                               \o ShowGame(ClientOf(sessions[s].p1), ClientOf(sessions[s].p2), next)]
             refused == [sessions |-> sessions, sends |-> <<To(ClientOf(p), Status(FALSE))>>]
             all == IF named = {} \/ s = -1
                    THEN [sessions |-> sessions, sends |-> <<>>]
                    ELSE IF Legal(game, pos) THEN did ELSE refused
  <2>1. gman_execute_move(name, pos) = all BY Zenon DEF gman_execute_move
  <2>2. D!Active(players) = Active(players) BY SameAgreement
  <2>3. D!game_move(game, pos) = next /\ D!Legal(game, pos) = Legal(game, pos) BY SameRules
  <2>4. /\ D!To(D!ClientOf(p), D!Status(TRUE)) = To(ClientOf(p), Status(TRUE))
        /\ D!To(D!ClientOf(p), D!Status(FALSE)) = To(ClientOf(p), Status(FALSE))
    BY Zenon DEF D!To, To, D!ClientOf, ClientOf, D!Status, Status
  <2>5. D!ShowGame(D!ClientOf(sessions[s].p1), D!ClientOf(sessions[s].p2), next)
          = ShowGame(ClientOf(sessions[s].p1), ClientOf(sessions[s].p2), next)
    BY Zenon DEF D!ShowGame, ShowGame, D!To, To, D!GamePacket, GamePacket, D!ClientOf, ClientOf
  <2>6. D!gman_execute_move(name, pos) = all
    BY <2>2, <2>3, <2>4, <2>5, Zenon DEF D!gman_execute_move
  <2> HIDE DEF all
  <2> QED BY <2>1, <2>6
<1> QED BY <1>1, <1>3, <1>4, <1>5, Zenon

-----------------------------------------------------------------------------
(* The datagram server.                                                    *)

DRequests ==
  [type : {"INIT"}, name : STRING] \cup [type : {"MOVE"}, name : STRING, pos : Positions] \cup {Ping}

Datagrams == [from : D!Addresses, packet : DRequests]

Phases == {"off", "login", "wait", "turn", "status", "stopped", "closed"}

ServerSockets == {"net", "unix"}

DatagramTypes ==
  /\ spc \in {"test", "poll", "add", "handle", "closing", "gone"}
  /\ datagram.from \in D!Addresses \cup {Nobody}
  /\ adding \in Conns \cup {-1} /\ ppc \in Conns \cup {-1} /\ g_got_sigint \in BOOLEAN
  /\ cpc \in [Clients -> Phases] /\ view \in [Clients -> Game] /\ interrupted \subseteq Clients
  /\ holder \in [D!Addresses -> Clients \cup {Nobody}] /\ inherited \in BOOLEAN

DatagramMail ==
  received \in [ServerSockets -> Seq(Datagrams)] /\ toClient \in [Clients -> Seq(Packets)]

\* the tables, and their connections have addresses
Seating ==
  /\ Typed(D!Addresses, conns, players, sessions) /\ Seated(players, sessions)
  /\ \A i \in Active(conns) : conns[i].sock \in D!Addresses

\* the datagram that is handled has a connection
Handling ==
  /\ spc \in {"add", "handle"} =>
       datagram \in Datagrams /\ \E i \in Active(conns) : conns[i].sock = datagram.from
  /\ spc = "add" => adding \in Active(conns)

\* a client that runs has an address
Holding == \A c \in Clients : D!Runs(c) => \E a \in D!Addresses : holder[a] = c

\* Until an address is inherited, whoever logs in from it is the one who has it, and so is
\* the player at its connection.
Own(gram) == gram.packet.type = "INIT" => gram.packet.name = NameOf[holder[gram.from]]

HolderNames == [a \in D!Addresses |-> NameOf[holder[a]]]

Named ==
  ~inherited =>
    /\ \A s \in ServerSockets : \A k \in DOMAIN received[s] : Own(received[s][k])
    /\ spc \in {"add", "handle"} => Own(datagram)
    /\ Placed(conns, players, HolderNames)

DInv ==
  /\ DatagramTypes /\ DatagramMail /\ Seating /\ Handling /\ Holding /\ Named
  /\ OneConnectionEach /\ OneWaits

LEMMA DInvMeans == ASSUME DInv PROVE D!AddressesConsistent
<1>1. D!ServerTypeOK(D!Addresses)
  <2>1. D!TablesTypeOK(D!Addresses) BY TablesAre, SameAgreement DEF DInv, Seating
  <2>2. D!Conns = Conns /\ D!Game = Game BY SameTypes, SameRules
  <2> QED BY <2>1, <2>2 DEF DInv, DatagramTypes, Phases, D!ServerTypeOK
<1>2. D!SeatsAgree
  <2>1. SeatsAgree BY DEF DInv, Seating, Seated, SeatsAgree, Seats
  <2> QED BY <2>1, SameAgreement
<1>3. D!OneConnectionEach /\ D!OneWaits
  <2>1. D!Active(conns) = Active(conns) /\ D!Unpaired = Unpaired /\ D!Cardinality(Unpaired) = Cardinality(Unpaired)
    BY SameAgreement, SameLibrary
  <2> QED BY <2>1 DEF DInv, OneConnectionEach, OneWaits, D!OneConnectionEach, D!OneWaits
<1>4. ASSUME ~inherited PROVE D!PlacesAgree
  <2>1. Placed(conns, players, HolderNames) BY <1>4 DEF DInv, Named
  <2>2. D!Active(conns) = Active(conns) /\ D!Active(players) = Active(players) BY SameAgreement
  <2>3. ASSUME NEW p \in Active(players)
        PROVE  players[p].con \in Active(conns) /\ players[p].name = NameOf[holder[D!ClientOf(p)]]
    <3>1. players[p].con \in Active(conns) /\ players[p].name = HolderNames[conns[players[p].con].sock]
      BY <2>1 DEF Placed
    <3>2. PICK a \in D!Addresses : a = conns[players[p].con].sock BY <3>1 DEF DInv, Seating
    <3>3. HolderNames[a] = NameOf[holder[a]] BY DEF HolderNames
    <3>4. D!ClientOf(p) = a BY <3>2 DEF D!ClientOf
    <3> QED BY <3>1, <3>2, <3>3, <3>4
  <2> QED BY <2>2, <2>3 DEF D!PlacesAgree
<1> QED BY <1>1, <1>2, <1>3, <1>4 DEF D!AddressesConsistent

LEMMA DTypesOf ==
  ASSUME DInv
  PROVE  /\ received \in [ServerSockets -> Seq(Datagrams)] /\ toClient \in [Clients -> Seq(Packets)]
         /\ cpc \in [Clients -> Phases] /\ view \in [Clients -> Game] /\ interrupted \subseteq Clients
         /\ holder \in [D!Addresses -> Clients \cup {Nobody}] /\ inherited \in BOOLEAN
         /\ NewGame \in Game /\ D!NewGame = NewGame /\ Ping \in DRequests /\ D!Ping = Ping
BY NewGameIsGame, SameRules, SamePackets DEF DInv, DatagramTypes, DatagramMail, DRequests

LEMMA DMeans ==
  ASSUME DInv
  PROVE  /\ Typed(D!Addresses, conns, players, sessions) /\ Seated(players, sessions)
         /\ conns \in [Conns -> ConnRecs(D!Addresses)] /\ Active(conns) \subseteq Conns
         /\ \A i \in Active(conns) : conns[i].sock \in D!Addresses
         /\ spc \in {"test", "poll", "add", "handle", "closing", "gone"}
         /\ datagram.from \in D!Addresses \cup {Nobody}
         /\ adding \in Conns \cup {-1} /\ ppc \in Conns \cup {-1} /\ g_got_sigint \in BOOLEAN
BY DEF DInv, Seating, Typed, Active, DatagramTypes

\* every login received was received before
NoLogin ==
  \A s \in ServerSockets : \A k \in DOMAIN received'[s] :
    received'[s][k].packet.type = "INIT" => \E l \in DOMAIN received[s] : received'[s][k] = received[s][l]

LEMMA NamedKeeps ==
  ASSUME Named, UNCHANGED <<holder, inherited>>, NoLogin,
         spc' \in {"add", "handle"} =>
           \/ datagram' = datagram /\ spc \in {"add", "handle"}
           \/ \E s \in ServerSockets : \E k \in DOMAIN received[s] : datagram' = received[s][k],
         ~inherited => (Placed(conns, players, HolderNames) => Placed(conns', players', HolderNames))
  PROVE  Named'
<1> SUFFICES ASSUME ~inherited'
             PROVE  /\ \A s \in ServerSockets : \A k \in DOMAIN received'[s] : Own(received[s][k])'
                    /\ spc' \in {"add", "handle"} => Own(datagram)'
                    /\ Placed(conns, players, HolderNames)'
  BY DEF Named
<1>1. /\ \A s \in ServerSockets : \A k \in DOMAIN received[s] : Own(received[s][k])
      /\ spc \in {"add", "handle"} => Own(datagram)
      /\ Placed(conns, players, HolderNames)
  BY DEF Named
<1>2. HolderNames' = HolderNames BY DEF HolderNames
<1>3. ASSUME NEW s \in ServerSockets, NEW k \in DOMAIN received'[s] PROVE Own(received[s][k])'
  BY <1>1, <1>3 DEF Own, NoLogin
<1>4. ASSUME spc' \in {"add", "handle"} PROVE Own(datagram)'
  BY <1>1, <1>4 DEF Own
<1>5. Placed(conns, players, HolderNames)'
  <2>1. PICK names : names = HolderNames OBVIOUS
  <2>2. HolderNames' = names BY <1>2, <2>1
  <2>3. Placed(conns', players', names) BY <1>1, <2>1
  <2> QED BY <2>2, <2>3 DEF Placed
<1> QED BY <1>3, <1>4, <1>5

\* the steps of the clients leave the tables alone
LEMMA DClientKeeps ==
  ASSUME DInv, UNCHANGED D!serverVars, UNCHANGED D!holderVars, DatagramMail', NoLogin,
         cpc' \in [Clients -> Phases], view' \in [Clients -> Game], interrupted' \subseteq Clients,
         \A c \in Clients : cpc'[c] \notin {"off", "closed"} => cpc[c] \notin {"off", "closed"}
  PROVE  DInv'
<1>1. UNCHANGED <<spc, datagram, adding, conns, players, sessions, ppc, g_got_sigint, holder, inherited>>
  BY DEF D!serverVars, D!loopVars, D!managed, D!pingerVars, D!holderVars
<1>2. DatagramTypes' BY <1>1 DEF DInv, DatagramTypes
<1>3. Seating' BY <1>1 DEF DInv, Seating
<1>4. Handling' BY <1>1 DEF DInv, Handling
<1>5. Holding' BY <1>1 DEF DInv, Holding, D!Runs
<1>6. Named' BY <1>1, NamedKeeps DEF DInv
<1>7. OneConnectionEach' BY <1>1 DEF DInv, OneConnectionEach
<1>8. OneWaits'
  <2>1. Unpaired' = Unpaired BY <1>1 DEF Unpaired
  <2> QED BY <1>1, <2>1 DEF DInv, OneWaits
<1> QED BY <1>2, <1>3, <1>4, <1>5, <1>6, <1>7, <1>8 DEF DInv

LEMMA DEndsIs ==
  ASSUME DInv, NEW c \in Clients, D!Ends(c)
  PROVE  /\ cpc' \in [Clients -> Phases] /\ view' \in [Clients -> Game]
         /\ interrupted' \subseteq Clients /\ toClient' \in [Clients -> Seq(Packets)]
         /\ \A x \in Clients : cpc'[x] \notin {"off", "closed"} => cpc[x] \notin {"off", "closed"}
<1>1. <<>> \in Seq(Packets) BY EmptySeq
<1> QED BY <1>1, DTypesOf DEF D!Ends, D!Goes, Phases

LEMMA DGoesIs ==
  ASSUME DInv, NEW c, NEW to \in Phases, D!Goes(c, to)
  PROVE  /\ cpc' \in [Clients -> Phases]
         /\ \A x \in Clients : x # c => cpc'[x] = cpc[x]
BY DTypesOf DEF D!Goes

LEMMA NothingSent == ASSUME UNCHANGED received PROVE NoLogin
BY DEF NoLogin

LEMMA DSentFromIs ==
  ASSUME DInv, NEW a \in D!Addresses, NEW packet \in DRequests, D!SentFrom(a, packet)
  PROVE  /\ received' \in [ServerSockets -> Seq(Datagrams)]
         /\ \A s \in ServerSockets : \A k \in DOMAIN received'[s] :
              \/ k \in DOMAIN received[s] /\ received'[s][k] = received[s][k]
              \/ received'[s][k] = [from |-> a, packet |-> packet]
<1>1. [from |-> a, packet |-> packet] \in Datagrams BY DEF Datagrams
<1>2. PICK gram \in Datagrams : gram = [from |-> a, packet |-> packet] BY <1>1
<1>3. PICK t \in ServerSockets : t = D!SocketOf(a) BY DEF D!SocketOf, ServerSockets
<1>4. received \in [ServerSockets -> Seq(Datagrams)] /\ received[t] \in Seq(Datagrams) BY DTypesOf
<1>5. /\ Append(received[t], gram) \in Seq(Datagrams)
      /\ \A k \in DOMAIN Append(received[t], gram) :
           \/ k \in DOMAIN received[t] /\ Append(received[t], gram)[k] = received[t][k]
           \/ Append(received[t], gram)[k] = gram
  BY <1>4, AppendIs
<1>6. received' = received \/ received' = [received EXCEPT ![t] = Append(@, gram)]
  BY <1>2, <1>3 DEF D!SentFrom
<1> QED BY <1>2, <1>4, <1>5, <1>6

LEMMA DSentIs ==
  ASSUME DInv, NEW c \in Clients, cpc[c] \notin {"off", "closed"},
         NEW packet \in DRequests, packet.type # "INIT", D!Sent(c, packet)
  PROVE  received' \in [ServerSockets -> Seq(Datagrams)] /\ NoLogin
<1>1. \E a \in D!Addresses : holder[a] = c BY DEF DInv, Holding, D!Runs
<1>2. PICK a : a = D!AddressOf(c) OBVIOUS
<1>3. a \in D!Addresses BY <1>1, <1>2 DEF D!AddressOf
<1>4. D!SentFrom(a, packet) BY <1>2 DEF D!Sent
<1>5. /\ received' \in [ServerSockets -> Seq(Datagrams)]
      /\ \A s \in ServerSockets : \A k \in DOMAIN received'[s] :
           \/ k \in DOMAIN received[s] /\ received'[s][k] = received[s][k]
           \/ received'[s][k] = [from |-> a, packet |-> packet]
  BY <1>3, <1>4, DSentFromIs
<1>6. NoLogin
  <2> SUFFICES ASSUME NEW s \in ServerSockets, NEW k \in DOMAIN received'[s],
                      received'[s][k].packet.type = "INIT"
               PROVE  \E l \in DOMAIN received[s] : received'[s][k] = received[s][l]
    BY DEF NoLogin
  <2>1. received'[s][k] # [from |-> a, packet |-> packet] OBVIOUS
  <2> QED BY <1>5, <2>1
<1> QED BY <1>5, <1>6

LEMMA DReadIs ==
  ASSUME DInv, NEW c \in Clients, toClient[c] # <<>>
  PROVE  /\ [toClient EXCEPT ![c] = Tail(@)] \in [Clients -> Seq(Packets)]
         /\ Head(toClient[c]) \in Packets
<1>1. toClient \in [Clients -> Seq(Packets)] BY DTypesOf
<1>2. Tail(toClient[c]) \in Seq(Packets) /\ Head(toClient[c]) \in Packets BY <1>1, TailIs
<1> QED BY <1>1, <1>2

\* A client that gets an address gets it from one that runs no more.  If the server knows
\* nothing of it, every login on the way and every player is still of the one who has its
\* address.
LEMMA DBindsKeeps ==
  ASSUME DInv, NEW c \in Clients, NEW a \in D!Addresses, UNCHANGED D!serverVars,
         D!Goes(c, "login"), UNCHANGED <<view, toClient, interrupted>>,
         D!Binds(c, a), D!SentFrom(a, [type |-> "INIT", name |-> NameOf[c]])
  PROVE  DInv'
<1>1. UNCHANGED <<spc, datagram, adding, conns, players, sessions, ppc, g_got_sigint>>
  BY DEF D!serverVars, D!loopVars, D!managed, D!pingerVars
<1>2. PICK packet : packet = [type |-> "INIT", name |-> NameOf[c]] OBVIOUS
<1>3. packet \in DRequests /\ packet.name = NameOf[c]
  <2>1. NameOf[c] \in STRING BY SizesAssumption
  <2> QED BY <1>2, <2>1 DEF DRequests
<1>4. /\ received' \in [ServerSockets -> Seq(Datagrams)]
      /\ \A s \in ServerSockets : \A k \in DOMAIN received'[s] :
           \/ k \in DOMAIN received[s] /\ received'[s][k] = received[s][k]
           \/ received'[s][k] = [from |-> a, packet |-> packet]
  BY <1>2, <1>3, DSentFromIs
<1>5. /\ ~D!Held(a) /\ holder' = [holder EXCEPT ![a] = c]
      /\ inherited' = (inherited \/ D!Known(a))
  BY DEF D!Binds
<1>6. /\ holder' \in [D!Addresses -> Clients \cup {Nobody}] /\ inherited' \in BOOLEAN
      /\ holder'[a] = c /\ \A b \in D!Addresses \ {a} : holder'[b] = holder[b]
  <2>1. D!Known(a) \in BOOLEAN BY DEF D!Known
  <2> QED BY <1>5, <2>1, DTypesOf
<1>7. cpc' \in [Clients -> Phases] /\ \A x \in Clients : x # c => cpc'[x] = cpc[x]
  BY DGoesIs DEF Phases
<1>8. DatagramTypes' BY <1>1, <1>6, <1>7 DEF DInv, DatagramTypes
<1>9. DatagramMail' BY <1>4, DTypesOf DEF DatagramMail
<1>10. Seating' BY <1>1 DEF DInv, Seating
<1>11. Handling' BY <1>1 DEF DInv, Handling
<1>12. Holding'
  <2> SUFFICES ASSUME NEW x \in Clients, D!Runs(x)' PROVE \E b \in D!Addresses : holder'[b] = x
    BY DEF Holding
  <2>1. CASE x = c BY <1>6, <2>1
  <2>2. CASE x # c
    <3>1. D!Runs(x) BY <1>7, <2>2 DEF D!Runs
    <3>2. PICK b \in D!Addresses : holder[b] = x BY <3>1 DEF DInv, Holding
    <3>3. x # Nobody BY SizesAssumption
    <3>4. b # a BY <1>5, <3>1, <3>2, <3>3 DEF D!Held
    <3> QED BY <1>6, <3>2, <3>4
  <2> QED BY <2>1, <2>2
<1>13. Named'
  <2> SUFFICES ASSUME ~inherited'
               PROVE  /\ \A s \in ServerSockets : \A k \in DOMAIN received'[s] : Own(received[s][k])'
                      /\ spc' \in {"add", "handle"} => Own(datagram)'
                      /\ Placed(conns, players, HolderNames)'
    BY DEF Named
  <2>1. ~inherited /\ ~D!Known(a) BY <1>5, DTypesOf DEF D!Known
  <2>2. /\ \A s \in ServerSockets : \A k \in DOMAIN received[s] : Own(received[s][k])
        /\ spc \in {"add", "handle"} => Own(datagram)
        /\ Placed(conns, players, HolderNames)
    BY <2>1 DEF DInv, Named
  <2>3. /\ datagram.from # a /\ \A i \in Active(conns) : conns[i].sock # a
        /\ \A s \in ServerSockets : \A k \in DOMAIN received[s] : received[s][k].from # a
    <3>1. D!Active(conns) = Active(conns) BY SameAgreement
    <3> QED BY <2>1, <3>1 DEF D!Known, D!NewAddress, ServerSockets
  <2>4. ASSUME NEW s \in ServerSockets, NEW k \in DOMAIN received'[s] PROVE Own(received[s][k])'
    <3>1. CASE k \in DOMAIN received[s] /\ received'[s][k] = received[s][k]
      <4>1. PICK gram : gram = received[s][k] OBVIOUS
      <4>2. gram \in Datagrams
        <5>1. received[s] \in Seq(Datagrams) BY DTypesOf
        <5> QED BY <3>1, <4>1, <5>1
      <4>3. gram.from \in D!Addresses \ {a} BY <2>3, <3>1, <4>1, <4>2 DEF Datagrams
      <4>4. Own(gram) BY <2>2, <3>1, <4>1
      <4>5. received'[s][k] = gram BY <3>1, <4>1
      <4> QED BY <1>6, <4>3, <4>4, <4>5 DEF Own
    <3>2. CASE received'[s][k] = [from |-> a, packet |-> packet]
      BY <1>3, <1>6, <3>2 DEF Own
    <3> QED BY <1>4, <3>1, <3>2
  <2>5. ASSUME spc' \in {"add", "handle"} PROVE Own(datagram)'
    <3>1. spc \in {"add", "handle"} /\ datagram' = datagram BY <1>1, <2>5
    <3>2. datagram.from \in D!Addresses \ {a} BY <2>3, <3>1 DEF DInv, Handling, Datagrams
    <3> QED BY <1>6, <2>2, <3>1, <3>2 DEF Own
  <2>6. Placed(conns, players, HolderNames)'
    <3>1. ASSUME NEW p \in Active(players)
          PROVE  /\ players[p].con \in Active(conns)
                 /\ players[p].name = HolderNames'[conns[players[p].con].sock]
      <4>1. /\ players[p].con \in Active(conns)
            /\ players[p].name = HolderNames[conns[players[p].con].sock]
        BY <2>2 DEF Placed
      <4>2. PICK b \in D!Addresses : b = conns[players[p].con].sock BY <4>1, DMeans
      <4>3. b # a BY <2>3, <4>1, <4>2
      <4>4. HolderNames[b] = NameOf[holder[b]] /\ HolderNames'[b] = NameOf[holder'[b]]
        BY DEF HolderNames
      <4> QED BY <1>6, <4>1, <4>2, <4>3, <4>4
    <3> QED BY <1>1, <3>1 DEF Placed
  <2> QED BY <2>4, <2>5, <2>6
<1>14. OneConnectionEach' BY <1>1 DEF DInv, OneConnectionEach
<1>15. OneWaits'
  <2>1. Unpaired' = Unpaired BY <1>1 DEF Unpaired
  <2> QED BY <1>1, <2>1 DEF DInv, OneWaits
<1> QED BY <1>8, <1>9, <1>10, <1>11, <1>12, <1>13, <1>14, <1>15 DEF DInv

\* what a client does on its own
LEMMA DClientStepKeeps ==
  ASSUME DInv, NEW c \in Clients, D!LogsIn(c) \/ D!Answers(c) \/ D!Takes(c) PROVE DInv'
<1>1. UNCHANGED D!serverVars BY DEF D!LogsIn, D!Answers, D!Takes
<1>2. ASSUME D!Ends(c), UNCHANGED received, UNCHANGED D!holderVars PROVE DInv'
  BY <1>1, <1>2, DEndsIs, DTypesOf, NothingSent, DClientKeeps DEF DatagramMail
<1>3. CASE D!LogsIn(c)
  <2>1. CASE D!Ends(c) /\ UNCHANGED <<received, D!holderVars>> BY <1>2, <2>1
  <2>2. ASSUME NEW a \in D!Addresses, D!Goes(c, "login"), UNCHANGED <<view, toClient, interrupted>>,
               D!Binds(c, a), D!SentFrom(a, [type |-> "INIT", name |-> NameOf[c]])
        PROVE  DInv'
    BY <1>1, <2>2, DBindsKeeps
  <2> QED BY <1>3, <2>1, <2>2 DEF D!LogsIn, D!Addresses
<1>4. CASE D!Answers(c)
  <2>1. UNCHANGED D!holderVars /\ cpc[c] \notin {"off", "closed"} /\ toClient[c] # <<>>
    BY <1>4 DEF D!Answers
  <2>2. CASE /\ toClient' = [toClient EXCEPT ![c] = Tail(@)]
             /\ D!Sent(c, Ping) \/ UNCHANGED received
             /\ UNCHANGED <<cpc, view, interrupted>>
    <3>1. toClient' \in [Clients -> Seq(Packets)] BY <2>1, <2>2, DReadIs
    <3>2. received' \in [ServerSockets -> Seq(Datagrams)] /\ NoLogin
      <4>1. CASE D!Sent(c, Ping)
        <5>1. Ping.type # "INIT" BY DEF Ping
        <5> QED BY <2>1, <4>1, <5>1, DSentIs, DTypesOf
      <4> QED BY <2>2, <4>1, DTypesOf, NothingSent
    <3> QED BY <1>1, <2>1, <2>2, <3>1, <3>2, DTypesOf, DClientKeeps DEF DatagramMail
  <2> QED BY <1>2, <1>4, <2>1, <2>2, DTypesOf DEF D!Answers, D!clientVars
<1>5. CASE D!Takes(c)
  <2> DEFINE packet == Head(toClient[c])
  <2>1. UNCHANGED received /\ toClient[c] # <<>> /\ UNCHANGED D!holderVars /\ cpc[c] \notin {"off", "closed"}
    BY <1>5 DEF D!Takes
  <2>2. packet \in Packets /\ [toClient EXCEPT ![c] = Tail(@)] \in [Clients -> Seq(Packets)]
    BY <2>1, DReadIs
  <2>3. packet.type = "GAME" => packet.game \in Game
    BY <2>2 DEF Packets, Ping, Status, GamePacket
  <2>4. CASE /\ cpc' = cpc \/ D!Goes(c, "wait") \/ D!Goes(c, "turn")
             /\ toClient' = [toClient EXCEPT ![c] = Tail(@)]
             /\ view' = view \/ (packet.type = "GAME" /\ view' = [view EXCEPT ![c] = packet.game])
             /\ UNCHANGED interrupted
    <3>1. cpc' \in [Clients -> Phases] /\ \A x \in Clients : x # c => cpc'[x] = cpc[x]
      <4>1. CASE cpc' = cpc BY <4>1, DTypesOf
      <4>2. CASE D!Goes(c, "wait") BY <4>2, DGoesIs DEF Phases
      <4>3. CASE D!Goes(c, "turn") BY <4>3, DGoesIs DEF Phases
      <4> QED BY <2>4, <4>1, <4>2, <4>3
    <3>2. view' \in [Clients -> Game]
      <4> HIDE DEF packet
      <4> QED BY <2>3, <2>4, DTypesOf
    <3>3. \A x \in Clients : cpc'[x] \notin {"off", "closed"} => cpc[x] \notin {"off", "closed"}
      BY <2>1, <3>1
    <3> HIDE DEF packet
    <3> QED BY <1>1, <2>1, <2>2, <2>4, <3>1, <3>2, <3>3, DTypesOf, NothingSent, DClientKeeps DEF DatagramMail
  <2>5. CASE D!Ends(c) BY <1>2, <2>1, <2>5
  <2> QED BY <1>5, <2>4, <2>5 DEF D!Takes, D!Goes
<1> QED BY <1>3, <1>4, <1>5

\* what its user does
LEMMA DUserStepKeeps ==
  ASSUME DInv, NEW c \in Clients, D!Moves(c) \/ D!Interrupts(c) \/ D!Types(c) \/ D!Stops(c)
  PROVE  DInv'
<1>1. UNCHANGED D!serverVars /\ UNCHANGED D!holderVars /\ cpc[c] \notin {"off", "closed"}
  BY DEF D!Moves, D!Interrupts, D!Types, D!Stops
<1>2. CASE D!Ends(c) /\ UNCHANGED received
  BY <1>1, <1>2, DEndsIs, DTypesOf, NothingSent, DClientKeeps DEF DatagramMail
<1>3. ASSUME NEW pos \in Positions, D!Sent(c, [type |-> "MOVE", name |-> NameOf[c], pos |-> pos]),
             D!Goes(c, "status"), view' = [view EXCEPT ![c] = NewGame],
             UNCHANGED <<toClient, interrupted>>
      PROVE  DInv'
  <2>1. PICK packet : packet = [type |-> "MOVE", name |-> NameOf[c], pos |-> pos] OBVIOUS
  <2>2. packet \in DRequests /\ packet.type # "INIT"
    <3>1. NameOf[c] \in STRING BY SizesAssumption
    <3> QED BY <2>1, <3>1 DEF DRequests
  <2>3. received' \in [ServerSockets -> Seq(Datagrams)] /\ NoLogin BY <1>1, <1>3, <2>1, <2>2, DSentIs
  <2>4. cpc' \in [Clients -> Phases] /\ \A x \in Clients : x # c => cpc'[x] = cpc[x]
    BY <1>3, DGoesIs DEF Phases
  <2> QED BY <1>1, <1>3, <2>3, <2>4, DTypesOf, DClientKeeps DEF DatagramMail
<1>4. CASE /\ UNCHANGED <<received, toClient>> /\ view' = [view EXCEPT ![c] = NewGame]
           /\ interrupted' \subseteq interrupted \cup {c}
           /\ cpc' = cpc \/ cpc' = [cpc EXCEPT ![c] = "stopped"]
  <2>1. cpc' \in [Clients -> Phases] /\ \A x \in Clients : x # c => cpc'[x] = cpc[x]
    BY <1>4, DTypesOf DEF Phases
  <2>2. view' \in [Clients -> Game] /\ interrupted' \subseteq Clients BY <1>4, DTypesOf
  <2> QED BY <1>1, <1>4, <2>1, <2>2, DTypesOf, NothingSent, DClientKeeps DEF DatagramMail
<1>5. CASE D!Moves(c) BY <1>2, <1>3, <1>5, DTypesOf DEF D!Moves
<1>6. CASE D!Interrupts(c) BY <1>2, <1>4, <1>6, DTypesOf DEF D!Interrupts
<1>7. CASE D!Types(c) BY <1>2, <1>7 DEF D!Types
<1>8. CASE D!Stops(c) BY <1>4, <1>8, DTypesOf DEF D!Stops, D!Goes
<1> QED BY <1>5, <1>6, <1>7, <1>8

LEMMA RemoveIs ==
  ASSUME NEW S, NEW s \in Seq(S), NEW k \in DOMAIN s
  PROVE  /\ D!RemoveAt(s, k) \in Seq(S)
         /\ \A j \in DOMAIN D!RemoveAt(s, k) : \E l \in DOMAIN s : D!RemoveAt(s, k)[j] = s[l]
<1>1. k \in 1 .. Len(s) /\ Len(s) \in Nat /\ DOMAIN s = 1 .. Len(s) BY LenProperties
<1>2. PICK u, v : u = SubSeq(s, 1, k - 1) /\ v = SubSeq(s, k + 1, Len(s)) OBVIOUS
<1>3. u \in Seq(S) /\ Len(u) = k - 1 /\ \A j \in 1 .. k - 1 : u[j] = s[j]
  <2>1. 1 \in Int /\ k - 1 \in Int /\ \A j \in 1 .. k - 1 : s[j] \in S BY <1>1
  <2>2. /\ u \in Seq(S) /\ Len(u) = IF 1 <= k - 1 THEN (k - 1) - 1 + 1 ELSE 0
        /\ \A j \in 1 .. (k - 1) - 1 + 1 : u[j] = s[1 + j - 1]
    BY ONLY <1>2, <2>1, SubSeqProperties
  <2> QED BY <1>1, <2>2
<1>4. v \in Seq(S) /\ Len(v) = Len(s) - k /\ \A j \in 1 .. Len(s) - k : v[j] = s[j + k]
  <2>1. k + 1 \in Int /\ Len(s) \in Int /\ \A j \in k + 1 .. Len(s) : s[j] \in S BY <1>1
  <2>2. /\ v \in Seq(S) /\ Len(v) = IF k + 1 <= Len(s) THEN Len(s) - (k + 1) + 1 ELSE 0
        /\ \A j \in 1 .. Len(s) - (k + 1) + 1 : v[j] = s[(k + 1) + j - 1]
    BY ONLY <1>2, <2>1, SubSeqProperties
  <2>3. \A j \in 1 .. Len(s) - k : (k + 1) + j - 1 = j + k /\ j \in 1 .. Len(s) - (k + 1) + 1
    BY <1>1
  <2>4. Len(v) = Len(s) - k BY <1>1, <2>2
  <2> QED BY <2>2, <2>3, <2>4
<1>5. D!RemoveAt(s, k) = u \o v BY <1>2 DEF D!RemoveAt
<1>6. /\ u \o v \in Seq(S) /\ Len(u \o v) = Len(s) - 1
      /\ \A j \in 1 .. Len(s) - 1 : (u \o v)[j] = IF j <= k - 1 THEN u[j] ELSE v[j - (k - 1)]
  <2>1. /\ u \o v \in Seq(S) /\ Len(u \o v) = Len(u) + Len(v)
        /\ \A j \in 1 .. Len(u) + Len(v) : (u \o v)[j] = IF j <= Len(u) THEN u[j] ELSE v[j - Len(u)]
    BY ONLY <1>3, <1>4, ConcatProperties
  <2>2. Len(u) + Len(v) = Len(s) - 1 BY <1>1, <1>3, <1>4
  <2> QED BY <1>3, <2>1, <2>2
<1>7. DOMAIN (u \o v) = 1 .. Len(s) - 1 BY <1>6, LenProperties
<1>8. ASSUME NEW j \in 1 .. Len(s) - 1 PROVE \E l \in DOMAIN s : (u \o v)[j] = s[l]
  <2>1. CASE j <= k - 1
    <3>1. j \in 1 .. k - 1 /\ j \in DOMAIN s BY <1>1, <2>1
    <3>2. (u \o v)[j] = s[j] BY <1>3, <1>6, <2>1, <3>1
    <3> QED BY <3>1, <3>2
  <2>2. CASE ~(j <= k - 1)
    <3>1. /\ j - (k - 1) \in 1 .. Len(s) - k /\ (j - (k - 1)) + k = j + 1
          /\ j + 1 \in DOMAIN s
      BY <1>1, <2>2
    <3>2. (u \o v)[j] = v[j - (k - 1)] BY <1>6, <2>2
    <3>3. v[j - (k - 1)] = s[j + 1] BY <1>4, <3>1
    <3> QED BY <3>1, <3>2, <3>3
  <2> QED BY <2>1, <2>2
<1> QED BY <1>5, <1>6, <1>7, <1>8

LEMMA DLosesKeeps == ASSUME DInv, D!Loses PROVE DInv'
<1>1. UNCHANGED D!serverVars /\ UNCHANGED D!holderVars /\ UNCHANGED <<cpc, view, interrupted>>
  BY DEF D!Loses, D!clientVars
<1>2. ASSUME NEW k \in DOMAIN received["net"],
             received' = [received EXCEPT !["net"] = D!RemoveAt(@, k)], UNCHANGED toClient
      PROVE  DInv'
  <2>1. received \in [ServerSockets -> Seq(Datagrams)] /\ "net" \in ServerSockets
    BY DTypesOf DEF ServerSockets
  <2>2. PICK left : left = D!RemoveAt(received["net"], k) OBVIOUS
  <2>3. /\ left \in Seq(Datagrams)
        /\ \A j \in DOMAIN left : \E l \in DOMAIN received["net"] : left[j] = received["net"][l]
    BY <2>1, <2>2, RemoveIs
  <2>4. received' = [received EXCEPT !["net"] = left] BY <1>2, <2>2
  <2>5. received' \in [ServerSockets -> Seq(Datagrams)] /\ NoLogin BY <2>1, <2>3, <2>4 DEF NoLogin
  <2> QED BY <1>1, <1>2, <2>5, DTypesOf, DClientKeeps DEF DatagramMail
<1>3. ASSUME NEW c \in Clients, NEW k \in DOMAIN toClient[c],
             toClient' = [toClient EXCEPT ![c] = D!RemoveAt(@, k)], UNCHANGED received
      PROVE  DInv'
  <2>1. D!RemoveAt(toClient[c], k) \in Seq(Packets) BY DTypesOf, RemoveIs
  <2>2. toClient' \in [Clients -> Seq(Packets)] BY <1>3, <2>1, DTypesOf
  <2> QED BY <1>1, <1>3, <2>2, DTypesOf, NothingSent, DClientKeeps DEF DatagramMail
<1> QED BY <1>2, <1>3 DEF D!Loses


-----------------------------------------------------------------------------
(* The steps of the datagram server.                                       *)

\* what the server sends to: an address, or a connection that has gone
Peers == D!Addresses \cup {Nobody}

LEMMA DDeliveredIs ==
  ASSUME DInv, NEW sends \in Sends(Peers) PROVE D!Delivered(sends) \in [Clients -> Seq(Packets)]
<1>1. ASSUME NEW c \in Clients
      PROVE  (IF D!Runs(c) /\ D!Open(D!SocketOf(D!AddressOf(c)))
              THEN toClient[c] \o D!SentTo(D!AddressOf(c), sends) ELSE toClient[c]) \in Seq(Packets)
  <2>1. toClient[c] \in Seq(Packets) BY DTypesOf
  <2>2. PICK a : a = D!AddressOf(c) OBVIOUS
  <2>3. SentTo(a, sends) \in Seq(Packets) BY SentToIs
  <2>4. D!SentTo(a, sends) = SentTo(a, sends) BY SameLibrary
  <2>5. toClient[c] \o D!SentTo(a, sends) \in Seq(Packets) BY <2>1, <2>3, <2>4, ConcatProperties
  <2> QED BY <2>1, <2>2, <2>5
<1> QED BY <1>1 DEF D!Delivered

\* a player has, or had, a connection
LEMMA DClientOfIs == ASSUME DInv, NEW p \in Active(players) PROVE ClientOf(p) \in Peers
<1>1. players[p].con \in Conns /\ conns \in [Conns -> ConnRecs(D!Addresses)] BY DMeans DEF Seated
<1> QED BY <1>1 DEF ClientOf, ConnRecs, Peers

LEMMA DMovedSends ==
  ASSUME DInv, NEW name, NEW pos \in Positions, NEW did, MoveIs(name, pos, did)
  PROVE  /\ did.sends \in Sends(Peers)
         /\ Typed(D!Addresses, conns, players, did.sessions) /\ Seated(players, did.sessions)
<1>1. Typed(D!Addresses, conns, players, sessions) /\ Seated(players, sessions) BY DMeans
<1>2. \/ did = [sessions |-> sessions, sends |-> <<>>]
      \/ \E p \in Active(players) : \E s \in Active(sessions) :
           \/ did = [sessions |-> sessions, sends |-> <<To(ClientOf(p), Status(FALSE))>>]
           \/ did = [sessions |-> [sessions EXCEPT ![s].game = game_move(sessions[s].game, pos)],
                     sends |-> <<To(ClientOf(p), Status(TRUE))>>
                        \o ShowGame(ClientOf(sessions[s].p1), ClientOf(sessions[s].p2),
                                    game_move(sessions[s].game, pos))]
  BY ONLY MoveIs(name, pos, did), Zenon DEF MoveIs
<1>3. CASE did = [sessions |-> sessions, sends |-> <<>>]
  <2>1. <<>> \in Sends(Peers) BY EmptySeq DEF Sends
  <2> QED BY <1>1, <1>3, <2>1
<1>4. ASSUME NEW p \in Active(players),
             did = [sessions |-> sessions, sends |-> <<To(ClientOf(p), Status(FALSE))>>]
      PROVE  did.sends \in Sends(Peers) /\ did.sessions = sessions
  <2>1. PICK d \in Peers : d = ClientOf(p) BY DClientOfIs
  <2>2. PICK status \in Packets : status = Status(FALSE) BY StatusesAre
  <2>3. did.sends = <<To(d, status)>> /\ did.sessions = sessions BY <1>4, <2>1, <2>2
  <2> QED BY <2>3, OneSend
<1>5. ASSUME NEW p \in Active(players), NEW s \in Active(sessions),
             did = [sessions |-> [sessions EXCEPT ![s].game = game_move(sessions[s].game, pos)],
                    sends |-> <<To(ClientOf(p), Status(TRUE))>>
                       \o ShowGame(ClientOf(sessions[s].p1), ClientOf(sessions[s].p2),
                                   game_move(sessions[s].game, pos))]
      PROVE  /\ did.sends \in Sends(Peers)
             /\ Typed(D!Addresses, conns, players, did.sessions) /\ Seated(players, did.sessions)
  <2>1. PICK p1, p2 : p1 = sessions[s].p1 /\ p2 = sessions[s].p2 OBVIOUS
  <2>2. p1 \in Active(players) /\ p2 \in Active(players) BY <1>1, <2>1 DEF Seated
  <2>3. PICK d \in Peers, d1 \in Peers, d2 \in Peers : d = ClientOf(p) /\ d1 = ClientOf(p1) /\ d2 = ClientOf(p2)
    BY <2>2, DClientOfIs
  <2>4. PICK game : game = sessions[s].game OBVIOUS
  <2>5. game \in Game BY <1>1, <2>4 DEF Typed, SessionRecs, Active
  <2>6. PICK next \in Game : next = game_move(game, pos) BY <2>5, MoveIsGame
  <2>7. PICK status \in Packets : status = Status(TRUE) /\ ~AsksForMove(status) BY StatusesAre
  <2>8. PICK sends, ss : sends = did.sends /\ ss = did.sessions OBVIOUS
  <2>9. Shown(sends, d, status, d1, d2, next)
    BY <1>5, <2>1, <2>3, <2>4, <2>6, <2>7, <2>8 DEF Shown
  <2>10. sends \in Sends(Peers)
    <3>1. ~AsksForMove(status) BY <2>7
    <3> QED
      BY ONLY d \in Peers, d1 \in Peers, d2 \in Peers, next \in Game, status \in Packets, <2>9, <3>1,
         ShowsAre
  <2>11. MovedTo(ss, s, next) BY <1>5, <2>4, <2>6, <2>8 DEF MovedTo
  <2>12. Typed(D!Addresses, conns, players, ss) /\ Seated(players, ss) BY <1>1, <2>11, MovedAgrees
  <2> QED BY <2>8, <2>10, <2>12
<1> QED BY <1>1, <1>2, <1>3, <1>4, <1>5

LEMMA DPairedSends ==
  ASSUME NEW clean, NEW paired, paired = Paired(clean), Pairing(D!Addresses, clean, paired),
         Typed(D!Addresses, clean.conns, clean.players, clean.sessions),
         Seated(clean.players, clean.sessions)
  PROVE  paired.sends \in Sends(Peers)
<1> DEFINE sends == paired.sends
<1>1. \A n \in DOMAIN sends : sends[n] \in [to : Peers, packet : Packets]
  <2> TAKE n \in DOMAIN sends
  <2>1. PICK p \in Alone(clean.players), player \in Player :
          sends[n] = To(SockIn(clean, p), GamePacket(player, NewGame))
    BY DEF Pairing
  <2>2. clean.players[p].con \in Conns BY <2>1 DEF Seated, Alone
  <2>3. clean.conns \in [Conns -> ConnRecs(D!Addresses)] BY DEF Typed
  <2>4. SockIn(clean, p) \in Peers BY <2>2, <2>3 DEF SockIn, ConnRecs, Peers
  <2>5. GamePacket(player, NewGame) \in Packets BY NewGameIsGame DEF Packets
  <2> QED BY <2>1, <2>4, <2>5 DEF To
<1>2. sends = [n \in DOMAIN sends |-> sends[n]] BY DEF Paired
<1>3. PICK r \in Nat : DOMAIN sends = 1 .. r BY DEF Pairing
<1>4. PICK S : S = [to : Peers, packet : Packets] OBVIOUS
<1>5. \A n \in 1 .. r : sends[n] \in S BY <1>1, <1>3, <1>4
<1>6. sends \in [1 .. r -> S] BY <1>2, <1>3, <1>5
<1>7. sends \in Seq(S) BY <1>3, <1>6
<1> QED BY <1>4, <1>7 DEF Sends

\* a step of the server leaves the clients alone, but for what it sends
LEMMA DServerKeeps ==
  ASSUME DInv, UNCHANGED <<cpc, view, interrupted, holder, inherited>>,
         spc' \in {"test", "poll", "add", "handle", "closing", "gone"},
         datagram'.from \in D!Addresses \cup {Nobody},
         adding' \in Conns \cup {-1}, ppc' \in Conns \cup {-1}, g_got_sigint' \in BOOLEAN,
         received' \in [ServerSockets -> Seq(Datagrams)],
         toClient' \in [Clients -> Seq(Packets)],
         Typed(D!Addresses, conns', players', sessions'), Seated(players', sessions'),
         \A i \in Active(conns') : conns'[i].sock \in D!Addresses,
         Handling', Named', OneConnectionEach', OneWaits'
  PROVE  DInv'
<1>1. DatagramTypes' BY DEF DInv, DatagramTypes
<1>2. DatagramMail' BY DEF DatagramMail
<1>3. Seating' BY DEF Seating
<1>4. Holding' BY DEF DInv, Holding, D!Runs
<1> QED BY <1>1, <1>2, <1>3, <1>4 DEF DInv

\* a connection changes in its flags only
LEMMA DFlagsKeep ==
  ASSUME DInv, NEW i \in Conns, NEW rec \in ConnRecs(D!Addresses), conns' = [conns EXCEPT ![i] = rec],
         rec.active = conns[i].active, rec.sock = conns[i].sock,
         NEW ps, NEW ss, Typed(D!Addresses, conns, ps, ss)
  PROVE  /\ Typed(D!Addresses, conns', ps, ss)
         /\ \A names : Placed(conns, ps, names) => Placed(conns', ps, names)
         /\ Active(conns') = Active(conns)
         /\ \A j \in Active(conns) : conns'[j].sock = conns[j].sock
         /\ \A j \in Active(conns') : conns'[j].sock \in D!Addresses
         /\ OneConnectionEach'
<1>1. conns \in [Conns -> ConnRecs(D!Addresses)] BY DEF Typed
<1>2. /\ conns' \in [Conns -> ConnRecs(D!Addresses)] /\ Active(conns') = Active(conns)
      /\ \A j \in Active(conns) : conns'[j].sock = conns[j].sock
  BY <1>1, FlagsOnly
<1>3. PICK cs : cs = conns' OBVIOUS
<1>4. \A names : Placed(conns, ps, names) => Placed(cs, ps, names) BY <1>2, <1>3 DEF Placed
<1>5. \A j \in Active(conns') : conns'[j].sock \in D!Addresses BY <1>2, DMeans
<1>6. OneConnectionEach' BY <1>2 DEF DInv, OneConnectionEach
<1> QED BY <1>2, <1>3, <1>4, <1>5, <1>6 DEF Typed

LEMMA DAddsKeeps == ASSUME DInv, D!Adds PROVE DInv'
<1> DEFINE rec == [conns[adding] EXCEPT !.alive = TRUE, !.error = FALSE]
<1>1. /\ spc = "add" /\ spc' = "handle" /\ adding' = -1 /\ conns' = [conns EXCEPT ![adding] = rec]
      /\ UNCHANGED <<datagram, players, sessions, ppc, g_got_sigint, received, cpc, view, interrupted, toClient>>
      /\ UNCHANGED <<holder, inherited>>
  BY DEF D!Adds, D!pingerVars, D!clientVars, D!holderVars
<1>2. adding \in Active(conns) BY <1>1 DEF DInv, Handling
<1>3. adding \in Conns /\ conns[adding] \in ConnRecs(D!Addresses) BY <1>2, DMeans
<1>4. rec \in ConnRecs(D!Addresses) /\ rec.active = conns[adding].active /\ rec.sock = conns[adding].sock
  BY <1>3 DEF ConnRecs
<1> HIDE DEF rec
<1>5. PICK i \in Conns, r \in ConnRecs(D!Addresses) : i = adding /\ r = rec BY <1>3, <1>4
<1>6. /\ Typed(D!Addresses, conns', players, sessions)
      /\ \A names : Placed(conns, players, names) => Placed(conns', players, names)
      /\ Active(conns') = Active(conns)
      /\ \A j \in Active(conns) : conns'[j].sock = conns[j].sock
      /\ \A j \in Active(conns') : conns'[j].sock \in D!Addresses
      /\ OneConnectionEach'
  BY <1>1, <1>4, <1>5, DMeans, DFlagsKeep
<1>7. Handling' BY <1>1, <1>6 DEF DInv, Handling
<1>8. OneWaits' BY <1>1 DEF OneWaits
<1>9. Named' BY <1>1, <1>6, NothingSent, NamedKeeps DEF DInv
<1> QED BY <1>1, <1>6, <1>7, <1>8, <1>9, DMeans, DTypesOf, DServerKeeps

LEMMA DPingsKeeps == ASSUME DInv, D!Pings PROVE DInv'
<1> DEFINE rec == D!PingedConn(conns[ppc])
<1>1. /\ ppc \in Conns /\ D!AfterPing
      /\ UNCHANGED <<spc, datagram, adding, players, sessions, g_got_sigint, received, cpc, view, interrupted>>
      /\ UNCHANGED <<holder, inherited>>
  BY SameTypes DEF D!Pings, D!loopVars, D!clientVars, D!holderVars
<1>2. ppc' \in Conns \cup {-1}
  BY <1>1, SizesAssumption DEF D!AfterPing, Conns
<1>3. conns[ppc] \in ConnRecs(D!Addresses) BY <1>1, DMeans
<1>4. rec \in ConnRecs(D!Addresses) /\ rec.active = conns[ppc].active /\ rec.sock = conns[ppc].sock
  <2>1. PICK fails \in BOOLEAN : fails = D!Fails(conns[ppc].sock) BY DEF D!Fails
  <2> QED BY <1>3, <2>1 DEF D!PingedConn, ConnRecs
<1> HIDE DEF rec
<1>5. OneWaits'
  <2>1. Unpaired' = Unpaired BY <1>1 DEF Unpaired
  <2> QED BY <1>1, <2>1 DEF DInv, OneWaits
<1>6. CASE UNCHANGED <<conns, toClient>>
  <2>1. Handling' /\ OneConnectionEach' BY <1>1, <1>6 DEF DInv, Handling, OneConnectionEach
  <2>2. Named' BY <1>1, <1>6, NothingSent, NamedKeeps DEF DInv
  <2> QED BY <1>1, <1>2, <1>5, <1>6, <2>1, <2>2, DMeans, DTypesOf, DServerKeeps
<1>7. CASE /\ conns[ppc].active /\ conns' = [conns EXCEPT ![ppc] = rec]
           /\ toClient' = toClient \/ toClient' = D!Delivered(<<D!To(conns[ppc].sock, D!Ping)>>)
  <2>1. PICK i \in Conns, r \in ConnRecs(D!Addresses) : i = ppc /\ r = rec BY <1>1, <1>4
  <2>2. /\ Typed(D!Addresses, conns', players, sessions)
        /\ \A names : Placed(conns, players, names) => Placed(conns', players, names)
        /\ Active(conns') = Active(conns)
        /\ \A j \in Active(conns) : conns'[j].sock = conns[j].sock
        /\ \A j \in Active(conns') : conns'[j].sock \in D!Addresses
        /\ OneConnectionEach'
    BY <1>4, <1>7, <2>1, DMeans, DFlagsKeep
  <2>3. toClient' \in [Clients -> Seq(Packets)]
    <3>1. ppc \in Active(conns) BY <1>1, <1>7, DMeans DEF Active
    <3>2. PICK c \in Peers, packet \in Packets : c = conns[ppc].sock /\ packet = Ping
      BY <3>1, DMeans DEF Packets, Peers
    <3>3. PICK sends \in Sends(Peers) : sends = <<To(c, packet)>> BY OneSend
    <3>4. D!To(conns[ppc].sock, D!Ping) = To(c, packet) BY <3>2, SamePackets
    <3>5. toClient' = toClient \/ toClient' = D!Delivered(sends) BY <1>7, <3>3, <3>4
    <3> QED BY <3>5, DTypesOf, DDeliveredIs
  <2>4. Handling' BY <1>1, <2>2 DEF DInv, Handling
  <2>5. Named' BY <1>1, <2>2, NothingSent, NamedKeeps DEF DInv
  <2> QED BY <1>1, <1>2, <1>5, <2>2, <2>3, <2>4, <2>5, DMeans, DTypesOf, DServerKeeps
<1> QED BY <1>6, <1>7 DEF D!Pings, rec

LEMMA DSigintKeeps == ASSUME DInv, D!Sigint PROVE DInv'
<1>1. /\ g_got_sigint' = TRUE
      /\ UNCHANGED <<spc, datagram, adding, conns, players, sessions, ppc, received, cpc, view, interrupted, toClient>>
      /\ UNCHANGED <<holder, inherited>>
  BY DEF D!Sigint, D!loopVars, D!clientVars, D!managed, D!holderVars
<1>2. Handling' /\ OneConnectionEach' BY <1>1 DEF DInv, Handling, OneConnectionEach
<1>3. OneWaits'
  <2>1. Unpaired' = Unpaired BY <1>1 DEF Unpaired
  <2> QED BY <1>1, <2>1 DEF DInv, OneWaits
<1>4. Named' BY <1>1, NothingSent, NamedKeeps DEF DInv
<1> QED BY <1>1, <1>2, <1>3, <1>4, DMeans, DTypesOf, DServerKeeps

\* The tables and the sockets are gone with the process.
LEMMA DClosesKeeps == ASSUME DInv, D!Closes PROVE DInv'
<1>1. /\ spc' = "gone" /\ datagram'.from = Nobody /\ adding' = -1
      /\ conns' = NoConns /\ players' = NoPlayers /\ sessions' = NoSessions
      /\ received' = [s \in ServerSockets |-> <<>>]
      /\ UNCHANGED <<ppc, g_got_sigint, cpc, view, interrupted, toClient, holder, inherited>>
  BY SameTypes DEF D!Closes, D!pingerVars, D!clientVars, D!NoDatagram, D!holderVars, ServerSockets
<1>2. Active(conns') = {} /\ Active(players') = {} BY <1>1, NothingIsTyped
<1>3. Typed(D!Addresses, conns', players', sessions') /\ Seated(players', sessions')
  BY <1>1, NothingIsTyped
<1>4. received' \in [ServerSockets -> Seq(Datagrams)]
  <2>1. <<>> \in Seq(Datagrams) BY EmptySeq
  <2> QED BY <1>1, <2>1
<1>5. Handling' /\ OneConnectionEach' /\ OneWaits'
  BY <1>1, <1>2 DEF Handling, OneConnectionEach, OneWaits
<1>6. \A i \in Active(conns') : conns'[i].sock \in D!Addresses BY <1>2
<1>7. Named'
  <2>1. \A s \in ServerSockets : DOMAIN received'[s] = {} BY <1>1
  <2>2. NoLogin BY <2>1 DEF NoLogin
  <2>3. \A names : Placed(conns', players', names) BY <1>2 DEF Placed
  <2> QED BY <1>1, <2>2, <2>3, NamedKeeps DEF DInv
<1> QED BY <1>1, <1>3, <1>4, <1>5, <1>6, <1>7, DMeans, DTypesOf, DServerKeeps

LEMMA AtMostOne == ASSUME NEW U, NEW q, U \subseteq {q} PROVE Cardinality(U) <= 1
<1>1. IsFiniteSet({q}) /\ Cardinality({q}) = 1 BY FS_Singleton
<1> QED BY <1>1, FS_Subset

\* After the cleanup and the pairing one player waits at most, or the server closes.
LEMMA DTestsKeeps == ASSUME DInv, D!Tests PROVE DInv'
<1>1. UNCHANGED <<datagram, adding, cpc, view, interrupted, holder, inherited>>
  BY DEF D!Tests, D!clientVars, D!holderVars
<1>2. PICK emptied : emptied = [received EXCEPT !["net"] = <<>>] OBVIOUS
<1>3. /\ emptied \in [ServerSockets -> Seq(Datagrams)]
      /\ received' = emptied \/ received' = received => NoLogin
  <2>1. <<>> \in Seq(Datagrams) /\ "net" \in ServerSockets BY EmptySeq DEF ServerSockets
  <2>2. emptied \in [ServerSockets -> Seq(Datagrams)] BY <1>2, <2>1, DTypesOf
  <2>3. \A s \in ServerSockets : \A k \in DOMAIN emptied[s] :
          k \in DOMAIN received[s] /\ emptied[s][k] = received[s][k]
    BY <1>2, <2>1, DTypesOf
  <2> QED BY <2>2, <2>3, NothingSent DEF NoLogin
<1>4. CASE g_got_sigint
  <2>1. /\ spc' = "closing" /\ received' = emptied
        /\ UNCHANGED <<conns, players, sessions, ppc, g_got_sigint, toClient>>
    BY <1>2, <1>4 DEF D!Tests, D!managed, D!pingerVars
  <2>2. Handling' /\ OneConnectionEach' /\ OneWaits'
    BY <2>1 DEF DInv, Handling, OneConnectionEach, OneWaits
  <2>3. Named' BY <1>1, <1>3, <2>1, NamedKeeps DEF DInv
  <2> QED BY <1>1, <1>3, <2>1, <2>2, <2>3, DMeans, DTypesOf, DServerKeeps
<1>5. CASE ~g_got_sigint
  <2>1. PICK clean : clean = Cleaned OBVIOUS
  <2>2. PICK paired : paired = Paired(clean) OBVIOUS
  <2>3. clean = D!Cleaned /\ paired = D!Paired(clean) BY <2>1, <2>2, SameManager
  <2>4. /\ conns' = clean.conns /\ players' = paired.players /\ sessions' = paired.sessions
        /\ toClient' = D!Delivered(paired.sends) /\ ppc' = ppc
        /\ \/ paired.ok /\ spc' = "poll" /\ UNCHANGED <<received, g_got_sigint>>
           \/ spc' = "closing" /\ received' = emptied /\ g_got_sigint' = TRUE
    BY <1>2, <1>5, <2>3 DEF D!Tests
  <2>5. /\ Typed(D!Addresses, clean.conns, clean.players, clean.sessions)
        /\ Seated(clean.players, clean.sessions)
        /\ \A names : Placed(conns, players, names) => Placed(clean.conns, clean.players, names)
        /\ \A i \in Active(clean.conns) : i \in Active(conns) /\ clean.conns[i] = conns[i]
    BY <2>1, DMeans, CleanedAgrees
  <2>6. Pairing(D!Addresses, clean, paired) BY ONLY <2>2, <2>5, PairedAgrees
  <2>7. Typed(D!Addresses, conns', players', sessions') /\ Seated(players', sessions')
    BY <2>4, <2>6 DEF Pairing
  <2>8. \A names : Placed(conns, players, names) => Placed(conns', players', names)
    <3>1. \A names : Placed(clean.conns, clean.players, names) => Placed(clean.conns, paired.players, names)
      BY <2>6 DEF Pairing, Placed
    <3> QED BY <2>4, <2>5, <3>1
  <2>9. paired.sends \in Sends(Peers) BY ONLY <2>2, <2>5, <2>6, DPairedSends
  <2>10. toClient' \in [Clients -> Seq(Packets)] BY <2>4, <2>9, DDeliveredIs
  <2>11. \A i \in Active(conns') : conns'[i].sock \in D!Addresses BY <2>4, <2>5, DMeans
  <2>12. OneConnectionEach' BY <2>4, <2>5 DEF DInv, OneConnectionEach
  <2>13. Handling' BY <2>4 DEF Handling
  <2>14. OneWaits'
    <3> SUFFICES ASSUME spc' = "poll" PROVE Cardinality(Unpaired') <= 1 BY DEF OneWaits
    <3>1. PICK q : Alone(paired.players) \subseteq {q} BY <2>4, <2>6 DEF Pairing
    <3>2. Unpaired' \subseteq {q} BY <2>4, <3>1 DEF Unpaired, Alone
    <3> QED BY <3>2, AtMostOne
  <2>15. received' \in [ServerSockets -> Seq(Datagrams)] /\ g_got_sigint' \in BOOLEAN
    BY <1>3, <2>4, DMeans, DTypesOf
  <2>16. Named' BY <1>1, <1>3, <2>4, <2>8, NamedKeeps DEF DInv
  <2> QED
    BY <1>1, <2>4, <2>7, <2>10, <2>11, <2>12, <2>13, <2>14, <2>15, <2>16, DMeans, DServerKeeps
<1> QED BY <1>4, <1>5

\* A datagram finds the connection of its sender, or is given one that is free.
LEMMA DReceivesKeeps == ASSUME DInv, NEW s \in ServerSockets, D!Receives(s) PROVE DInv'
<1> DEFINE free == Conns \ Active(conns)
<1>1. /\ spc = "poll" /\ received[s] # <<>> /\ received' = [received EXCEPT ![s] = Tail(@)]
      /\ UNCHANGED <<players, sessions, ppc, g_got_sigint, cpc, view, interrupted, toClient>>
      /\ UNCHANGED <<holder, inherited>>
  BY DEF D!Receives, D!pingerVars, D!clientVars, D!holderVars
<1>2. PICK got : got = Head(received[s]) OBVIOUS
<1>3. /\ got \in Datagrams /\ Tail(received[s]) \in Seq(Datagrams)
      /\ 1 \in DOMAIN received[s] /\ got = received[s][1]
      /\ \A k \in DOMAIN Tail(received[s]) :
           k + 1 \in DOMAIN received[s] /\ Tail(received[s])[k] = received[s][k + 1]
  <2>1. received[s] \in Seq(Datagrams) BY DTypesOf
  <2>2. got \in Datagrams /\ Tail(received[s]) \in Seq(Datagrams) BY <1>1, <1>2, <2>1, TailIs
  <2>3. /\ Len(received[s]) \in Nat \ {0} /\ DOMAIN received[s] = 1 .. Len(received[s])
        /\ got = received[s][1]
    BY <1>1, <1>2, <2>1
  <2>4. \A k \in DOMAIN Tail(received[s]) :
          k + 1 \in DOMAIN received[s] /\ Tail(received[s])[k] = received[s][k + 1]
    BY <1>1, <2>1, TailIs
  <2>5. 1 \in DOMAIN received[s] BY <2>3
  <2> QED BY <2>2, <2>3, <2>4, <2>5
<1>4. received' \in [ServerSockets -> Seq(Datagrams)] BY <1>1, <1>3, DTypesOf
<1>5. NoLogin
  <2> SUFFICES ASSUME NEW t \in ServerSockets, NEW k \in DOMAIN received'[t]
               PROVE  \E l \in DOMAIN received[t] : received'[t][k] = received[t][l]
    BY DEF NoLogin
  <2>1. CASE t = s
    <3>1. received'[t] = Tail(received[s]) BY <1>1, <2>1, DTypesOf
    <3> QED BY <1>3, <2>1, <3>1
  <2>2. CASE t # s
    <3>1. received'[t] = received[t] BY <1>1, <2>2, DTypesOf
    <3> QED BY <3>1
  <2> QED BY <2>1, <2>2
<1>6. got.from \in D!Addresses BY <1>3 DEF Datagrams
<1>7. D!NewAddress(got.from) <=> \A i \in Active(conns) : conns[i].sock # got.from
  BY SameAgreement DEF D!NewAddress
<1>8. D!Conns \ D!Active(conns) = free /\ D!Min(free) = Min(free)
  BY SameTypes, SameAgreement, SameLibrary
<1>9. ASSUME datagram' = got \/ spc' = "test",
             \A names : Placed(conns, players, names) => Placed(conns', players, names)
      PROVE  Named'
  <2>1. spc' \in {"add", "handle"} =>
          \E t \in ServerSockets : \E k \in DOMAIN received[t] : datagram' = received[t][k]
    BY <1>3, <1>9
  <2> QED BY <1>1, <1>5, <1>9, <2>1, NamedKeeps DEF DInv
<1>10. CASE ~D!NewAddress(got.from) /\ spc' = "handle" /\ datagram' = got /\ UNCHANGED <<conns, adding>>
  <2>1. Handling' BY <1>3, <1>7, <1>10 DEF Handling
  <2>2. OneConnectionEach' /\ OneWaits' BY <1>10 DEF DInv, OneConnectionEach, OneWaits
  <2>3. Named' BY <1>9, <1>10
  <2> QED BY <1>1, <1>4, <1>6, <1>10, <2>1, <2>2, <2>3, DMeans, DTypesOf, DServerKeeps
<1>11. CASE /\ D!NewAddress(got.from) /\ free # {}
            /\ spc' = "add" /\ datagram' = got /\ adding' = Min(free)
            /\ conns' = [conns EXCEPT ![Min(free)] = [@ EXCEPT !.active = TRUE, !.sock = got.from]]
  <2>1. PICK n : n = Min(free) OBVIOUS
  <2>2. n \in free
    <3>1. Conns \in SUBSET Int /\ IsFiniteSet(Conns) BY SizesAssumption, FS_Interval DEF Conns
    <3>2. free \in SUBSET Int /\ IsFiniteSet(free) BY <3>1, FS_Subset
    <3> HIDE DEF free
    <3> QED BY <1>11, <2>1, <3>2, EndsAreMembers
  <2>3. PICK rec : rec = [conns[n] EXCEPT !.active = TRUE, !.sock = got.from] OBVIOUS
  <2>4. rec \in ConnRecs(D!Addresses) /\ rec.active /\ rec.sock = got.from
    <3>1. conns[n] \in ConnRecs(D!Addresses) BY <2>2, DMeans
    <3> QED BY <1>6, <2>3, <3>1 DEF ConnRecs
  <2>5. conns' = [conns EXCEPT ![n] = rec] /\ adding' = n BY <1>11, <2>1, <2>3
  <2>6. /\ conns' \in [Conns -> ConnRecs(D!Addresses)] /\ conns'[n] = rec
        /\ \A i \in Conns \ {n} : conns'[i] = conns[i]
    BY <2>2, <2>4, <2>5, DMeans
  <2>7. Active(conns') = Active(conns) \cup {n} BY <2>2, <2>4, <2>6, DMeans DEF Active
  <2>8. \A i \in Active(conns) : i # n /\ conns'[i] = conns[i] BY <2>2, <2>6, DMeans
  <2>9. \A i \in Active(conns') : conns'[i].sock \in D!Addresses
    BY <1>6, <2>4, <2>6, <2>7, <2>8, DMeans
  <2>10. OneConnectionEach'
    <3>1. \A i \in Active(conns) : conns'[i].sock # got.from BY <1>7, <1>11, <2>8
    <3>2. conns'[n].sock = got.from BY <2>4, <2>6
    <3>3. \A i, j \in Active(conns) : conns'[i].sock = conns'[j].sock => i = j
      BY <2>8 DEF DInv, OneConnectionEach
    <3> QED BY <2>7, <3>1, <3>2, <3>3 DEF OneConnectionEach
  <2>11. Handling' BY <1>3, <1>11, <2>4, <2>5, <2>6, <2>7 DEF Handling
  <2>12. OneWaits' BY <1>11 DEF OneWaits
  <2>13. \A names : Placed(conns, players, names) => Placed(conns', players, names)
    <3>1. PICK cs : cs = conns' OBVIOUS
    <3>2. Active(cs) = Active(conns) \cup {n} /\ \A i \in Active(conns) : cs[i] = conns[i]
      BY <2>7, <2>8, <3>1
    <3>3. \A names : Placed(conns, players, names) => Placed(cs, players, names) BY <3>2 DEF Placed
    <3> QED BY <3>1, <3>3
  <2>14. Named' BY <1>9, <1>11, <2>13
  <2>15. Typed(D!Addresses, conns', players', sessions') BY <1>1, <2>6, DMeans DEF Typed
  <2>16. adding' \in Conns BY <2>2, <2>5
  <2> QED
    BY <1>1, <1>4, <1>6, <1>11, <2>9, <2>10, <2>11, <2>12, <2>14, <2>15, <2>16, DMeans, DTypesOf,
       DServerKeeps
<1>12. CASE spc' = "test" /\ UNCHANGED <<conns, datagram, adding>>
  <2>1. Handling' /\ OneConnectionEach' /\ OneWaits'
    BY <1>12 DEF DInv, Handling, OneConnectionEach, OneWaits
  <2>2. Named' BY <1>9, <1>12
  <2> QED BY <1>1, <1>4, <1>12, <2>1, <2>2, DMeans, DTypesOf, DServerKeeps
<1>13. \/ ~D!NewAddress(got.from) /\ spc' = "handle" /\ datagram' = got /\ UNCHANGED <<conns, adding>>
       \/ /\ D!NewAddress(got.from) /\ free # {}
          /\ spc' = "add" /\ datagram' = got /\ adding' = Min(free)
          /\ conns' = [conns EXCEPT ![Min(free)] = [@ EXCEPT !.active = TRUE, !.sock = got.from]]
       \/ spc' = "test" /\ UNCHANGED <<conns, datagram, adding>>
  <2> HIDE DEF free
  <2> QED BY <1>2, <1>8 DEF D!Receives
<1> QED BY <1>10, <1>11, <1>12, <1>13

\* The packet is handled at the connection of its sender; a login, under the name it has.
LEMMA DHandlesKeeps == ASSUME DInv, D!Handles PROVE DInv'
<1>1. /\ spc = "handle" /\ spc' = "test" /\ datagram'.from = Nobody
      /\ UNCHANGED <<adding, ppc, g_got_sigint, received, cpc, view, interrupted, holder, inherited>>
  BY DEF D!Handles, D!pingerVars, D!clientVars, D!NoDatagram, D!holderVars
<1>2. PICK packet, a : packet = datagram.packet /\ a = datagram.from OBVIOUS
<1>3. packet \in DRequests /\ a \in D!Addresses /\ \E i \in Active(conns) : conns[i].sock = a
  BY <1>1, <1>2 DEF DInv, Handling, Datagrams
<1>4. PICK i : i = CHOOSE j \in Active(conns) : conns[j].sock = a OBVIOUS
<1>5. i \in Active(conns) /\ conns[i].sock = a BY <1>3, <1>4
<1>6. i = CHOOSE j \in D!Active(conns) : conns[j].sock = a
  <2>1. D!Active(conns) = Active(conns) BY SameAgreement
  <2> QED BY <1>4, <2>1
<1>7. i \in Conns /\ conns[i] \in ConnRecs(D!Addresses) BY <1>5, DMeans
<1>8. Handling' /\ OneWaits' BY <1>1 DEF Handling, OneWaits
<1>9. ASSUME ~inherited => (Placed(conns, players, HolderNames) => Placed(conns', players', HolderNames))
      PROVE  Named'
  BY <1>1, <1>9, NothingSent, NamedKeeps DEF DInv
<1>10. CASE packet.type = "INIT"
  <2>1. PICK name \in STRING : name = packet.name
    <3>1. packet \in [type : {"INIT"}, name : STRING] BY <1>3, <1>10 DEF DRequests, Ping
    <3>2. packet.name \in STRING BY <3>1
    <3> QED BY <3>2
  <2>2. PICK added : added = gman_add_player(i, name) OBVIOUS
  <2>3. /\ added.ok \in BOOLEAN
        /\ Typed(D!Addresses, conns, added.players, sessions) /\ Seated(added.players, sessions)
        /\ \A names :
             Placed(conns, players, names) /\ i \in Active(conns) /\ name = names[conns[i].sock]
               => Placed(conns, added.players, names)
    BY <1>7, <2>2, DMeans, AddedAgrees
  <2>4. /\ added = D!gman_add_player(i, packet.name)
        /\ <<D!To(a, D!Status(added.ok))>> = <<To(a, Status(added.ok))>>
    BY <2>1, <2>2, SameManager, SamePackets
  <2>5. PICK sends : sends = <<To(a, Status(added.ok))>> OBVIOUS
  <2>6. sends \in Sends(Peers)
    <3>1. PICK status \in Packets : status = Status(added.ok) BY <2>3, StatusesAre
    <3>2. a \in Peers BY <1>3 DEF Peers
    <3> QED BY <2>5, <3>1, <3>2, OneSend
  <2>7. /\ players' = added.players /\ sessions' = sessions /\ toClient' = D!Delivered(sends)
        /\ conns' = [conns EXCEPT ![i].error = @ \/ D!Fails(a)]
    BY <1>2, <1>6, <1>10, <2>4, <2>5 DEF D!Handles
  <2>8. PICK rec : rec = [conns[i] EXCEPT !.error = @ \/ D!Fails(a)] OBVIOUS
  <2>9. rec \in ConnRecs(D!Addresses) /\ rec.active = conns[i].active /\ rec.sock = conns[i].sock
    <3>1. PICK fails \in BOOLEAN : fails = D!Fails(a) BY DEF D!Fails
    <3> QED BY <1>7, <2>8, <3>1 DEF ConnRecs
  <2>10. conns' = [conns EXCEPT ![i] = rec] BY <2>7, <2>8
  <2>11. PICK ps, ss : ps = added.players /\ ss = sessions OBVIOUS
  <2>12. /\ Typed(D!Addresses, conns', ps, ss)
         /\ \A names : Placed(conns, ps, names) => Placed(conns', ps, names)
         /\ \A j \in Active(conns') : conns'[j].sock \in D!Addresses
         /\ OneConnectionEach'
    BY <1>7, <2>3, <2>9, <2>10, <2>11, DFlagsKeep
  <2>13. Seated(players', sessions') BY <2>3, <2>7
  <2>14. ~inherited => (Placed(conns, players, HolderNames) => Placed(conns', players', HolderNames))
    <3> SUFFICES ASSUME ~inherited, Placed(conns, players, HolderNames)
                 PROVE  Placed(conns', players', HolderNames)
      OBVIOUS
    <3>1. PICK names : names = HolderNames OBVIOUS
    <3>2. Own(datagram) BY <1>1 DEF DInv, Named
    <3>3. name = names[conns[i].sock]
      <4>1. HolderNames[a] = NameOf[holder[a]] BY <1>3 DEF HolderNames
      <4> QED BY <1>2, <1>5, <1>10, <2>1, <3>1, <3>2, <4>1 DEF Own
    <3>4. Placed(conns, ps, names) BY <1>5, <2>3, <2>11, <3>1, <3>3
    <3>5. Placed(conns', ps, names) BY <2>12, <3>4
    <3> QED BY <2>7, <2>11, <3>1, <3>5
  <2>15. Named' BY <1>9, <2>14
  <2>16. toClient' \in [Clients -> Seq(Packets)] BY <2>6, <2>7, DDeliveredIs
  <2> QED
    BY <1>1, <1>8, <2>7, <2>11, <2>12, <2>13, <2>15, <2>16, DMeans, DTypesOf, DServerKeeps
<1>11. CASE packet.type = "MOVE"
  <2>1. PICK name \in STRING, pos \in Positions : name = packet.name /\ pos = packet.pos
    <3>1. packet \in [type : {"MOVE"}, name : STRING, pos : Positions]
      BY <1>3, <1>11 DEF DRequests, Ping
    <3>2. packet.name \in STRING /\ packet.pos \in Positions BY <3>1
    <3> QED BY <3>2
  <2>2. PICK moved : moved = gman_execute_move(name, pos) OBVIOUS
  <2>3. moved = D!gman_execute_move(packet.name, packet.pos) BY <2>1, <2>2, SameManager
  <2>4. /\ sessions' = moved.sessions /\ UNCHANGED <<conns, players>>
        /\ toClient' = D!Delivered(moved.sends)
    BY <1>2, <1>6, <1>11, <2>3 DEF D!Handles
  <2>5. MoveIs(name, pos, moved) BY <2>2, DMeans, MoveCases, Zenon
  <2>6. /\ moved.sends \in Sends(Peers)
        /\ Typed(D!Addresses, conns, players, moved.sessions) /\ Seated(players, moved.sessions)
    BY <2>5, DMovedSends
  <2>7. toClient' \in [Clients -> Seq(Packets)] BY <2>4, <2>6, DDeliveredIs
  <2>8. OneConnectionEach' BY <2>4 DEF DInv, OneConnectionEach
  <2>9. Named' BY <1>9, <2>4
  <2> QED BY <1>1, <1>8, <2>4, <2>6, <2>7, <2>8, <2>9, DMeans, DTypesOf, DServerKeeps
<1>12. CASE packet.type = "PING"
  <2>1. conns' = [conns EXCEPT ![i].alive = TRUE] /\ UNCHANGED <<players, sessions, toClient>>
    BY <1>2, <1>6, <1>12 DEF D!Handles
  <2>2. PICK rec : rec = [conns[i] EXCEPT !.alive = TRUE] OBVIOUS
  <2>3. rec \in ConnRecs(D!Addresses) /\ rec.active = conns[i].active /\ rec.sock = conns[i].sock
    BY <1>7, <2>2 DEF ConnRecs
  <2>4. conns' = [conns EXCEPT ![i] = rec] BY <2>1, <2>2
  <2>5. /\ Typed(D!Addresses, conns', players, sessions)
        /\ \A names : Placed(conns, players, names) => Placed(conns', players, names)
        /\ \A j \in Active(conns') : conns'[j].sock \in D!Addresses
        /\ OneConnectionEach'
    BY <1>7, <2>3, <2>4, DMeans, DFlagsKeep
  <2>6. Named' BY <1>9, <2>1, <2>5
  <2> QED BY <1>1, <1>8, <2>1, <2>5, <2>6, DMeans, DTypesOf, DServerKeeps
<1> QED BY <1>3, <1>10, <1>11, <1>12 DEF DRequests, Ping

LEMMA DInitHolds == ASSUME D!Init PROVE DInv
<1>1. /\ spc = "test" /\ datagram.from = Nobody /\ adding = -1
      /\ conns = NoConns /\ players = NoPlayers /\ sessions = NoSessions
      /\ ppc = 0 /\ g_got_sigint = FALSE
      /\ received = [s \in ServerSockets |-> <<>>]
      /\ cpc = [c \in Clients |-> "off"] /\ view = [c \in Clients |-> NewGame] /\ interrupted = {}
      /\ holder = [a \in D!Addresses |-> Nobody] /\ inherited = FALSE
      /\ toClient = [c \in Clients |-> <<>>]
  BY SameTypes, SameRules DEF D!Init, D!NoDatagram, ServerSockets
<1>2. Active(conns) = {} /\ Active(players) = {} BY <1>1, NothingIsTyped
<1>3. DatagramTypes
  <2>1. 0 \in Conns BY SizesAssumption DEF Conns
  <2> QED BY <1>1, <2>1, NewGameIsGame DEF DatagramTypes, Phases
<1>4. DatagramMail
  <2>1. <<>> \in Seq(Datagrams) /\ <<>> \in Seq(Packets) BY EmptySeq
  <2> QED BY <1>1, <2>1 DEF DatagramMail
<1>5. Seating BY <1>1, <1>2, NothingIsTyped DEF Seating
<1>6. Handling /\ OneConnectionEach /\ OneWaits
  BY <1>1, <1>2 DEF Handling, OneConnectionEach, OneWaits
<1>7. Holding BY <1>1 DEF Holding, D!Runs
<1>8. Named
  <2>1. \A s \in ServerSockets : DOMAIN received[s] = {} BY <1>1
  <2>2. Placed(conns, players, HolderNames) BY <1>2 DEF Placed
  <2> QED BY <1>1, <2>1, <2>2 DEF Named
<1> QED BY <1>3, <1>4, <1>5, <1>6, <1>7, <1>8 DEF DInv

LEMMA DStepKeeps == ASSUME DInv, [D!Next]_(D!vars) PROVE DInv'
<1>1. CASE D!ServerStep
  BY <1>1, DTestsKeeps, DReceivesKeeps, DAddsKeeps, DHandlesKeeps, DClosesKeeps
     DEF D!ServerStep, ServerSockets
<1>2. CASE UNCHANGED D!vars
  <2>1. /\ UNCHANGED D!serverVars /\ UNCHANGED D!holderVars
        /\ UNCHANGED <<received, cpc, view, interrupted, toClient>>
    BY <1>2 DEF D!vars, D!serverVars, D!clientVars
  <2> QED BY <2>1, DTypesOf, NothingSent, DClientKeeps DEF DatagramMail
<1>3. ASSUME NEW c \in Clients,
             D!ClientStep(c) \/ D!Moves(c) \/ D!Interrupts(c) \/ D!Types(c) \/ D!Stops(c)
      PROVE  DInv'
  BY <1>3, DClientStepKeeps, DUserStepKeeps DEF D!ClientStep
<1> QED BY <1>1, <1>2, <1>3, DPingsKeeps, DSigintKeeps, DLosesKeeps DEF D!Next

\* The datagram server keeps its tables in agreement although nobody accepts and nobody hangs
\* up: whatever is lost or late, and whoever gets an address, a session has its two players,
\* an address one connection, and one player waits at most when the server goes to poll.  A
\* player has an open connection, of the client whose name it has, until a client gets an
\* address that the server still knows from another one.
THEOREM DatagramTablesStayConsistent == D!Spec => []D!AddressesConsistent
<1>1. D!Init => DInv BY DInitHolds
<1>2. DInv /\ [D!Next]_(D!vars) => DInv' BY DStepKeeps
<1>3. DInv => D!AddressesConsistent BY DInvMeans
<1> QED BY <1>1, <1>2, <1>3, PTL DEF D!Spec
=============================================================================
