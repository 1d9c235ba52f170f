---------------------------- MODULE ChatMqProofs ----------------------------
(***************************************************************************)
(* Until a server is killed an id of the chat over POSIX queues has one    *)
(* holder; whatever is killed, the server counts the descriptors it has    *)
(* open and no client has two of them.                                     *)
(*                                                                         *)
(* The messages a killed server leaves to the next one name ids that mean  *)
(* nothing to it.  IInv separates what they cannot spoil (whose messages   *)
(* wait, which clients the table cannot hold) from what they can (Matched: *)
(* that an id in a message is its sender's).                               *)
(***************************************************************************)
EXTENDS ChatMq, FiniteSetTheorems, SequenceTheorems, TLAPS

\* the other chat has the same sequences for queues
C == INSTANCE ChatProofs WITH QueueSize <- mq_maxmsg

Waiting(c) == \E m \in InQueue(serverQueue) : m.type = "INIT" /\ m.by = c

\* the server has messages to send in the two loops over outbox, and nowhere else
Quiet == outbox # <<>> <=> spc \in {"stop", "reply"}

\* messages to the server: where they come from, and which id they may name
Origins ==
  \A m \in InQueue(serverQueue) :
    m.by \in Clients /\ (m.type # "INIT" => m.id \in Ids) /\ (m.type = "2ONE" => m.to \in Ids)

\* no client has two INITs or two STOPs waiting, whichever servers they were for
OneEach ==
  \A k, l \in DOMAIN serverQueue :
    /\ k # l /\ serverQueue[k].type = serverQueue[l].type
    /\ serverQueue[k].type \in {"INIT", "STOP"}
    => serverQueue[k].by # serverQueue[l].by

\* a client whose INIT no server has read has no descriptor
Strangers ==
  \A c \in Clients :
    /\ cpc[c] = "off" => client_id[c] = -1 /\ clientQueue[c] = <<>>
    /\ cpc[c] \in {"off", "init"} => ~Waiting(c)
    /\ cpc[c] \in {"off", "init"} \/ Waiting(c) => \A i \in Ids : clients[i] # c

\* what a client is about to ask names itself, and an id
Askers ==
  \A c \in Clients :
    /\ ready[c] => cpc[c] = "send"
    /\ cpc[c] = "send" =>
         /\ unsent[c].type \in {"LIST", "2ALL", "2ONE"}
         /\ unsent[c].by = c /\ unsent[c].id \in Ids
         /\ unsent[c].type = "2ONE" => unsent[c].to \in Ids

\* a STOP is its sender's last word
LastWords == \A m \in InQueue(serverQueue) : m.type = "STOP" => cpc[m.by] = "left"

\* messages to clients: to whom they may go, and what an INIT may name
Replies ==
  /\ \A o \in InQueue(outbox) :
       (o.to # Nobody => cpc[o.to] # "off") /\ (o.msg.type = "INIT" => o.msg.id \in Ids)
  /\ \A c \in Clients : \A m \in InQueue(clientQueue[c]) : m.type = "INIT" => m.id \in Ids

\* the id a client has, or is sent, is its slot
Holders ==
  /\ \A c \in Clients : Linked(c) =>
       /\ client_id[c] # -1 => clients[client_id[c]] = c
       /\ \A m \in InQueue(clientQueue[c]) : m.type = "INIT" => clients[m.id] = c
  /\ \A o \in InQueue(outbox) : o.msg.type = "INIT" => clients[o.msg.id] = o.to

\* a client that said it leaves is in the table as long as its STOP waits, and no longer
Forgotten ==
  /\ \A i \in Used : cpc[clients[i]] = "left" =>
       \E m \in InQueue(serverQueue) : m.type = "STOP" /\ m.id = i /\ m.by = clients[i]
  /\ \A m \in InQueue(serverQueue) : m.type = "STOP" => clients[m.id] = m.by

Matched == kills = 0 => Holders /\ Forgotten

IInv ==
  /\ TypeOK /\ DescriptorsCounted /\ Quiet /\ Origins /\ OneEach /\ Strangers /\ Askers
  /\ LastWords /\ Replies /\ Matched

-----------------------------------------------------------------------------
(* Queues.                                                                 *)

\* A set of numbers has a least one.
LEMMA Least ==
  ASSUME NEW S \in SUBSET Nat, S # {}
  PROVE  \E m \in S : \A n \in S : m <= n
BY C!Least, MqAssumption

\* What a queue holds after mq_send.
LEMMA AppendMembers ==
  ASSUME NEW S, NEW q \in Seq(S), NEW m \in S
  PROVE  /\ Append(q, m) \in Seq(S) /\ Len(Append(q, m)) = Len(q) + 1
         /\ InQueue(Append(q, m)) = InQueue(q) \cup {m}
BY C!AppendMembers, MqAssumption DEF InQueue, C!InQueue

\* What is left of outbox after a send.
LEMMA TailMembers ==
  ASSUME NEW S, NEW q \in Seq(S), q # <<>>
  PROVE  /\ Tail(q) \in Seq(S) /\ InQueue(Tail(q)) \subseteq InQueue(q)
         /\ Head(q) \in InQueue(q) /\ Head(q) \in S
         /\ Tail(q) # <<>> <=> Len(q) > 1
<1>1. /\ Tail(q) \in Seq(S) /\ InQueue(Tail(q)) \subseteq InQueue(q)
      /\ Head(q) \in InQueue(q) /\ Head(q) \in S
  BY C!TailMembers, MqAssumption DEF InQueue, C!InQueue
<1>2. Len(q) \in Nat /\ Len(q) # 0 /\ Len(Tail(q)) = Len(q) - 1
  BY EmptySeq, HeadTailProperties, LenProperties
<1>3. Tail(q) = <<>> <=> Len(Tail(q)) = 0 BY <1>1, EmptySeq
<1> QED BY <1>1, <1>2, <1>3

\* What a queue holds after mq_receive: all but one message.
LEMMA RemoveMembers ==
  ASSUME NEW S, NEW q \in Seq(S), NEW k \in DOMAIN q
  PROVE  /\ RemoveAt(q, k) \in Seq(S) /\ Len(RemoveAt(q, k)) = Len(q) - 1
         /\ \A j \in 1 .. Len(q) - 1 : RemoveAt(q, k)[j] = q[IF j < k THEN j ELSE j + 1]
         /\ InQueue(RemoveAt(q, k)) \subseteq InQueue(q)
         /\ \A l \in DOMAIN q : l # k => q[l] \in InQueue(RemoveAt(q, k))
BY C!RemoveMembers, MqAssumption DEF InQueue, C!InQueue, RemoveAt, C!RemoveAt

\* mq_receive finds a message.
LEMMA NextInQueue ==
  ASSUME NEW q \in Seq(Messages), q # <<>>
  PROVE  Next_in(q) \in DOMAIN q
<1> DEFINE Rank(k) == 4 - Priority(q[k].type)
           R == {Rank(k) : k \in DOMAIN q}
<1>1. \A k \in DOMAIN q : Priority(q[k].type) \in 0 .. 4
  <2> TAKE k \in DOMAIN q
  <2>1. q[k] \in Messages BY LenProperties
  <2>2. q[k].type \in MsgTypes BY <2>1 DEF Messages
  <2> QED BY <2>2 DEF MsgTypes, Priority
<1>2. DOMAIN q # {} /\ DOMAIN q \in SUBSET Nat
  <2>1. DOMAIN q = 1 .. Len(q) /\ Len(q) \in Nat BY LenProperties
  <2>2. Len(q) # 0 BY EmptySeq
  <2>3. 1 \in DOMAIN q BY <2>1, <2>2
  <2>4. 1 .. Len(q) \subseteq Nat OBVIOUS
  <2> QED BY <2>1, <2>3, <2>4
<1>3. PICK r \in R : \A s \in R : r <= s
  <2>1. R # {} /\ R \in SUBSET Nat BY <1>1, <1>2
  <2> HIDE DEF R
  <2> QED BY <2>1, Least
<1> DEFINE K == {k \in DOMAIN q : Rank(k) = r}
<1>4. PICK k \in K : \A l \in K : k <= l
  <2>1. K # {} /\ K \in SUBSET Nat BY <1>2, <1>3
  <2> QED BY <2>1, Least
<1> DEFINE P(n) == \A l \in DOMAIN q : Priority(q[n].type) > Priority(q[l].type)
                                       \/ (Priority(q[n].type) = Priority(q[l].type) /\ n <= l)
<1>5. k \in DOMAIN q /\ P(k)
  <2>1. k \in DOMAIN q /\ Rank(k) = r BY <1>4
  <2>2. ASSUME NEW l \in DOMAIN q
        PROVE  Priority(q[k].type) > Priority(q[l].type)
               \/ (Priority(q[k].type) = Priority(q[l].type) /\ k <= l)
    <3>1. Rank(k) <= Rank(l) BY <1>3, <2>1
    <3>2. Rank(l) = r => k <= l BY <1>4
    <3>3. Priority(q[k].type) \in 0 .. 4 /\ Priority(q[l].type) \in 0 .. 4 BY <1>1, <2>1
    <3> QED BY <2>1, <3>1, <3>2, <3>3
  <2> QED BY <2>1, <2>2
<1>6. Next_in(q) = CHOOSE n \in DOMAIN q : P(n) BY DEF Next_in
<1> HIDE DEF P
<1> QED BY <1>5, <1>6

\* Some of the ids, and how many they are.
LEMMA IdCount ==
  ASSUME NEW S \in SUBSET Ids
  PROVE  IsFiniteSet(S) /\ Cardinality(S) \in 0 .. SERVER_MAX_CLIENTS
<1>1. IsFiniteSet(Ids) /\ Cardinality(Ids) = SERVER_MAX_CLIENTS
  BY MqAssumption, FS_Interval DEF Ids
<1>2. IsFiniteSet(S) /\ Cardinality(S) <= Cardinality(Ids) BY <1>1, FS_Subset
<1>3. Cardinality(S) \in Nat BY <1>2, FS_CardinalityType
<1> QED BY <1>1, <1>2, <1>3, MqAssumption

-----------------------------------------------------------------------------
(* Steps of the clients.                                                   *)

\* What a step that leaves some variables alone keeps.
LEMMA Untouched ==
  ASSUME IInv
  PROVE  /\ UNCHANGED clients /\ UNCHANGED n_clients => DescriptorsCounted'
         /\ UNCHANGED <<spc, outbox>> => Quiet'
         /\ UNCHANGED serverQueue => Origins' /\ OneEach'
         /\ UNCHANGED <<serverQueue, clients, cpc, client_id, clientQueue>> => Strangers'
         /\ UNCHANGED <<cpc, unsent, ready>> => Askers'
         /\ UNCHANGED <<serverQueue, cpc>> => LastWords'
         /\ UNCHANGED <<outbox, cpc, clientQueue>> => Replies'
         /\ UNCHANGED <<serverQueue, clients, cpc, client_id, clientQueue, outbox, kills>> => Matched'
<1>1. UNCHANGED clients /\ UNCHANGED n_clients => DescriptorsCounted' BY DEF IInv, DescriptorsCounted, Used
<1>2. UNCHANGED <<spc, outbox>> => Quiet' BY DEF IInv, Quiet
<1>3. UNCHANGED serverQueue => Origins' /\ OneEach' BY DEF IInv, Origins, OneEach
<1>4. UNCHANGED <<serverQueue, clients, cpc, client_id, clientQueue>> => Strangers'
  BY DEF IInv, Strangers, Waiting
<1>5. UNCHANGED <<cpc, unsent, ready>> => Askers' BY DEF IInv, Askers
<1>6. UNCHANGED <<serverQueue, cpc>> => LastWords' BY DEF IInv, LastWords
<1>7. UNCHANGED <<outbox, cpc, clientQueue>> => Replies' BY DEF IInv, Replies
<1>8. UNCHANGED <<serverQueue, clients, cpc, client_id, clientQueue, outbox, kills>> => Matched'
  BY DEF IInv, Matched, Holders, Forgotten, Linked, Used
<1> QED BY <1>1, <1>2, <1>3, <1>4, <1>5, <1>6, <1>7, <1>8

\* A message to the server joins its queue.
LEMMA PostAppends ==
  ASSUME TypeOK, NEW m \in Messages, Post(m)
  PROVE  /\ serverQueue' \in Seq(Messages) /\ Len(serverQueue') <= mq_maxmsg
         /\ InQueue(serverQueue') = InQueue(serverQueue) \cup {m}
         /\ OneEach /\ (m.type \in {"INIT", "STOP"} =>
                          \A n \in InQueue(serverQueue) : n.type = m.type => n.by # m.by)
            => OneEach'
<1>1. serverQueue' = Append(serverQueue, m) /\ ~Full(serverQueue) /\ serverQueue \in Seq(Messages)
  BY DEF Post, TypeOK
<1>2. /\ serverQueue' \in Seq(Messages) /\ Len(serverQueue') = Len(serverQueue) + 1
      /\ InQueue(serverQueue') = InQueue(serverQueue) \cup {m}
  BY <1>1, AppendMembers
<1>3. Len(serverQueue') <= mq_maxmsg BY <1>1, <1>2, MqAssumption, LenProperties DEF Full
<1>4. ASSUME OneEach, m.type \in {"INIT", "STOP"} =>
                        \A n \in InQueue(serverQueue) : n.type = m.type => n.by # m.by
      PROVE  OneEach'
  <2>1. /\ DOMAIN serverQueue = 1 .. Len(serverQueue) /\ Len(serverQueue) \in Nat
        /\ DOMAIN serverQueue' = 1 .. Len(serverQueue) + 1
        /\ \A k \in 1 .. Len(serverQueue) : serverQueue'[k] = serverQueue[k]
        /\ serverQueue'[Len(serverQueue) + 1] = m
    BY <1>1, <1>2, LenProperties, AppendProperties
  <2>2. \A k \in DOMAIN serverQueue : serverQueue[k] \in InQueue(serverQueue) BY DEF InQueue
  <2> SUFFICES ASSUME NEW k \in DOMAIN serverQueue', NEW l \in DOMAIN serverQueue', k # l,
                      serverQueue'[k].type = serverQueue'[l].type,
                      serverQueue'[k].type \in {"INIT", "STOP"}
               PROVE  serverQueue'[k].by # serverQueue'[l].by
    BY DEF OneEach
  <2>3. CASE k \in DOMAIN serverQueue /\ l \in DOMAIN serverQueue
    BY <1>4, <2>1, <2>3 DEF OneEach
  <2>4. CASE k \in DOMAIN serverQueue /\ l \notin DOMAIN serverQueue
    <3>1. l = Len(serverQueue) + 1 BY <2>1, <2>4
    <3> QED BY <1>4, <2>1, <2>2, <2>4, <3>1
  <2>5. CASE k \notin DOMAIN serverQueue
    <3>1. k = Len(serverQueue) + 1 /\ l \in DOMAIN serverQueue BY <2>1, <2>5
    <3> QED BY <1>4, <2>1, <2>2, <3>1
  <2> QED BY <2>3, <2>4, <2>5
<1> QED BY <1>2, <1>3, <1>4

\* The part of TypeOK about the clients, which the steps of the server leave alone.
ClientTypes ==
  /\ cpc \in [Clients -> {"off", "init", "loop", "send", "recv", "leave", "left", "vanished"}]
  /\ client_id \in [Clients -> Ids \cup {-1}]
  /\ should_stop \in [Clients -> BOOLEAN] /\ ready \in [Clients -> BOOLEAN]
  /\ unsent \in [Clients -> Messages \cup {NoMsg}]
  /\ commands \in [Clients -> 0 .. MaxCommands]

\* The part of TypeOK about the clients' queues.
QueueTypes ==
  /\ clientQueue \in [Clients -> Seq(Messages)]
  /\ \A c \in Clients : /\ Len(clientQueue[c]) <= mq_maxmsg
                        /\ cpc[c] = "recv" \/ ready[c] => clientQueue[c] # <<>>

\* The part of TypeOK about the server, which the steps of the clients leave alone.
ServerTypes ==
  /\ spc \in {"test", "check", "recv", "stop", "reply", "gone", "down"}
  /\ g_should_stop \in BOOLEAN /\ is_stopping \in BOOLEAN
  /\ clients \in [Ids -> Clients \cup {Nobody}] /\ n_clients \in 0 .. SERVER_MAX_CLIENTS
  /\ outbox \in Seq([to : Clients \cup {Nobody}, msg : Messages])

PostTypes == serverQueue \in Seq(Messages) /\ Len(serverQueue) <= mq_maxmsg
Bounds == sigints \in 0 .. MaxSigints /\ kills \in 0 .. MaxKills

LEMMA TypeParts == TypeOK <=> ServerTypes /\ PostTypes /\ ClientTypes /\ QueueTypes /\ Bounds
BY DEF TypeOK, ServerTypes, PostTypes, ClientTypes, QueueTypes, Bounds

\* The parts a step that leaves their variables alone keeps.
LEMMA TypesKept ==
  ASSUME TypeOK
  PROVE  /\ UNCHANGED serverVars => ServerTypes'
         /\ UNCHANGED serverQueue => PostTypes'
         /\ UNCHANGED clientVars => ClientTypes'
         /\ UNCHANGED <<cpc, ready, clientQueue>> => QueueTypes'
         /\ UNCHANGED <<sigints, kills>> => Bounds'
<1>1. UNCHANGED serverVars => ServerTypes' BY TypeParts DEF ServerTypes, serverVars
<1>2. UNCHANGED serverQueue => PostTypes' BY TypeParts DEF PostTypes
<1>3. UNCHANGED clientVars => ClientTypes' BY TypeParts DEF ClientTypes, clientVars
<1>4. UNCHANGED <<cpc, ready, clientQueue>> => QueueTypes' BY TypeParts DEF QueueTypes
<1>5. UNCHANGED <<sigints, kills>> => Bounds' BY TypeParts DEF Bounds
<1> QED BY <1>1, <1>2, <1>3, <1>4, <1>5

\* One client moves to another place of its program.
LEMMA GotoMoves ==
  ASSUME TypeOK, NEW c \in Clients, NEW where, Goto(c, where),
         where \in {"off", "init", "loop", "send", "recv", "leave", "left", "vanished"}
  PROVE  /\ cpc' \in [Clients -> {"off", "init", "loop", "send", "recv", "leave", "left", "vanished"}]
         /\ cpc'[c] = where /\ \A d \in Clients \ {c} : cpc'[d] = cpc[d]
BY DEF Goto, TypeOK

LEMMA TypesOf == IInv => TypeOK
BY DEF IInv

LEMMA StartStep ==
  ASSUME IInv, NEW c \in Clients, Start(c)
  PROVE  IInv'
<1>1. TypeOK BY DEF IInv
<1>2. PICK where \in {"init", "vanished"} : Goto(c, where) BY DEF Start
<1>3. /\ cpc[c] = "off" /\ UNCHANGED <<serverVars, client_id, should_stop, unsent, ready, commands,
                                       serverQueue, clientQueue, sigints, kills>>
  BY DEF Start
<1>4. /\ cpc' \in [Clients -> {"off", "init", "loop", "send", "recv", "leave", "left", "vanished"}]
      /\ cpc'[c] \in {"init", "vanished"} /\ \A d \in Clients \ {c} : cpc'[d] = cpc[d]
  BY <1>1, <1>2, GotoMoves
<1>5. ~ready[c] /\ client_id[c] = -1 /\ InQueue(clientQueue[c]) = {}
  BY <1>3 DEF IInv, Strangers, Askers, InQueue
<1>6. \A i \in Ids : clients[i] # c BY <1>3 DEF IInv, Strangers
<1>7. UNCHANGED <<spc, g_should_stop, is_stopping, clients, n_clients, outbox>> BY <1>3 DEF serverVars
<1>8. TypeOK'
  <2>1. ClientTypes' BY <1>1, <1>3, <1>4, TypeParts DEF ClientTypes
  <2>2. QueueTypes' BY <1>1, <1>3, <1>4, <1>5, TypeParts DEF QueueTypes
  <2>3. ServerTypes' /\ PostTypes' /\ Bounds' BY <1>1, <1>3, TypesKept
  <2>4. (ServerTypes /\ PostTypes /\ ClientTypes /\ QueueTypes /\ Bounds => TypeOK)' BY TypeParts, PTL
  <2> QED BY <2>1, <2>2, <2>3, <2>4
<1>9. Matched'
  <2> SUFFICES ASSUME kills = 0 PROVE Holders' /\ Forgotten' BY <1>3 DEF Matched
  <2>1. Holders /\ Forgotten BY DEF IInv, Matched
  <2>2. Holders' BY <1>3, <1>4, <1>5, <1>7, <2>1 DEF Holders, Linked
  <2>3. \A i \in Used : clients[i] \in Clients \ {c} BY <1>1, <1>6 DEF Used, TypeOK
  <2>4. Forgotten' BY <1>3, <1>4, <1>7, <2>1, <2>3 DEF Forgotten, Used
  <2> QED BY <2>2, <2>4
<1>10. Strangers' BY <1>3, <1>4, <1>7 DEF IInv, Strangers, Waiting
<1>11. LastWords' BY <1>3, <1>4 DEF IInv, LastWords, Origins
<1>12. Askers' BY <1>3, <1>4, <1>5 DEF IInv, Askers
<1>13. Replies'
  <2>1. \A d \in Clients : cpc[d] # "off" => cpc'[d] # "off" BY <1>3, <1>4
  <2>2. \A o \in InQueue(outbox) : o.to \in Clients \cup {Nobody}
    <3>1. outbox \in Seq([to : Clients \cup {Nobody}, msg : Messages]) BY <1>1 DEF TypeOK
    <3>2. \A k \in DOMAIN outbox : outbox[k] \in [to : Clients \cup {Nobody}, msg : Messages]
      BY <3>1, LenProperties
    <3> QED BY <3>2 DEF InQueue
  <2> QED BY <1>3, <1>7, <2>1, <2>2 DEF IInv, Replies
<1> QED BY <1>3, <1>7, <1>8, <1>9, <1>10, <1>11, <1>12, <1>13, Untouched DEF IInv

\* The descriptors of messages to send are those of clients, or no descriptor.
LEMMA Recipients == TypeOK => \A o \in InQueue(outbox) : o.to \in Clients \cup {Nobody}
<1> SUFFICES ASSUME TypeOK, NEW k \in DOMAIN outbox PROVE outbox[k].to \in Clients \cup {Nobody}
  BY DEF InQueue
<1>1. outbox \in Seq([to : Clients \cup {Nobody}, msg : Messages]) BY DEF TypeOK
<1>2. outbox[k] \in [to : Clients \cup {Nobody}, msg : Messages] BY <1>1, LenProperties
<1> QED BY <1>2

\* What is kept when clients move on, take messages or leave without a word.
LEMMA MovesKeep ==
  ASSUME IInv, UNCHANGED <<clients, outbox, kills>>,
         \A d \in Clients : cpc[d] # "off" => cpc'[d] # "off",
         \A d \in Clients : InQueue(clientQueue'[d]) \subseteq InQueue(clientQueue[d])
  PROVE  /\ Replies'
         /\ /\ UNCHANGED serverQueue
            /\ \A d \in Clients : Linked(d)' => Linked(d) /\ client_id'[d] = client_id[d]
            /\ \A d \in Clients : cpc'[d] = "left" => cpc[d] = "left"
            => Matched'
<1>1. TypeOK BY DEF IInv
<1>2. Replies' BY <1>1, Recipients DEF IInv, Replies
<1>3. ASSUME UNCHANGED serverQueue,
             \A d \in Clients : Linked(d)' => Linked(d) /\ client_id'[d] = client_id[d],
             \A d \in Clients : cpc'[d] = "left" => cpc[d] = "left", kills = 0
      PROVE  Holders' /\ Forgotten'
  <2>1. Holders /\ Forgotten BY <1>3 DEF IInv, Matched
  <2>2. Holders' BY <1>3, <2>1 DEF Holders
  <2>3. Used' = Used /\ \A i \in Used : clients[i] \in Clients BY <1>1 DEF Used, TypeOK
  <2>4. Forgotten' BY <1>3, <2>1, <2>3 DEF Forgotten
  <2> QED BY <2>2, <2>4
<1> QED BY <1>2, <1>3 DEF Matched

\* The parts of the types a step of a client may change, and those it leaves alone.
LEMMA ClientStepTypes ==
  ASSUME TypeOK, UNCHANGED serverVars, UNCHANGED kills,
         UNCHANGED sigints \/ (sigints < MaxSigints /\ sigints' = sigints + 1),
         PostTypes', ClientTypes', QueueTypes'
  PROVE  TypeOK'
<1>1. ServerTypes' BY TypesKept
<1>2. Bounds' BY MqAssumption DEF TypeOK, Bounds
<1>3. (ServerTypes /\ PostTypes /\ ClientTypes /\ QueueTypes /\ Bounds => TypeOK)' BY TypeParts, PTL
<1> QED BY <1>1, <1>2, <1>3

LEMMA SendInitStep ==
  ASSUME IInv, NEW c \in Clients, client_send_init(c)
  PROVE  IInv'
<1> DEFINE m == Msg("INIT", c, -1)
<1>1. /\ cpc[c] = "init" /\ Post(m) /\ Goto(c, "loop")
      /\ UNCHANGED <<serverVars, client_id, should_stop, unsent, ready, commands, clientQueue,
                     sigints, kills>>
  BY DEF client_send_init
<1>2. m \in Messages /\ m.type = "INIT" /\ m.by = c BY DEF Messages, MsgTypes, Msg
<1>3. ~Waiting(c) /\ \A i \in Ids : clients[i] # c BY <1>1 DEF IInv, Strangers
<1>4. TypeOK BY DEF IInv
<1> HIDE DEF m
<1>5. /\ serverQueue' \in Seq(Messages) /\ Len(serverQueue') <= mq_maxmsg
      /\ InQueue(serverQueue') = InQueue(serverQueue) \cup {m}
      /\ OneEach'
  <2>1. OneEach /\ \A n \in InQueue(serverQueue) : n.type = m.type => n.by # m.by
    BY <1>2, <1>3 DEF IInv, Waiting
  <2> QED BY <1>1, <1>2, <1>4, <2>1, PostAppends
<1>6. UNCHANGED <<spc, g_should_stop, is_stopping, clients, n_clients, outbox>> BY <1>1 DEF serverVars
<1>7. /\ cpc' \in [Clients -> {"off", "init", "loop", "send", "recv", "leave", "left", "vanished"}]
      /\ cpc'[c] = "loop" /\ \A d \in Clients \ {c} : cpc'[d] = cpc[d]
  BY <1>1, <1>4, GotoMoves
<1>8. ~ready[c] BY <1>1 DEF IInv, Askers
<1>9. TypeOK'
  <2>1. PostTypes' BY <1>5 DEF PostTypes
  <2>2. ClientTypes' BY <1>1, <1>4, <1>7, TypeParts DEF ClientTypes
  <2>3. QueueTypes' BY <1>1, <1>4, <1>7, <1>8, TypeParts DEF QueueTypes
  <2> QED BY <1>1, <1>4, <2>1, <2>2, <2>3, ClientStepTypes
<1>10. Matched'
  <2> SUFFICES ASSUME kills = 0 PROVE Holders' /\ Forgotten' BY <1>1 DEF Matched
  <2>1. Holders /\ Forgotten BY DEF IInv, Matched
  <2>2. \A d \in Clients : Linked(d)' = Linked(d) BY <1>1, <1>7 DEF Linked
  <2>3. Holders' BY <1>1, <1>6, <2>1, <2>2 DEF Holders
  <2>4. Used' = Used /\ \A i \in Used : clients[i] \in Clients \ {c}
    BY <1>3, <1>4, <1>6 DEF Used, TypeOK
  <2>5. Forgotten' BY <1>2, <1>5, <1>6, <1>7, <2>1, <2>4 DEF Forgotten
  <2> QED BY <2>3, <2>5
<1>11. Origins' BY <1>2, <1>5 DEF IInv, Origins
<1>12. Strangers'
  <2>1. \A d \in Clients \ {c} : Waiting(d)' = Waiting(d) BY <1>2, <1>5 DEF Waiting
  <2> QED BY <1>1, <1>3, <1>6, <1>7, <2>1 DEF IInv, Strangers
<1>13. LastWords' BY <1>1, <1>2, <1>5, <1>7 DEF IInv, LastWords, Origins
<1>14. Askers' BY <1>1, <1>7, <1>8 DEF IInv, Askers
<1>15. Replies'
  <2>1. \A d \in Clients : cpc[d] # "off" => cpc'[d] # "off" BY <1>7
  <2> QED BY <1>1, <1>6, <2>1, MovesKeep
<1> QED BY <1>5, <1>6, <1>9, <1>10, <1>11, <1>12, <1>13, <1>14, <1>15, Untouched DEF IInv

\* What a client decides on in its loop: nothing it has said or been told changes.
LEMMA DecisionStep ==
  ASSUME IInv, NEW c \in Clients, NEW where \in {"loop", "leave", "recv", "send"},
         cpc[c] = "loop", Goto(c, where), where = "recv" => Polled(c),
         where = "send" => Askers', where # "send" => UNCHANGED <<unsent, ready>>,
         ready' \in [Clients -> BOOLEAN], ready'[c] => Polled(c),
         \A d \in Clients \ {c} : ready'[d] = ready[d],
         should_stop' \in [Clients -> BOOLEAN],
         unsent' \in [Clients -> Messages \cup {NoMsg}],
         commands' \in [Clients -> 0 .. MaxCommands],
         UNCHANGED <<serverVars, client_id, serverQueue, clientQueue, sigints, kills>>
  PROVE  IInv'
<1>1. TypeOK BY DEF IInv
<1>2. /\ cpc' \in [Clients -> {"off", "init", "loop", "send", "recv", "leave", "left", "vanished"}]
      /\ cpc'[c] = where /\ \A d \in Clients \ {c} : cpc'[d] = cpc[d]
  BY <1>1, GotoMoves
<1>3. UNCHANGED <<spc, g_should_stop, is_stopping, clients, n_clients, outbox>> BY DEF serverVars
<1>4. TypeOK'
  <2>1. ClientTypes' BY <1>1, <1>2, TypeParts DEF ClientTypes
  <2>2. QueueTypes' BY <1>1, <1>2, TypeParts DEF QueueTypes, Polled
  <2>3. PostTypes' BY <1>1, TypesKept
  <2> QED BY <1>1, <2>1, <2>2, <2>3, ClientStepTypes
<1>5. Replies' /\ Matched'
  <2>1. \A d \in Clients : cpc[d] # "off" => cpc'[d] # "off" BY <1>2
  <2>2. \A d \in Clients : Linked(d)' => Linked(d) BY <1>2 DEF Linked
  <2>3. \A d \in Clients : cpc'[d] = "left" => cpc[d] = "left" BY <1>2
  <2> QED BY <1>3, <2>1, <2>2, <2>3, MovesKeep
<1>6. Strangers'
  <2>1. \A d \in Clients : Waiting(d)' = Waiting(d) BY DEF Waiting
  <2> QED BY <1>2, <1>3, <2>1 DEF IInv, Strangers
<1>7. LastWords' BY <1>2 DEF IInv, LastWords, Origins
<1>8. Askers'
  <2>1. CASE where = "send" BY <2>1
  <2>2. CASE where # "send"
    <3>1. UNCHANGED <<unsent, ready>> /\ ~ready[c] BY <2>2 DEF IInv, Askers
    <3> QED BY <1>2, <2>2, <3>1 DEF IInv, Askers
  <2> QED BY <2>1, <2>2
<1> QED BY <1>3, <1>4, <1>5, <1>6, <1>7, <1>8, Untouched DEF IInv

LEMMA LooksStep ==
  ASSUME IInv, NEW c \in Clients, Looks(c)
  PROVE  IInv'
<1>1. TypeOK BY DEF IInv
<1>2. ~ready[c] BY DEF IInv, Askers, Looks
<1>3. PICK where \in {"leave", "recv"} : Goto(c, where) /\ (where = "recv" => Polled(c)) BY DEF Looks
<1>4. /\ ready' \in [Clients -> BOOLEAN] /\ should_stop' \in [Clients -> BOOLEAN]
      /\ unsent' \in [Clients -> Messages \cup {NoMsg}] /\ commands' \in [Clients -> 0 .. MaxCommands]
  BY <1>1 DEF Looks, TypeOK
<1> QED BY <1>2, <1>3, <1>4, DecisionStep DEF Looks

\* A request names its sender's id.
LEMMA RequestTypes ==
  ASSUME TypeOK, NEW c \in Clients, client_id[c] # -1, NEW m \in Requests(c)
  PROVE  /\ m \in Messages /\ m.by = c /\ m.id \in Ids
         /\ m.type \in {"LIST", "2ALL", "2ONE"} /\ (m.type = "2ONE" => m.to \in Ids)
<1>1. client_id[c] \in Ids BY DEF TypeOK
<1>2. CASE m \in {Msg(type, c, client_id[c]) : type \in Commands \ {"2ONE"}}
  <2>1. PICK type \in Commands \ {"2ONE"} : m = Msg(type, c, client_id[c]) BY <1>2
  <2>2. type \in {"LIST", "2ALL"} BY MqAssumption
  <2> QED BY <1>1, <2>1, <2>2 DEF Msg, Messages, MsgTypes
<1>3. CASE \E i \in Ids : m = [Msg("2ONE", c, client_id[c]) EXCEPT !.to = i]
  BY <1>1, <1>3 DEF Msg, Messages, MsgTypes
<1> QED BY <1>2, <1>3 DEF Requests

LEMMA TypesStep ==
  ASSUME IInv, NEW c \in Clients, Types(c)
  PROVE  IInv'
<1>1. TypeOK BY DEF IInv
<1>2. cpc[c] = "loop" /\ UNCHANGED <<serverVars, client_id, serverQueue, clientQueue, sigints, kills>>
  BY DEF Types
<1>3. CASE /\ should_stop' = [should_stop EXCEPT ![c] = TRUE]
           /\ Goto(c, IF Polled(c) THEN "recv" ELSE "loop")
           /\ UNCHANGED <<unsent, ready, commands>>
  <2>1. ~ready[c] BY <1>2 DEF IInv, Askers
  <2>2. PICK where \in {"recv", "loop"} : Goto(c, where) /\ (where = "recv" => Polled(c)) BY <1>3
  <2>3. /\ ready' \in [Clients -> BOOLEAN] /\ should_stop' \in [Clients -> BOOLEAN]
        /\ unsent' \in [Clients -> Messages \cup {NoMsg}] /\ commands' \in [Clients -> 0 .. MaxCommands]
    BY <1>1, <1>3 DEF TypeOK
  <2> QED BY <1>2, <1>3, <2>1, <2>2, <2>3, DecisionStep
<1>4. CASE /\ client_id[c] # -1 /\ commands[c] < MaxCommands
           /\ Goto(c, "send")
           /\ \E m \in Requests(c) : unsent' = [unsent EXCEPT ![c] = m]
           /\ ready' = [ready EXCEPT ![c] = Polled(c)]
           /\ commands' = [commands EXCEPT ![c] = @ + 1]
           /\ UNCHANGED should_stop
  <2>1. PICK m \in Requests(c) : unsent' = [unsent EXCEPT ![c] = m] BY <1>4
  <2>2. /\ m \in Messages /\ m.by = c /\ m.id \in Ids
        /\ m.type \in {"LIST", "2ALL", "2ONE"} /\ (m.type = "2ONE" => m.to \in Ids)
    BY <1>1, <1>4, RequestTypes
  <2>3. /\ unsent' \in [Clients -> Messages \cup {NoMsg}] /\ unsent'[c] = m
        /\ \A d \in Clients \ {c} : unsent'[d] = unsent[d]
    BY <1>1, <2>1, <2>2 DEF TypeOK
  <2>4. /\ ready' \in [Clients -> BOOLEAN] /\ ready'[c] = Polled(c)
        /\ \A d \in Clients \ {c} : ready'[d] = ready[d]
    <3>1. Polled(c) \in BOOLEAN BY DEF Polled
    <3>2. ready \in [Clients -> BOOLEAN] BY <1>1 DEF TypeOK
    <3> QED BY <1>4, <3>1, <3>2
  <2>5. commands' \in [Clients -> 0 .. MaxCommands]
    <3>1. commands \in [Clients -> 0 .. MaxCommands] BY <1>1 DEF TypeOK
    <3>2. commands[c] + 1 \in 0 .. MaxCommands BY <1>4, <3>1, MqAssumption
    <3> QED BY <1>4, <3>1, <3>2
  <2>6. /\ cpc'[c] = "send" /\ \A d \in Clients \ {c} : cpc'[d] = cpc[d]
    BY <1>1, <1>4, GotoMoves
  <2>7. Askers'
    BY <2>2, <2>3, <2>4, <2>6 DEF IInv, Askers
  <2>8. should_stop' \in [Clients -> BOOLEAN] BY <1>1, <1>4 DEF TypeOK
  <2> QED BY <1>2, <1>4, <2>3, <2>4, <2>5, <2>7, <2>8, DecisionStep
<1> QED BY <1>3, <1>4 DEF Types

\* The second half of a round begins, or the next round.
LEMMA TurnTypes ==
  ASSUME IInv, NEW c \in Clients, Turns(c), cpc[c] = "send", UNCHANGED clientQueue
  PROVE  /\ cpc' \in [Clients -> {"off", "init", "loop", "send", "recv", "leave", "left", "vanished"}]
         /\ cpc'[c] \in {"recv", "loop"} /\ \A d \in Clients \ {c} : cpc'[d] = cpc[d]
         /\ unsent' \in [Clients -> Messages \cup {NoMsg}] /\ ready' \in [Clients -> BOOLEAN]
         /\ Askers' /\ QueueTypes'
<1>1. TypeOK BY DEF IInv
<1>2. PICK where \in {"recv", "loop"} : Goto(c, where) /\ (where = "recv" => ready[c])
  BY DEF Turns
<1>3. /\ cpc' \in [Clients -> {"off", "init", "loop", "send", "recv", "leave", "left", "vanished"}]
      /\ cpc'[c] = where /\ \A d \in Clients \ {c} : cpc'[d] = cpc[d]
  BY <1>1, <1>2, GotoMoves
<1>4. /\ unsent' = [unsent EXCEPT ![c] = NoMsg] /\ ready' = [ready EXCEPT ![c] = FALSE] BY DEF Turns
<1>5. /\ unsent' \in [Clients -> Messages \cup {NoMsg}] /\ ready' \in [Clients -> BOOLEAN]
      /\ ~ready'[c] /\ \A d \in Clients \ {c} : ready'[d] = ready[d] /\ unsent'[d] = unsent[d]
  BY <1>1, <1>4 DEF TypeOK
<1>6. Askers' BY <1>3, <1>5 DEF IInv, Askers
<1>7. QueueTypes' BY <1>1, <1>2, <1>3, <1>5, TypeParts DEF QueueTypes
<1> QED BY <1>3, <1>5, <1>6, <1>7

LEMMA SendsStep ==
  ASSUME IInv, NEW c \in Clients, Sends(c)
  PROVE  IInv'
<1> DEFINE m == unsent[c]
<1>1. /\ cpc[c] = "send" /\ Post(m) /\ Turns(c)
      /\ UNCHANGED <<serverVars, client_id, should_stop, commands, clientQueue, sigints, kills>>
  BY DEF Sends
<1>2. TypeOK BY DEF IInv
<1>3. /\ m.type \in {"LIST", "2ALL", "2ONE"} /\ m.by = c /\ m.id \in Ids
      /\ m.type = "2ONE" => m.to \in Ids
  BY <1>1 DEF IInv, Askers
<1>4. m \in Messages
  <2>1. m \in Messages \cup {NoMsg} BY <1>2 DEF TypeOK
  <2>2. m # NoMsg BY <1>3 DEF NoMsg, Msg
  <2> QED BY <2>1, <2>2
<1> HIDE DEF m
<1>5. /\ serverQueue' \in Seq(Messages) /\ Len(serverQueue') <= mq_maxmsg
      /\ InQueue(serverQueue') = InQueue(serverQueue) \cup {m}
      /\ OneEach'
  <2>1. OneEach /\ m.type \notin {"INIT", "STOP"} BY <1>3 DEF IInv
  <2> QED BY <1>1, <1>2, <1>4, <2>1, PostAppends
<1>6. UNCHANGED <<spc, g_should_stop, is_stopping, clients, n_clients, outbox>> BY <1>1 DEF serverVars
<1>7. /\ cpc' \in [Clients -> {"off", "init", "loop", "send", "recv", "leave", "left", "vanished"}]
      /\ cpc'[c] \in {"recv", "loop"} /\ \A d \in Clients \ {c} : cpc'[d] = cpc[d]
      /\ unsent' \in [Clients -> Messages \cup {NoMsg}] /\ ready' \in [Clients -> BOOLEAN]
      /\ Askers' /\ QueueTypes'
  BY <1>1, TurnTypes
<1>8. TypeOK'
  <2>1. PostTypes' BY <1>5 DEF PostTypes
  <2>2. ClientTypes' BY <1>1, <1>2, <1>7, TypeParts DEF ClientTypes
  <2> QED BY <1>1, <1>2, <1>7, <2>1, <2>2, ClientStepTypes
<1>9. Replies'
  <2>1. \A d \in Clients : cpc[d] # "off" => cpc'[d] # "off" BY <1>7
  <2> QED BY <1>1, <1>6, <2>1, MovesKeep
<1>10. Matched'
  <2> SUFFICES ASSUME kills = 0 PROVE Holders' /\ Forgotten' BY <1>1 DEF Matched
  <2>1. Holders /\ Forgotten BY DEF IInv, Matched
  <2>2. \A d \in Clients : Linked(d)' = Linked(d) BY <1>1, <1>7 DEF Linked
  <2>3. Holders' BY <1>1, <1>6, <2>1, <2>2 DEF Holders
  <2>4. Used' = Used /\ \A i \in Used : clients[i] \in Clients BY <1>2, <1>6 DEF Used, TypeOK
  <2>5. \A d \in Clients : cpc'[d] = "left" => cpc[d] = "left" BY <1>7
  <2>6. Forgotten' BY <1>3, <1>5, <1>6, <2>1, <2>4, <2>5 DEF Forgotten
  <2> QED BY <2>3, <2>6
<1>11. Origins' BY <1>3, <1>5 DEF IInv, Origins
<1>12. Strangers'
  <2>1. \A d \in Clients : Waiting(d)' = Waiting(d) BY <1>3, <1>5 DEF Waiting
  <2> QED BY <1>1, <1>6, <1>7, <2>1 DEF IInv, Strangers
<1>13. LastWords' BY <1>1, <1>3, <1>5, <1>7 DEF IInv, LastWords, Origins
<1> QED BY <1>5, <1>6, <1>7, <1>8, <1>9, <1>10, <1>11, <1>12, <1>13, Untouched DEF IInv

\* the INIT a client reads gives it the slot that is its own
LEMMA ReceivesStep ==
  ASSUME IInv, NEW c \in Clients, Receives(c)
  PROVE  IInv'
<1>1. TypeOK BY DEF IInv
<1>2. /\ cpc[c] = "recv" /\ Goto(c, "loop")
      /\ UNCHANGED <<serverVars, unsent, ready, commands, serverQueue, sigints, kills>>
  BY DEF Receives
<1>3. UNCHANGED <<spc, g_should_stop, is_stopping, clients, n_clients, outbox>> BY <1>2 DEF serverVars
<1>4. /\ cpc' \in [Clients -> {"off", "init", "loop", "send", "recv", "leave", "left", "vanished"}]
      /\ cpc'[c] = "loop" /\ \A d \in Clients \ {c} : cpc'[d] = cpc[d]
  BY <1>1, <1>2, GotoMoves
<1>5. ~ready[c] BY <1>2 DEF IInv, Askers
<1> DEFINE q == clientQueue[c]
           k == Next_in(q)
           m == q[k]
           r == RemoveAt(q, k)
<1>6. q \in Seq(Messages) /\ Len(q) <= mq_maxmsg /\ q # <<>> BY <1>1, <1>2 DEF TypeOK
<1>7. /\ clientQueue' = [clientQueue EXCEPT ![c] = r]
      /\ client_id' = IF m.type = "INIT" THEN [client_id EXCEPT ![c] = m.id] ELSE client_id
      /\ should_stop' = IF m.type = "STOP" THEN [should_stop EXCEPT ![c] = TRUE] ELSE should_stop
  BY DEF Receives
<1>8. k \in DOMAIN q BY <1>6, NextInQueue
<1>9. m \in InQueue(q) BY <1>8 DEF InQueue
<1>10. m.type = "INIT" => m.id \in Ids BY <1>9 DEF IInv, Replies
<1>11. r \in Seq(Messages) /\ Len(r) = Len(q) - 1 /\ InQueue(r) \subseteq InQueue(q)
  BY <1>6, <1>8, RemoveMembers
<1>12. Len(r) <= mq_maxmsg BY <1>6, <1>11, MqAssumption, LenProperties
<1> HIDE DEF k, m, r
<1>13. /\ clientQueue' \in [Clients -> Seq(Messages)] /\ clientQueue'[c] = r
       /\ \A d \in Clients \ {c} : clientQueue'[d] = clientQueue[d]
  BY <1>1, <1>7, <1>11 DEF TypeOK
<1>14. /\ client_id' \in [Clients -> Ids \cup {-1}] /\ should_stop' \in [Clients -> BOOLEAN]
       /\ client_id'[c] = IF m.type = "INIT" THEN m.id ELSE client_id[c]
       /\ \A d \in Clients \ {c} : client_id'[d] = client_id[d]
  BY <1>1, <1>7, <1>10 DEF TypeOK
<1>15. TypeOK'
  <2>1. PostTypes' BY <1>1, <1>2, TypesKept
  <2>2. ClientTypes' BY <1>1, <1>2, <1>4, <1>14, TypeParts DEF ClientTypes
  <2>3. QueueTypes' BY <1>1, <1>2, <1>4, <1>5, <1>12, <1>13, TypeParts DEF QueueTypes
  <2> QED BY <1>1, <1>2, <2>1, <2>2, <2>3, ClientStepTypes
<1>16. \A d \in Clients : InQueue(clientQueue'[d]) \subseteq InQueue(clientQueue[d])
  BY <1>11, <1>13
<1>17. Replies'
  <2>1. \A d \in Clients : cpc[d] # "off" => cpc'[d] # "off" BY <1>4
  <2> QED BY <1>2, <1>3, <1>16, <2>1, MovesKeep
<1>18. Matched'
  <2> SUFFICES ASSUME kills = 0 PROVE Holders' /\ Forgotten' BY <1>2 DEF Matched
  <2>1. Holders /\ Forgotten BY DEF IInv, Matched
  <2>2. Linked(c) /\ \A d \in Clients : Linked(d)' = Linked(d) BY <1>2, <1>4 DEF Linked
  <2>3. client_id'[c] # -1 => clients[client_id'[c]] = c
    <3>1. client_id[c] # -1 => clients[client_id[c]] = c BY <2>1, <2>2 DEF Holders
    <3>2. m.type = "INIT" => clients[m.id] = c BY <1>9, <2>1, <2>2 DEF Holders
    <3> QED BY <1>14, <3>1, <3>2
  <2>4. Holders'
    <3>1. ASSUME NEW d \in Clients, Linked(d)
          PROVE  /\ client_id'[d] # -1 => clients[client_id'[d]] = d
                 /\ \A n \in InQueue(clientQueue'[d]) : n.type = "INIT" => clients[n.id] = d
      <4>1. client_id'[d] # -1 => clients[client_id'[d]] = d
        BY <1>14, <2>1, <2>3, <3>1 DEF Holders
      <4>2. \A n \in InQueue(clientQueue'[d]) : n.type = "INIT" => clients[n.id] = d
        BY <1>16, <2>1, <3>1 DEF Holders
      <4> QED BY <4>1, <4>2
    <3> QED BY <1>3, <2>1, <2>2, <3>1 DEF Holders
  <2>5. Used' = Used /\ \A i \in Used : clients[i] \in Clients BY <1>1, <1>3 DEF Used, TypeOK
  <2>6. \A d \in Clients : cpc'[d] = "left" => cpc[d] = "left" BY <1>4
  <2>7. Forgotten' BY <1>2, <1>3, <2>1, <2>5, <2>6 DEF Forgotten
  <2> QED BY <2>4, <2>7
<1>19. Strangers'
  <2>1. \A d \in Clients : Waiting(d)' = Waiting(d) BY <1>2 DEF Waiting
  <2> QED BY <1>3, <1>4, <1>13, <1>14, <2>1 DEF IInv, Strangers
<1>20. LastWords' BY <1>2, <1>4 DEF IInv, LastWords, Origins
<1>21. Askers' BY <1>2, <1>4, <1>5 DEF IInv, Askers
<1> QED BY <1>2, <1>3, <1>15, <1>17, <1>18, <1>19, <1>20, <1>21, Untouched DEF IInv

\* A client that leaves has no queue to read from, though the server may still have it open.
LEMMA QueueDeleted ==
  ASSUME IInv, NEW c \in Clients, client_delete_queue(c), UNCHANGED ready, ~ready[c],
         cpc'[c] \in {"left", "vanished"}, \A d \in Clients \ {c} : cpc'[d] = cpc[d]
  PROVE  /\ QueueTypes'
         /\ \A d \in Clients : InQueue(clientQueue'[d]) \subseteq InQueue(clientQueue[d])
         /\ \A d \in Clients \ {c} : clientQueue'[d] = clientQueue[d]
<1>1. TypeOK BY DEF IInv
<1>2. UNCHANGED clientQueue \/ clientQueue' = [clientQueue EXCEPT ![c] = <<>>]
  BY DEF client_delete_queue
<1>3. /\ clientQueue' \in [Clients -> Seq(Messages)]
      /\ clientQueue'[c] \in {clientQueue[c], <<>>}
      /\ \A d \in Clients \ {c} : clientQueue'[d] = clientQueue[d]
  <2>1. clientQueue \in [Clients -> Seq(Messages)] BY <1>1 DEF TypeOK
  <2>2. CASE UNCHANGED clientQueue BY <2>1, <2>2
  <2>3. CASE clientQueue' = [clientQueue EXCEPT ![c] = <<>>] BY <2>1, <2>3
  <2> QED BY <1>2, <2>2, <2>3
<1>4. InQueue(<<>>) = {} /\ Len(<<>>) <= mq_maxmsg BY MqAssumption DEF InQueue
<1>5. Len(clientQueue'[c]) <= mq_maxmsg BY <1>1, <1>3, <1>4 DEF TypeOK
<1>6. QueueTypes' BY <1>1, <1>3, <1>5, TypeParts DEF QueueTypes
<1> QED BY <1>3, <1>4, <1>6

\* until a server is killed the STOP of a client that has an id names its own slot
LEMMA LeavesStep ==
  ASSUME IInv, NEW c \in Clients, Leaves(c)
  PROVE  IInv'
<1>1. TypeOK BY DEF IInv
<1>2. /\ cpc[c] = "leave" /\ client_delete_queue(c)
      /\ UNCHANGED <<serverVars, should_stop, unsent, ready, commands, sigints, kills>>
  BY DEF Leaves
<1>3. UNCHANGED <<spc, g_should_stop, is_stopping, clients, n_clients, outbox>> BY <1>2 DEF serverVars
<1> DEFINE id == client_id[c]
           m == Msg("STOP", c, id)
           Told == id # -1
<1>4. /\ ~Told => serverQueue' = serverQueue /\ client_id' = client_id /\ Goto(c, "vanished")
      /\ Told => Post(m) /\ client_id' = [client_id EXCEPT ![c] = -1] /\ Goto(c, "left")
  BY DEF Leaves
<1>5. m.type = "STOP" /\ m.by = c /\ m.id = id /\ (Told => id \in Ids /\ m \in Messages)
  <2>1. id \in Ids \cup {-1} BY <1>1 DEF TypeOK
  <2> QED BY <2>1 DEF Msg, Messages, MsgTypes
<1> HIDE DEF m
<1>6. /\ serverQueue' \in Seq(Messages) /\ Len(serverQueue') <= mq_maxmsg
      /\ Told => InQueue(serverQueue') = InQueue(serverQueue) \cup {m}
      /\ OneEach'
  <2>1. OneEach /\ \A n \in InQueue(serverQueue) : n.type = "STOP" => n.by # c
    BY <1>2 DEF IInv, LastWords
  <2>2. CASE Told BY <1>1, <1>4, <1>5, <2>1, <2>2, PostAppends
  <2>3. CASE ~Told BY <1>1, <1>4, <2>1, <2>3 DEF TypeOK, OneEach
  <2> QED BY <2>2, <2>3
<1>7. /\ InQueue(serverQueue) \subseteq InQueue(serverQueue')
      /\ \A n \in InQueue(serverQueue') : n \in InQueue(serverQueue) \/ (Told /\ n = m)
  BY <1>4, <1>6
<1>8. /\ cpc' \in [Clients -> {"off", "init", "loop", "send", "recv", "leave", "left", "vanished"}]
      /\ cpc'[c] \in {"left", "vanished"} /\ (cpc'[c] = "left" <=> Told)
      /\ \A d \in Clients \ {c} : cpc'[d] = cpc[d]
  <2>1. CASE Told BY <1>1, <1>4, <2>1, GotoMoves
  <2>2. CASE ~Told BY <1>1, <1>4, <2>2, GotoMoves
  <2> QED BY <2>1, <2>2
<1>9. /\ client_id' \in [Clients -> Ids \cup {-1}]
      /\ \A d \in Clients \ {c} : client_id'[d] = client_id[d]
  BY <1>1, <1>4 DEF TypeOK
<1>10. ~ready[c] BY <1>2 DEF IInv, Askers
<1>11. /\ QueueTypes' /\ \A d \in Clients : InQueue(clientQueue'[d]) \subseteq InQueue(clientQueue[d])
       /\ \A d \in Clients \ {c} : clientQueue'[d] = clientQueue[d]
  BY <1>2, <1>8, <1>10, QueueDeleted
<1>12. TypeOK'
  <2>1. PostTypes' BY <1>6 DEF PostTypes
  <2>2. ClientTypes' BY <1>1, <1>2, <1>8, <1>9, TypeParts DEF ClientTypes
  <2> QED BY <1>1, <1>2, <1>11, <2>1, <2>2, ClientStepTypes
<1>13. Replies'
  <2>1. \A d \in Clients : cpc[d] # "off" => cpc'[d] # "off" BY <1>8
  <2> QED BY <1>2, <1>3, <1>11, <2>1, MovesKeep
<1>14. Matched'
  <2> SUFFICES ASSUME kills = 0 PROVE Holders' /\ Forgotten' BY <1>2 DEF Matched
  <2>1. Holders /\ Forgotten BY DEF IInv, Matched
  <2>2. Linked(c) /\ ~Linked(c)' /\ \A d \in Clients \ {c} : Linked(d)' = Linked(d)
    BY <1>2, <1>8 DEF Linked
  <2>3. Told => clients[id] = c BY <2>1, <2>2 DEF Holders
  <2>4. Holders' BY <1>3, <1>9, <1>11, <2>1, <2>2 DEF Holders
  <2>5. Used' = Used /\ \A i \in Used : clients[i] \in Clients BY <1>1, <1>3 DEF Used, TypeOK
  <2>6. ASSUME NEW i \in Used, cpc'[clients[i]] = "left"
        PROVE  \E n \in InQueue(serverQueue') : n.type = "STOP" /\ n.id = i /\ n.by = clients[i]
    <3>1. CASE clients[i] = c
      <4>1. Told /\ clients[id] = c /\ id \in Ids BY <1>5, <1>8, <2>3, <2>6, <3>1
      <4>2. id \in Used BY <4>1, MqAssumption DEF Used
      <4>3. i = id BY <3>1, <4>1, <4>2 DEF IInv, DescriptorsCounted
      <4> QED BY <1>5, <1>6, <3>1, <4>1, <4>3
    <3>2. CASE clients[i] # c
      BY <1>7, <1>8, <2>1, <2>5, <2>6, <3>2 DEF Forgotten
    <3> QED BY <3>1, <3>2
  <2>7. \A n \in InQueue(serverQueue') : n.type = "STOP" => clients[n.id] = n.by
    BY <1>5, <1>7, <2>1, <2>3 DEF Forgotten
  <2>8. Forgotten' BY <1>3, <2>5, <2>6, <2>7 DEF Forgotten
  <2> QED BY <2>4, <2>8
<1>15. Origins' BY <1>5, <1>7 DEF IInv, Origins
<1>16. Strangers'
  <2>1. \A d \in Clients : Waiting(d)' = Waiting(d) BY <1>5, <1>7 DEF Waiting
  <2> QED BY <1>2, <1>3, <1>8, <1>9, <1>11, <2>1 DEF IInv, Strangers
<1>17. LastWords' BY <1>2, <1>5, <1>7, <1>8 DEF IInv, LastWords, Origins
<1>18. Askers' BY <1>2, <1>8, <1>10 DEF IInv, Askers
<1> QED BY <1>3, <1>6, <1>12, <1>13, <1>14, <1>15, <1>16, <1>17, <1>18, Untouched DEF IInv

LEMMA ClientSigintStep ==
  ASSUME IInv, NEW c \in Clients, ClientSigint(c)
  PROVE  IInv'
<1>1. TypeOK BY DEF IInv
<1>2. /\ Linked(c) /\ sigints < MaxSigints /\ sigints' = sigints + 1
      /\ should_stop' = [should_stop EXCEPT ![c] = TRUE]
      /\ UNCHANGED <<serverVars, client_id, commands, serverQueue, kills>>
  BY DEF ClientSigint
<1>3. UNCHANGED <<spc, g_should_stop, is_stopping, clients, n_clients, outbox>> BY <1>2 DEF serverVars
<1>4. should_stop' \in [Clients -> BOOLEAN] BY <1>1, <1>2 DEF TypeOK
<1>5. /\ cpc' \in [Clients -> {"off", "init", "loop", "send", "recv", "leave", "left", "vanished"}]
      /\ cpc'[c] \in {cpc[c], "leave", "recv", "loop", "vanished"}
      /\ \A d \in Clients \ {c} : cpc'[d] = cpc[d] /\ clientQueue'[d] = clientQueue[d]
      /\ unsent' \in [Clients -> Messages \cup {NoMsg}] /\ ready' \in [Clients -> BOOLEAN]
      /\ \A d \in Clients : InQueue(clientQueue'[d]) \subseteq InQueue(clientQueue[d])
      /\ Askers' /\ QueueTypes'
  <2>1. CASE UNCHANGED <<cpc, unsent, ready, clientQueue>>
    <3>1. Askers' BY <2>1, Untouched
    <3>2. QueueTypes' BY <1>1, <2>1, TypesKept
    <3> QED BY <1>1, <2>1, <3>1, <3>2 DEF TypeOK
  <2>2. CASE cpc[c] = "init" /\ Goto(c, "leave") /\ UNCHANGED <<unsent, ready, clientQueue>>
    <3>1. /\ cpc' \in [Clients -> {"off", "init", "loop", "send", "recv", "leave", "left", "vanished"}]
          /\ cpc'[c] = "leave" /\ \A d \in Clients \ {c} : cpc'[d] = cpc[d]
      BY <1>1, <2>2, GotoMoves
    <3>2. ~ready[c] BY <2>2 DEF IInv, Askers
    <3>3. Askers' BY <2>2, <3>1, <3>2 DEF IInv, Askers
    <3>4. QueueTypes' BY <1>1, <2>2, <3>1, <3>2, TypeParts DEF QueueTypes
    <3> QED BY <1>1, <2>2, <3>1, <3>3, <3>4 DEF TypeOK
  <2>3. CASE cpc[c] = "send" /\ Turns(c) /\ UNCHANGED clientQueue
    BY <1>1, <2>3, TurnTypes
  <2>4. CASE cpc[c] = "leave" /\ Goto(c, "vanished") /\ client_delete_queue(c) /\ UNCHANGED <<unsent, ready>>
    <3>1. /\ cpc' \in [Clients -> {"off", "init", "loop", "send", "recv", "leave", "left", "vanished"}]
          /\ cpc'[c] = "vanished" /\ \A d \in Clients \ {c} : cpc'[d] = cpc[d]
      BY <1>1, <2>4, GotoMoves
    <3>2. ~ready[c] BY <2>4 DEF IInv, Askers
    <3>3. Askers' BY <2>4, <3>1, <3>2 DEF IInv, Askers
    <3>4. /\ QueueTypes' /\ \A d \in Clients : InQueue(clientQueue'[d]) \subseteq InQueue(clientQueue[d])
          /\ \A d \in Clients \ {c} : clientQueue'[d] = clientQueue[d]
      BY <2>4, <3>1, <3>2, QueueDeleted
    <3> QED BY <1>1, <2>4, <3>1, <3>3, <3>4 DEF TypeOK
  <2> QED BY <2>1, <2>2, <2>3, <2>4 DEF ClientSigint
<1>6. TypeOK'
  <2>1. PostTypes' BY <1>1, <1>2, TypesKept
  <2>2. ClientTypes' BY <1>1, <1>2, <1>4, <1>5, TypeParts DEF ClientTypes
  <2> QED BY <1>1, <1>2, <1>5, <2>1, <2>2, ClientStepTypes
<1>7. Replies' /\ Matched'
  <2>1. \A d \in Clients : cpc[d] # "off" => cpc'[d] # "off" BY <1>2, <1>5 DEF Linked
  <2>2. \A d \in Clients : Linked(d)' => Linked(d) BY <1>2, <1>5 DEF Linked
  <2>3. \A d \in Clients : cpc'[d] = "left" => cpc[d] = "left" BY <1>5
  <2> QED BY <1>2, <1>3, <1>5, <2>1, <2>2, <2>3, MovesKeep
<1>8. Strangers'
  <2>1. \A d \in Clients : Waiting(d)' = Waiting(d) BY <1>2 DEF Waiting
  <2>2. cpc'[c] # "off" /\ (cpc'[c] = "init" => cpc[c] = "init") BY <1>2, <1>5 DEF Linked
  <2> QED BY <1>2, <1>3, <1>5, <2>1, <2>2 DEF IInv, Strangers
<1>9. LastWords' BY <1>2, <1>5 DEF IInv, LastWords, Origins, Linked
<1> QED BY <1>2, <1>3, <1>5, <1>6, <1>7, <1>8, <1>9, Untouched DEF IInv

-----------------------------------------------------------------------------
(* Steps of the server.                                                    *)

\* The queues that are gone when the server closes descriptors are of no client that has a name
\* for its queue.
LEMMA KeptQueues ==
  ASSUME IInv, NEW open, clientQueue' = Kept(open), UNCHANGED clientVars
  PROVE  /\ QueueTypes'
         /\ \A d \in Clients : InQueue(clientQueue'[d]) \subseteq InQueue(clientQueue[d])
         /\ \A d \in Clients : clientQueue'[d] = clientQueue[d] \/ clientQueue'[d] = <<>>
         /\ \A d \in Clients : Linked(d) => clientQueue'[d] = clientQueue[d]
<1>1. TypeOK /\ UNCHANGED <<cpc, ready>> BY DEF IInv, clientVars
<1>2. \A d \in Clients : clientQueue'[d] = IF Linked(d) \/ d \in open THEN clientQueue[d] ELSE <<>>
  BY DEF Kept
<1>3. clientQueue' \in [Clients -> Seq(Messages)]
  <2>1. clientQueue \in [Clients -> Seq(Messages)] BY <1>1 DEF TypeOK
  <2>2. \A d \in Clients : (IF Linked(d) \/ d \in open THEN clientQueue[d] ELSE <<>>) \in Seq(Messages)
    BY <2>1
  <2> QED BY <2>2 DEF Kept
<1>4. InQueue(<<>>) = {} /\ Len(<<>>) <= mq_maxmsg BY MqAssumption DEF InQueue
<1>5. \A d \in Clients : cpc[d] = "recv" \/ ready[d] => Linked(d) BY DEF IInv, Askers, Linked
<1>6. QueueTypes'
  <2>1. \A d \in Clients : Len(clientQueue'[d]) <= mq_maxmsg BY <1>1, <1>2, <1>4 DEF TypeOK
  <2>2. \A d \in Clients : cpc[d] = "recv" \/ ready[d] => clientQueue'[d] # <<>>
    BY <1>1, <1>2, <1>5 DEF TypeOK
  <2> QED BY <1>1, <1>3, <2>1, <2>2 DEF QueueTypes
<1> QED BY <1>2, <1>4, <1>6

\* What is kept when the server goes on, or closes descriptors of clients that are gone.
LEMMA ServerKeeps ==
  ASSUME IInv, UNCHANGED clientVars,
         \A d \in Clients : clientQueue'[d] = clientQueue[d] \/ clientQueue'[d] = <<>>
  PROVE  /\ Askers'
         /\ UNCHANGED serverQueue => LastWords'
         /\ InQueue(outbox') \subseteq InQueue(outbox) => Replies'
         /\ UNCHANGED <<clients, serverQueue>> => Strangers'
         /\ /\ UNCHANGED <<clients, serverQueue, kills>> /\ InQueue(outbox') \subseteq InQueue(outbox)
            => Matched'
<1>1. UNCHANGED <<cpc, client_id, unsent, ready>> BY DEF clientVars
<1>2. Askers' BY <1>1, Untouched
<1>3. UNCHANGED serverQueue => LastWords' BY <1>1, Untouched
<1>4. \A d \in Clients : InQueue(clientQueue'[d]) \subseteq InQueue(clientQueue[d])
  <2>1. InQueue(<<>>) = {} BY DEF InQueue
  <2> QED BY <2>1
<1>5. InQueue(outbox') \subseteq InQueue(outbox) => Replies' BY <1>1, <1>4 DEF IInv, Replies
<1>6. UNCHANGED <<clients, serverQueue>> => Strangers'
  BY <1>1 DEF IInv, Strangers, Waiting
<1>7. ASSUME UNCHANGED <<clients, serverQueue, kills>>, InQueue(outbox') \subseteq InQueue(outbox), kills = 0
      PROVE  Holders' /\ Forgotten'
  <2>1. Holders /\ Forgotten BY <1>7 DEF IInv, Matched
  <2>2. \A d \in Clients : Linked(d)' = Linked(d) BY <1>1 DEF Linked
  <2>3. Holders' BY <1>1, <1>4, <1>7, <2>1, <2>2 DEF Holders
  <2>4. Forgotten' BY <1>1, <1>7, <2>1 DEF Forgotten, Used
  <2> QED BY <2>3, <2>4
<1> QED BY <1>2, <1>3, <1>5, <1>6, <1>7 DEF Matched

\* The parts of the types a step of the server may change, and those it leaves alone.
LEMMA ServerStepTypes ==
  ASSUME TypeOK, UNCHANGED clientVars, Bounds', ServerTypes', PostTypes', QueueTypes'
  PROVE  TypeOK'
<1>1. ClientTypes' BY TypesKept
<1>2. (ServerTypes /\ PostTypes /\ ClientTypes /\ QueueTypes /\ Bounds => TypeOK)' BY TypeParts, PTL
<1> QED BY <1>1, <1>2

LEMMA TestsStep ==
  ASSUME IInv, ServerTests
  PROVE  IInv'
<1>1. TypeOK BY DEF IInv
<1>2. /\ spc = "test" /\ spc' \in {"gone", "check"}
      /\ UNCHANGED <<g_should_stop, is_stopping, clients, n_clients, outbox, clientVars,
                     serverQueue, sigints, kills>>
      /\ UNCHANGED clientQueue \/ clientQueue' = Kept({})
  BY DEF ServerTests
<1>3. QueueTypes' /\ \A d \in Clients : clientQueue'[d] = clientQueue[d] \/ clientQueue'[d] = <<>>
  <2>1. CASE UNCHANGED clientQueue
    <3>1. UNCHANGED <<cpc, ready, clientQueue>> BY <1>2, <2>1 DEF clientVars
    <3> QED BY <1>1, <2>1, <3>1, TypesKept
  <2>2. CASE clientQueue' = Kept({}) BY <1>2, <2>2, KeptQueues
  <2> QED BY <1>2, <2>1, <2>2
<1>4. TypeOK'
  <2>1. ServerTypes' BY <1>1, <1>2, TypeParts DEF ServerTypes
  <2>2. PostTypes' /\ Bounds' BY <1>1, <1>2, TypesKept
  <2> QED BY <1>1, <1>2, <1>3, <2>1, <2>2, ServerStepTypes
<1>5. Quiet' BY <1>2 DEF IInv, Quiet
<1> QED BY <1>2, <1>3, <1>4, <1>5, ServerKeeps, Untouched DEF IInv

\* What server_stop and the handlers send.
LEMMA ToTypes ==
  ASSUME NEW c \in Clients \cup {Nobody}, NEW type \in MsgTypes,
         NEW by \in Clients \cup {Nobody}, NEW id \in Ids
  PROVE  /\ To(c, Msg(type, by, id)) \in [to : Clients \cup {Nobody}, msg : Messages]
         /\ To(c, Msg(type, by, id)).to = c /\ To(c, Msg(type, by, id)).msg.type = type
         /\ To(c, Msg(type, by, id)).msg.id = id
<1>1. Msg(type, by, id) \in Messages BY DEF Msg, Messages
<1>2. Msg(type, by, id).type = type /\ Msg(type, by, id).id = id BY DEF Msg
<1> QED BY <1>1, <1>2 DEF To

\* A loop over the table sends as many messages as it has places, whatever they are.
LEMMA Loop ==
  ASSUME NEW S, NEW f \in [Places -> S]
  PROVE  /\ f \in Seq(S) /\ f # <<>>
         /\ \A o \in InQueue(f) : \E k \in Places : o = f[k]
<1>1. f \in Seq(S) BY MqAssumption DEF Places
<1>2. 1 \in DOMAIN f /\ DOMAIN f = Places BY MqAssumption DEF Places
<1>3. f # <<>> BY <1>2
<1>4. \A o \in InQueue(f) : \E k \in Places : o = f[k] BY <1>2 DEF InQueue
<1> QED BY <1>1, <1>3, <1>4

\* A registered client has been started.
LEMMA Registered ==
  ASSUME IInv, NEW i \in Ids
  PROVE  clients[i] \in Clients \cup {Nobody} /\ (clients[i] # Nobody => cpc[clients[i]] # "off")
<1>1. clients[i] \in Clients \cup {Nobody} BY DEF IInv, TypeOK
<1> QED BY <1>1 DEF IInv, Strangers

LEMMA StopStep ==
  ASSUME IInv, server_stop
  PROVE  IInv'
<1>1. TypeOK BY DEF IInv
<1>2. /\ spc = "check"
      /\ UNCHANGED <<g_should_stop, clients, n_clients, clientVars, serverQueue, clientQueue,
                     sigints, kills>>
  BY DEF server_stop
<1>3. UNCHANGED <<cpc, ready, clientQueue>> BY <1>2 DEF clientVars
<1>4. PostTypes' /\ QueueTypes' /\ Bounds' BY <1>1, <1>2, <1>3, TypesKept
<1>5. CASE UNCHANGED <<is_stopping, outbox>> /\ spc' = "recv"
  <2>1. ServerTypes' BY <1>1, <1>2, <1>5, TypeParts DEF ServerTypes
  <2>2. TypeOK' BY <1>1, <1>2, <1>4, <2>1, ServerStepTypes
  <2>3. Quiet' BY <1>2, <1>5 DEF IInv, Quiet
  <2> QED BY <1>2, <1>5, <2>2, <2>3, ServerKeeps, Untouched DEF IInv
<1>6. CASE /\ spc' = "stop" /\ is_stopping' = TRUE
           /\ outbox' = [k \in Places |-> To(clients[IdAt(k)], Msg("STOP", Nobody, IdAt(k)))]
  <2> DEFINE Outgoing == [to : Clients \cup {Nobody}, msg : Messages]
             F(k) == To(clients[IdAt(k)], Msg("STOP", Nobody, IdAt(k)))
  <2>1. ASSUME NEW k \in Places
        PROVE  /\ F(k) \in Outgoing /\ F(k).msg.type = "STOP"
               /\ F(k).to # Nobody => cpc[F(k).to] # "off"
    <3>1. IdAt(k) \in Ids BY MqAssumption DEF Places, IdAt, Ids
    <3>2. /\ clients[IdAt(k)] \in Clients \cup {Nobody}
          /\ clients[IdAt(k)] # Nobody => cpc[clients[IdAt(k)]] # "off"
      BY <3>1, Registered
    <3>0. Nobody \in Clients \cup {Nobody} /\ "STOP" \in MsgTypes BY DEF MsgTypes
    <3>3. F(k) \in Outgoing /\ F(k).msg.type = "STOP" /\ F(k).to = clients[IdAt(k)]
      BY <3>0, <3>1, <3>2, ToTypes
    <3> QED BY <3>2, <3>3
  <2> HIDE DEF F, Outgoing
  <2>2. outbox' = [k \in Places |-> F(k)] BY <1>6 DEF F
  <2>3. outbox' \in Seq(Outgoing) /\ outbox' # <<>> /\ \A o \in InQueue(outbox') : \E k \in Places : o = F(k)
    <3>1. outbox' \in [Places -> Outgoing] BY <2>1, <2>2
    <3>2. /\ outbox' \in Seq(Outgoing) /\ outbox' # <<>>
          /\ \A o \in InQueue(outbox') : \E k \in Places : o = outbox'[k]
      BY <3>1, Loop
    <3> QED BY <2>2, <3>2
  <2>4. ServerTypes' BY <1>1, <1>2, <1>6, <2>3, TypeParts DEF ServerTypes, Outgoing
  <2>5. TypeOK' BY <1>1, <1>2, <1>4, <2>4, ServerStepTypes
  <2>6. Quiet' BY <1>6, <2>3 DEF Quiet
  <2>7. Replies' BY <1>2, <1>3, <2>1, <2>3 DEF IInv, Replies
  <2>8. Matched'
    <3> SUFFICES ASSUME kills = 0 PROVE Holders' /\ Forgotten' BY <1>2 DEF Matched
    <3>1. Holders /\ Forgotten BY DEF IInv, Matched
    <3>2. UNCHANGED <<cpc, client_id>> BY <1>2 DEF clientVars
    <3>3. \A d \in Clients : Linked(d)' = Linked(d) BY <3>2 DEF Linked
    <3>4. \A o \in InQueue(outbox') : o.msg.type # "INIT" BY <2>1, <2>3
    <3>5. Holders' BY <1>2, <3>1, <3>2, <3>3, <3>4 DEF Holders
    <3>6. Forgotten' BY <1>2, <3>1, <3>2 DEF Forgotten, Used
    <3> QED BY <3>5, <3>6
  <2> QED BY <1>2, <2>5, <2>6, <2>7, <2>8, ServerKeeps, Untouched DEF IInv
<1> QED BY <1>5, <1>6 DEF server_stop

\* What is left of outbox after a send, or after one that was interrupted.
LEMMA SentTypes ==
  ASSUME IInv, Sent, spc \in {"stop", "reply"}
  PROVE  /\ outbox # <<>> /\ Head(outbox) \in InQueue(outbox)
         /\ Head(outbox) \in [to : Clients \cup {Nobody}, msg : Messages]
         /\ outbox' \in Seq([to : Clients \cup {Nobody}, msg : Messages])
         /\ InQueue(outbox') \subseteq InQueue(outbox)
         /\ Quiet' /\ spc' \in {"stop", "reply", "recv", "test"}
<1> DEFINE Outgoing == [to : Clients \cup {Nobody}, msg : Messages]
<1>1. outbox \in Seq(Outgoing) /\ outbox # <<>> BY DEF IInv, TypeOK, Quiet
<1>2. /\ Tail(outbox) \in Seq(Outgoing) /\ InQueue(Tail(outbox)) \subseteq InQueue(outbox)
      /\ Head(outbox) \in InQueue(outbox) /\ Head(outbox) \in Outgoing
      /\ Tail(outbox) # <<>> <=> Len(outbox) > 1
  <2> HIDE DEF Outgoing
  <2> QED BY <1>1, TailMembers
<1>3. outbox' = Tail(outbox)
      /\ spc' = IF Len(outbox) > 1 THEN spc ELSE IF spc = "stop" THEN "recv" ELSE "test"
  BY DEF Sent
<1>4. Quiet' BY <1>2, <1>3 DEF Quiet
<1> QED BY <1>1, <1>2, <1>3, <1>4

\* a message goes to a queue that has room, and what it says is still true there
LEMMA SendStep ==
  ASSUME IInv, ServerSends
  PROVE  IInv'
<1>1. TypeOK BY DEF IInv
<1> DEFINE c == Head(outbox).to
           m == Head(outbox).msg
<1>2. /\ spc \in {"stop", "reply"} /\ Sent
      /\ UNCHANGED <<g_should_stop, is_stopping, clients, n_clients, clientVars, serverQueue,
                     sigints, kills>>
      /\ \/ /\ c # Nobody /\ ~Full(clientQueue[c])
            /\ clientQueue' = [clientQueue EXCEPT ![c] = Append(@, m)]
         \/ UNCHANGED clientQueue
  BY DEF ServerSends
<1>3. /\ outbox # <<>> /\ Head(outbox) \in InQueue(outbox)
      /\ Head(outbox) \in [to : Clients \cup {Nobody}, msg : Messages]
      /\ outbox' \in Seq([to : Clients \cup {Nobody}, msg : Messages])
      /\ InQueue(outbox') \subseteq InQueue(outbox)
      /\ Quiet' /\ spc' \in {"stop", "reply", "recv", "test"}
  BY <1>2, SentTypes
<1>4. /\ c \in Clients \cup {Nobody} /\ m \in Messages
      /\ c # Nobody => cpc[c] # "off"
      /\ m.type = "INIT" => m.id \in Ids
  BY <1>3 DEF IInv, Replies
<1>5. kills = 0 /\ m.type = "INIT" => clients[m.id] = c BY <1>3 DEF IInv, Matched, Holders
<1>6. UNCHANGED <<cpc, client_id, should_stop, unsent, ready, commands>> BY <1>2 DEF clientVars
<1> HIDE DEF c, m
<1>7. /\ QueueTypes'
      /\ \A d \in Clients : \A n \in InQueue(clientQueue'[d]) :
            n \in InQueue(clientQueue[d]) \/ (d = c /\ n = m)
      /\ \A d \in Clients : clientQueue'[d] = clientQueue[d] \/ cpc[d] # "off"
  <2>1. CASE UNCHANGED clientQueue
    <3>1. QueueTypes' BY <1>1, <1>6, <2>1, TypesKept
    <3> QED BY <2>1, <3>1
  <2>2. CASE /\ c # Nobody /\ ~Full(clientQueue[c])
             /\ clientQueue' = [clientQueue EXCEPT ![c] = Append(@, m)]
    <3>1. c \in Clients /\ clientQueue[c] \in Seq(Messages) BY <1>1, <1>4, <2>2 DEF TypeOK
    <3> DEFINE r == Append(clientQueue[c], m)
    <3>2. r \in Seq(Messages) /\ Len(r) = Len(clientQueue[c]) + 1
          /\ InQueue(r) = InQueue(clientQueue[c]) \cup {m}
      BY <1>4, <3>1, AppendMembers
    <3>3. r # <<>> BY <1>4, <3>1, AppendProperties
    <3>4. Len(r) <= mq_maxmsg BY <2>2, <3>1, <3>2, MqAssumption, LenProperties DEF Full
    <3>5. clientQueue' = [clientQueue EXCEPT ![c] = r] BY <2>2
    <3> HIDE DEF r
    <3>6. /\ clientQueue'[c] = r /\ clientQueue' \in [Clients -> Seq(Messages)]
          /\ \A d \in Clients \ {c} : clientQueue'[d] = clientQueue[d]
      BY <1>1, <3>1, <3>2, <3>5 DEF TypeOK
    <3>7. QueueTypes' BY <1>1, <1>6, <3>3, <3>4, <3>6, TypeParts DEF QueueTypes
    <3> QED BY <1>4, <2>2, <3>2, <3>6, <3>7
  <2> QED BY <1>2, <2>1, <2>2
<1>8. TypeOK'
  <2>1. ServerTypes' BY <1>1, <1>2, <1>3, TypeParts DEF ServerTypes
  <2>2. PostTypes' /\ Bounds' BY <1>1, <1>2, TypesKept
  <2> QED BY <1>1, <1>2, <1>7, <2>1, <2>2, ServerStepTypes
<1>9. Replies' BY <1>3, <1>4, <1>6, <1>7 DEF IInv, Replies
<1>10. Matched'
  <2> SUFFICES ASSUME kills = 0 PROVE Holders' /\ Forgotten' BY <1>2 DEF Matched
  <2>1. Holders /\ Forgotten BY DEF IInv, Matched
  <2>2. \A d \in Clients : Linked(d)' = Linked(d) BY <1>6 DEF Linked
  <2>3. \A d \in Clients : Linked(d) =>
          \A n \in InQueue(clientQueue'[d]) : n.type = "INIT" => clients[n.id] = d
    BY <1>5, <1>7, <2>1 DEF Holders
  <2>4. Holders' BY <1>2, <1>3, <1>6, <2>1, <2>2, <2>3 DEF Holders
  <2>5. Forgotten' BY <1>2, <1>6, <2>1 DEF Forgotten, Used
  <2> QED BY <2>4, <2>5
<1>11. Strangers'
  <2>1. \A d \in Clients : Waiting(d)' = Waiting(d) BY <1>2 DEF Waiting
  <2> QED BY <1>2, <1>6, <1>7, <2>1 DEF IInv, Strangers
<1> QED BY <1>2, <1>3, <1>6, <1>8, <1>9, <1>10, <1>11, Untouched DEF IInv

LEMMA ServerSigintStep ==
  ASSUME IInv, ServerSigint
  PROVE  IInv'
<1>1. TypeOK BY DEF IInv
<1>2. /\ sigints < MaxSigints /\ sigints' = sigints + 1 /\ g_should_stop' = TRUE
      /\ UNCHANGED <<is_stopping, clients, n_clients, clientVars, serverQueue, clientQueue, kills>>
  BY DEF ServerSigint
<1>3. \/ UNCHANGED <<spc, outbox>>
      \/ spc = "recv" /\ spc' = "test" /\ UNCHANGED outbox
      \/ spc \in {"stop", "reply"} /\ Sent
  BY DEF ServerSigint, ServerBlocked
<1>4. /\ outbox' \in Seq([to : Clients \cup {Nobody}, msg : Messages])
      /\ InQueue(outbox') \subseteq InQueue(outbox)
      /\ Quiet' /\ spc' \in {spc, "stop", "reply", "recv", "test"}
  <2>1. CASE UNCHANGED <<spc, outbox>> BY <1>1, <2>1, Untouched DEF TypeOK
  <2>2. CASE spc = "recv" /\ spc' = "test" /\ UNCHANGED outbox
    BY <1>1, <2>2 DEF TypeOK, IInv, Quiet
  <2>3. CASE spc \in {"stop", "reply"} /\ Sent BY <2>3, SentTypes
  <2> QED BY <1>3, <2>1, <2>2, <2>3
<1>5. TypeOK'
  <2>1. ServerTypes' BY <1>1, <1>2, <1>4, TypeParts DEF ServerTypes
  <2>2. UNCHANGED <<cpc, ready, clientQueue>> BY <1>2 DEF clientVars
  <2>3. PostTypes' /\ QueueTypes' BY <1>1, <1>2, <2>2, TypesKept
  <2>4. Bounds' BY <1>1, <1>2, MqAssumption DEF TypeOK, Bounds
  <2> QED BY <1>1, <1>2, <2>1, <2>3, <2>4, ServerStepTypes
<1> QED BY <1>2, <1>4, <1>5, ServerKeeps, Untouched DEF IInv

\* SIGKILL leaves the server's queue, and of the clients' those that have a name. From then on
\* the ids in the messages may be anybody's.
LEMMA KilledStep ==
  ASSUME IInv, ServerKilled
  PROVE  IInv'
<1>1. TypeOK BY DEF IInv
<1>2. /\ kills < MaxKills /\ kills' = kills + 1 /\ spc' = "down"
      /\ g_should_stop' = FALSE /\ is_stopping' = FALSE
      /\ clients' = [i \in Ids |-> Nobody] /\ n_clients' = 0 /\ outbox' = <<>>
      /\ clientQueue' = Kept({}) /\ UNCHANGED <<clientVars, serverQueue, sigints>>
  BY DEF ServerKilled
<1>3. QueueTypes' /\ \A d \in Clients : clientQueue'[d] = clientQueue[d] \/ clientQueue'[d] = <<>>
  BY <1>2, KeptQueues
<1>4. TypeOK'
  <2>1. ServerTypes'
    <3>1. clients' \in [Ids -> Clients \cup {Nobody}] BY <1>2
    <3>2. outbox' \in Seq([to : Clients \cup {Nobody}, msg : Messages]) BY <1>2
    <3>3. n_clients' \in 0 .. SERVER_MAX_CLIENTS BY <1>2, MqAssumption
    <3> QED BY <1>2, <3>1, <3>2, <3>3 DEF ServerTypes
  <2>2. Bounds' BY <1>1, <1>2, MqAssumption DEF TypeOK, Bounds
  <2>3. PostTypes' BY <1>1, <1>2, TypesKept
  <2> QED BY <1>1, <1>2, <1>3, <2>1, <2>2, <2>3, ServerStepTypes
<1>5. DescriptorsCounted'
  <2>1. Used' = {} BY <1>2 DEF Used
  <2> QED BY <1>2, <2>1, FS_EmptySet DEF DescriptorsCounted
<1>6. Quiet' BY <1>2 DEF Quiet
<1>7. Matched' BY <1>1, <1>2, MqAssumption DEF Matched, TypeOK
<1>8. Strangers'
  <2>1. \A d \in Clients : Waiting(d)' = Waiting(d) BY <1>2 DEF Waiting
  <2>2. \A i \in Ids : clients'[i] = Nobody BY <1>2
  <2>3. UNCHANGED <<cpc, client_id>> BY <1>2 DEF clientVars
  <2> QED BY <1>3, <2>1, <2>2, <2>3, MqAssumption DEF IInv, Strangers
<1>9. Replies'
  <2>1. InQueue(outbox') \subseteq InQueue(outbox) BY <1>2 DEF InQueue
  <2> QED BY <1>2, <1>3, <2>1, ServerKeeps
<1> QED BY <1>2, <1>3, <1>4, <1>5, <1>6, <1>7, <1>8, <1>9, ServerKeeps, Untouched DEF IInv

LEMMA RestartStep ==
  ASSUME IInv, ServerRestarts
  PROVE  IInv'
<1>1. TypeOK BY DEF IInv
<1>2. /\ spc = "down" /\ spc' = "test"
      /\ UNCHANGED <<g_should_stop, is_stopping, clients, n_clients, outbox, clientVars,
                     serverQueue, clientQueue, sigints, kills>>
  BY DEF ServerRestarts
<1>3. TypeOK'
  <2>1. ServerTypes' BY <1>1, <1>2, TypeParts DEF ServerTypes
  <2>2. UNCHANGED <<cpc, ready, clientQueue>> BY <1>2 DEF clientVars
  <2>3. PostTypes' /\ QueueTypes' /\ Bounds' BY <1>1, <1>2, <2>2, TypesKept
  <2> QED BY <1>1, <1>2, <2>1, <2>3, ServerStepTypes
<1>4. Quiet' BY <1>2 DEF IInv, Quiet
<1> QED BY <1>2, <1>3, <1>4, ServerKeeps, Untouched DEF IInv

\* m is gone from the server's queue: it was the only INIT or STOP of its client
IsRead(m) ==
  /\ m \in InQueue(serverQueue) /\ m \in Messages
  /\ serverQueue' \in Seq(Messages) /\ Len(serverQueue') <= mq_maxmsg
  /\ InQueue(serverQueue') \subseteq InQueue(serverQueue)
  /\ \A n \in InQueue(serverQueue) : n # m => n \in InQueue(serverQueue')
  /\ m.type \in {"INIT", "STOP"} =>
       \A n \in InQueue(serverQueue') : n.type = m.type => n.by # m.by
  /\ OneEach'

\* What the server reads, and the handler it calls.
LEMMA MessageRead ==
  ASSUME IInv, ServerReceives
  PROVE  \E m \in InQueue(serverQueue) :
           /\ IsRead(m)
           /\ \/ m.type = "INIT" /\ server_handle_init(m)
              \/ m.type = "STOP" /\ server_handle_stop(m)
              \/ m.type = "LIST" /\ server_handle_list(m)
              \/ m.type = "2ALL" /\ server_handle_2all(m)
              \/ m.type = "2ONE" /\ server_handle_2one(m)
<1> DEFINE q == serverQueue
           k == Next_in(q)
           m == q[k]
<1>1. q \in Seq(Messages) /\ q # <<>> /\ Len(q) <= mq_maxmsg BY DEF IInv, TypeOK, ServerReceives
<1>2. k \in DOMAIN q BY <1>1, NextInQueue
<1>3. m \in Messages /\ m \in InQueue(q) BY <1>1, <1>2, LenProperties DEF InQueue
<1>4. serverQueue' = RemoveAt(q, k) BY DEF ServerReceives
<1>5. \/ m.type = "INIT" /\ server_handle_init(m)
      \/ m.type = "STOP" /\ server_handle_stop(m)
      \/ m.type = "LIST" /\ server_handle_list(m)
      \/ m.type = "2ALL" /\ server_handle_2all(m)
      \/ m.type = "2ONE" /\ server_handle_2one(m)
  <2>1. m.type \in MsgTypes BY <1>3 DEF Messages
  <2>2. CASE m.type = "INIT" BY <2>2 DEF ServerReceives
  <2>3. CASE m.type = "STOP" BY <2>3 DEF ServerReceives
  <2>4. CASE m.type = "LIST" BY <2>4 DEF ServerReceives
  <2>5. CASE m.type = "2ALL" BY <2>5 DEF ServerReceives
  <2>6. CASE m.type = "2ONE" BY <2>6 DEF ServerReceives
  <2> QED BY <2>1, <2>2, <2>3, <2>4, <2>5, <2>6 DEF MsgTypes
<1> HIDE DEF k
<1> DEFINE r == RemoveAt(q, k)
<1>6. /\ r \in Seq(Messages) /\ Len(r) = Len(q) - 1
      /\ \A j \in 1 .. Len(q) - 1 : r[j] = q[IF j < k THEN j ELSE j + 1]
      /\ InQueue(r) \subseteq InQueue(q)
      /\ \A l \in DOMAIN q : l # k => q[l] \in InQueue(r)
  BY <1>1, <1>2, RemoveMembers
<1> HIDE DEF r
<1>7. Len(r) <= mq_maxmsg BY <1>1, <1>6, MqAssumption, LenProperties
<1>8. \A n \in InQueue(q) : n # m => n \in InQueue(r) BY <1>6 DEF InQueue
<1> DEFINE At(j) == IF j < k THEN j ELSE j + 1
<1>9. DOMAIN r = 1 .. Len(q) - 1 /\ DOMAIN q = 1 .. Len(q) /\ Len(q) \in Nat
  BY <1>1, <1>6, LenProperties
<1>10. \A j \in DOMAIN r : At(j) \in DOMAIN q \ {k} /\ r[j] = q[At(j)]
  BY <1>2, <1>6, <1>9
<1>11. \A i, j \in DOMAIN r : i # j => At(i) # At(j) BY <1>2, <1>9
<1> HIDE DEF At
<1>12. m.type \in {"INIT", "STOP"} => \A n \in InQueue(r) : n.type = m.type => n.by # m.by
  BY <1>2, <1>10 DEF IInv, OneEach, InQueue
<1>13. OneEach'
  <2>1. \A i, j \in DOMAIN r : i # j /\ r[i].type = r[j].type /\ r[i].type \in {"INIT", "STOP"}
                             => r[i].by # r[j].by
    BY <1>10, <1>11 DEF IInv, OneEach
  <2> QED BY <1>4, <2>1 DEF OneEach, r
<1>14. serverQueue' = r BY <1>4 DEF r
<1> QED BY <1>3, <1>5, <1>6, <1>7, <1>8, <1>12, <1>13, <1>14 DEF IsRead

\* After any message but an INIT is read, the same INITs wait.
LEMMA InitsStay ==
  ASSUME NEW m, IsRead(m), m.type # "INIT"
  PROVE  \A c \in Clients : Waiting(c)' = Waiting(c)
BY DEF IsRead, Waiting

\* What the handlers leave alone, and what that keeps.
LEMMA HandlerKeeps ==
  ASSUME IInv, NEW m, IsRead(m), UNCHANGED clientVars,
         UNCHANGED <<g_should_stop, is_stopping, sigints, kills>>,
         spc' = IF outbox' = <<>> THEN "test" ELSE "reply",
         clients' \in [Ids -> Clients \cup {Nobody}], n_clients' \in 0 .. SERVER_MAX_CLIENTS,
         outbox' \in Seq([to : Clients \cup {Nobody}, msg : Messages]), QueueTypes'
  PROVE  TypeOK' /\ Quiet' /\ Origins' /\ OneEach' /\ LastWords'
<1>1. TypeOK BY DEF IInv
<1>2. ServerTypes' BY <1>1, TypeParts DEF ServerTypes
<1>3. PostTypes' BY DEF IsRead, PostTypes
<1>4. Bounds' BY <1>1, TypesKept
<1>5. TypeOK' BY <1>1, <1>2, <1>3, <1>4, ServerStepTypes
<1>6. Quiet' BY DEF Quiet
<1>7. Origins' BY DEF IInv, Origins, IsRead
<1>8. UNCHANGED cpc BY DEF clientVars
<1>9. LastWords' BY <1>8 DEF IInv, LastWords, IsRead
<1> QED BY <1>5, <1>6, <1>7, <1>9 DEF IsRead

\* The first free id goes to the client that asks, which had none, if it still has a queue.
LEMMA InitHandled ==
  ASSUME IInv, NEW m, IsRead(m), m.type = "INIT", server_handle_init(m), outbox = <<>>,
         spc' = IF outbox' = <<>> THEN "test" ELSE "reply",
         UNCHANGED <<g_should_stop, is_stopping, clientVars, sigints, kills>>
  PROVE  IInv'
<1>1. TypeOK /\ UNCHANGED <<cpc, client_id, should_stop, unsent, ready, commands, clientQueue>>
  BY DEF IInv, clientVars, server_handle_init
<1> DEFINE c == m.by
<1>2. /\ c \in Clients /\ ~Waiting(c)'
      /\ \A d \in Clients \ {c} : Waiting(d)' = Waiting(d)
  BY DEF IInv, Origins, IsRead, Waiting
<1>3. cpc[c] \notin {"off", "init"} /\ \A i \in Ids : clients[i] # c
  <2>1. Waiting(c) BY DEF Waiting, IsRead
  <2> QED BY <1>2, <2>1 DEF IInv, Strangers
<1>4. \A d \in Clients : Linked(d)' = Linked(d) BY <1>1 DEF Linked
<1>5. QueueTypes' BY <1>1, TypesKept
<1>6. Askers' BY <1>1, Untouched
<1>7. CASE UNCHANGED <<clients, n_clients, outbox>>
  <2>1. TypeOK' /\ Quiet' /\ Origins' /\ OneEach' /\ LastWords'
    <3>1. /\ clients' \in [Ids -> Clients \cup {Nobody}] /\ n_clients' \in 0 .. SERVER_MAX_CLIENTS
          /\ outbox' \in Seq([to : Clients \cup {Nobody}, msg : Messages])
      BY <1>1, <1>7 DEF TypeOK
    <3> QED BY <1>5, <3>1, HandlerKeeps
  <2>2. Strangers' BY <1>1, <1>2, <1>7 DEF IInv, Strangers
  <2>3. Matched'
    <3> SUFFICES ASSUME kills = 0 PROVE Holders' /\ Forgotten' BY DEF Matched
    <3>1. Holders /\ Forgotten BY DEF IInv, Matched
    <3>2. Holders' BY <1>1, <1>4, <1>7, <3>1 DEF Holders
    <3>3. Forgotten' BY <1>1, <1>7, <3>1 DEF Forgotten, Used, IsRead
    <3> QED BY <3>2, <3>3
  <2> QED BY <1>1, <1>6, <1>7, <2>1, <2>2, <2>3, Untouched DEF IInv
<1>8. CASE Used # Ids /\ Linked(c)
  <2> DEFINE i == Min(Ids \ Used)
  <2>1. i \in Ids \ Used
    <3> DEFINE P(x) == \A y \in Ids \ Used : x <= y
    <3>1. Ids \ Used # {} /\ Ids \ Used \in SUBSET Nat
      BY <1>8, MqAssumption DEF Used, Ids
    <3>2. \E x \in Ids \ Used : P(x) BY <3>1, Least
    <3>3. i = CHOOSE x \in Ids \ Used : P(x) BY DEF Min
    <3> HIDE DEF P
    <3> QED BY <3>2, <3>3
  <2>2. /\ clients' = [clients EXCEPT ![i] = c] /\ n_clients' = n_clients + 1
        /\ outbox' = <<To(c, Msg("INIT", Nobody, i))>>
    BY <1>8 DEF server_handle_init
  <2> HIDE DEF c, i
  <2>3. /\ clients' \in [Ids -> Clients \cup {Nobody}] /\ clients'[i] = c /\ clients[i] = Nobody
        /\ \A j \in Ids \ {i} : clients'[j] = clients[j]
    BY <1>1, <1>2, <2>1, <2>2 DEF TypeOK, Used
  <2>4. Used' = Used \cup {i} /\ i \notin Used
    BY <1>2, <2>1, <2>3, MqAssumption DEF Used
  <2>5. n_clients' = Cardinality(Used') /\ n_clients' \in 0 .. SERVER_MAX_CLIENTS
    <3>1. IsFiniteSet(Used) /\ Cardinality(Used) = n_clients
      BY IdCount DEF IInv, DescriptorsCounted, Used
    <3>2. Cardinality(Used \cup {i}) = Cardinality(Used) + 1 BY <2>4, <3>1, FS_AddElement
    <3>3. Cardinality(Used \cup {i}) \in 0 .. SERVER_MAX_CLIENTS BY <2>1, IdCount DEF Used
    <3> QED BY <2>2, <2>4, <3>1, <3>2, <3>3
  <2> DEFINE o == To(c, Msg("INIT", Nobody, i))
  <2>6. /\ outbox' \in Seq([to : Clients \cup {Nobody}, msg : Messages])
        /\ InQueue(outbox') = {o} /\ o.to = c /\ o.msg.type = "INIT" /\ o.msg.id = i
    <3>1. /\ c \in Clients \cup {Nobody} /\ Nobody \in Clients \cup {Nobody}
          /\ i \in Ids /\ "INIT" \in MsgTypes
      BY <1>2, <2>1 DEF MsgTypes
    <3> DEFINE p == Msg("INIT", Nobody, i)
    <3>2. p \in Messages /\ p.type = "INIT" /\ p.id = i BY <3>1 DEF Msg, Messages
    <3>4. o = [to |-> c, msg |-> p] BY DEF To
    <3> HIDE DEF p, o
    <3>5. /\ o \in [to : Clients \cup {Nobody}, msg : Messages]
          /\ o.to = c /\ o.msg.type = "INIT" /\ o.msg.id = i
      BY <3>1, <3>2, <3>4
    <3>3. outbox' = <<o>> BY <2>2 DEF o
    <3> QED BY <3>3, <3>5 DEF InQueue
  <2> HIDE DEF o
  <2>7. TypeOK' /\ Quiet' /\ Origins' /\ OneEach' /\ LastWords' BY <1>5, <2>3, <2>5, <2>6, HandlerKeeps
  <2>8. DescriptorsCounted'
    <3>1. \A j \in Used : j \in Ids /\ clients'[j] = clients[j] /\ clients'[j] # c
      BY <1>3, <2>3, <2>4 DEF Used, c
    <3> QED BY <2>3, <2>4, <2>5, <3>1 DEF IInv, DescriptorsCounted
  <2>9. Strangers'
    <3>1. \A d \in Clients \ {c} : \A j \in Ids : clients'[j] = d => clients[j] = d
      BY <2>3
    <3>2. ~Waiting(c)' /\ \A d \in Clients \ {c} : Waiting(d)' = Waiting(d) BY <1>2 DEF c
    <3>3. cpc[c] \notin {"off", "init"} BY <1>3 DEF c
    <3> QED BY <1>1, <3>1, <3>2, <3>3 DEF IInv, Strangers
  <2>10. Replies'
    <3>1. cpc[c] # "off" BY <1>3 DEF c
    <3> QED BY <1>1, <2>1, <2>6, <3>1 DEF IInv, Replies
  <2>11. Matched'
    <3> SUFFICES ASSUME kills = 0 PROVE Holders' /\ Forgotten' BY DEF Matched
    <3>1. Holders /\ Forgotten BY DEF IInv, Matched
    <3>2. \A d \in Clients : \A j \in Ids : clients[j] = d => clients'[j] = d BY <2>3, MqAssumption
    <3>3. Holders'
      <4>1. ASSUME NEW d \in Clients, Linked(d)
            PROVE  /\ client_id[d] # -1 => clients'[client_id[d]] = d
                   /\ \A n \in InQueue(clientQueue[d]) : n.type = "INIT" => clients'[n.id] = d
        <5>1. client_id[d] # -1 => client_id[d] \in Ids /\ clients[client_id[d]] = d
          BY <1>1, <3>1, <4>1 DEF Holders, TypeOK
        <5>2. \A n \in InQueue(clientQueue[d]) : n.type = "INIT" => n.id \in Ids /\ clients[n.id] = d
          BY <3>1, <4>1 DEF Holders, IInv, Replies
        <5> QED BY <3>2, <5>1, <5>2
      <4> QED BY <1>1, <1>4, <2>3, <2>6, <4>1 DEF Holders
    <3>4. Forgotten'
      <4>1. ASSUME NEW j \in Used', cpc[clients'[j]] = "left"
            PROVE  \E n \in InQueue(serverQueue') : n.type = "STOP" /\ n.id = j /\ n.by = clients'[j]
        <5>1. j # i BY <1>8, <2>3, <4>1 DEF Linked, c
        <5>2. j \in Used /\ clients'[j] = clients[j] BY <2>3, <2>4, <4>1, <5>1 DEF Used
        <5> QED BY <3>1, <4>1, <5>2 DEF Forgotten, IsRead
      <4>2. ASSUME NEW n \in InQueue(serverQueue'), n.type = "STOP" PROVE clients'[n.id] = n.by
        <5>1. n \in InQueue(serverQueue) BY DEF IsRead
        <5>2. n.id \in Ids /\ n.by \in Clients /\ clients[n.id] = n.by
          BY <3>1, <4>2, <5>1 DEF Forgotten, IInv, Origins
        <5> QED BY <3>2, <5>2
      <4> QED BY <1>1, <4>1, <4>2 DEF Forgotten
    <3> QED BY <3>3, <3>4
  <2> QED BY <1>6, <2>7, <2>8, <2>9, <2>10, <2>11 DEF IInv
<1> QED BY <1>7, <1>8 DEF server_handle_init

\* Its client's STOP frees an id; until a server is killed, no other client's.
LEMMA StopHandled ==
  ASSUME IInv, NEW m, IsRead(m), m.type = "STOP", server_handle_stop(m), outbox = <<>>,
         spc' = IF outbox' = <<>> THEN "test" ELSE "reply",
         UNCHANGED <<g_should_stop, is_stopping, clientVars, sigints, kills>>
  PROVE  IInv'
<1>1. TypeOK /\ UNCHANGED <<cpc, client_id, should_stop, unsent, ready, commands, outbox>>
  BY DEF IInv, clientVars, server_handle_stop
<1> DEFINE c == m.by
           i == m.id
<1>2. i \in Ids /\ c \in Clients /\ cpc[c] = "left"
  BY DEF IInv, Origins, LastWords, IsRead
<1>3. kills = 0 => clients[i] = c BY DEF IInv, Matched, Forgotten, IsRead
<1>4. \A n \in InQueue(serverQueue') : n.type = "STOP" => n.by # c BY DEF IsRead
<1>5. InQueue(serverQueue') \subseteq InQueue(serverQueue) BY DEF IsRead
<1>6. \A d \in Clients : Waiting(d)' = Waiting(d) BY InitsStay
<1>7. \A d \in Clients : Linked(d)' = Linked(d) BY <1>1 DEF Linked
<1>8. \/ /\ clients[i] # Nobody
         /\ clients' = [clients EXCEPT ![i] = Nobody] /\ n_clients' = n_clients - 1
         /\ clientQueue' = Kept({clients[j] : j \in Used \ {i}})
      \/ clients[i] = Nobody /\ UNCHANGED <<clients, n_clients, clientQueue>>
  BY DEF server_handle_stop
<1> HIDE DEF c, i
<1>9. CASE clients[i] = Nobody /\ UNCHANGED <<clients, n_clients, clientQueue>>
  <2>1. TypeOK' /\ Quiet' /\ Origins' /\ OneEach' /\ LastWords'
    <3>1. QueueTypes' BY <1>1, <1>9, TypesKept
    <3>2. /\ clients' \in [Ids -> Clients \cup {Nobody}] /\ n_clients' \in 0 .. SERVER_MAX_CLIENTS
          /\ outbox' \in Seq([to : Clients \cup {Nobody}, msg : Messages])
      BY <1>1, <1>9 DEF TypeOK
    <3> QED BY <3>1, <3>2, HandlerKeeps
  <2>2. Strangers' BY <1>1, <1>6, <1>9 DEF IInv, Strangers
  <2>3. kills # 0 BY <1>2, <1>3, <1>9, MqAssumption
  <2> QED BY <1>1, <1>9, <2>1, <2>2, <2>3, Untouched DEF IInv, Matched
<1>10. CASE /\ clients[i] # Nobody
            /\ clients' = [clients EXCEPT ![i] = Nobody] /\ n_clients' = n_clients - 1
            /\ clientQueue' = Kept({clients[j] : j \in Used \ {i}})
  <2>1. /\ clients' \in [Ids -> Clients \cup {Nobody}] /\ clients'[i] = Nobody
        /\ \A j \in Ids \ {i} : clients'[j] = clients[j]
    BY <1>1, <1>2, <1>10 DEF TypeOK
  <2>2. Used' = Used \ {i} /\ i \in Used BY <1>2, <1>10, <2>1 DEF Used
  <2>3. n_clients' = Cardinality(Used') /\ n_clients' \in 0 .. SERVER_MAX_CLIENTS
    <3>1. IsFiniteSet(Used) /\ Cardinality(Used) = n_clients
      BY IdCount DEF IInv, DescriptorsCounted, Used
    <3>2. Cardinality(Used \ {i}) = Cardinality(Used) - 1 BY <2>2, <3>1, FS_RemoveElement
    <3>3. Cardinality(Used \ {i}) \in 0 .. SERVER_MAX_CLIENTS BY IdCount DEF Used
    <3> QED BY <1>10, <2>2, <3>1, <3>2, <3>3
  <2>4. /\ QueueTypes'
        /\ \A d \in Clients : InQueue(clientQueue'[d]) \subseteq InQueue(clientQueue[d])
        /\ \A d \in Clients : clientQueue'[d] = clientQueue[d] \/ clientQueue'[d] = <<>>
    BY <1>10, KeptQueues
  <2>5. TypeOK' /\ Quiet' /\ Origins' /\ OneEach' /\ LastWords'
    <3>1. outbox' \in Seq([to : Clients \cup {Nobody}, msg : Messages]) BY <1>1 DEF TypeOK
    <3> QED BY <2>1, <2>3, <2>4, <3>1, HandlerKeeps
  <2>6. DescriptorsCounted' BY <2>1, <2>2, <2>3 DEF IInv, DescriptorsCounted, Used
  <2>7. Strangers'
    <3>1. \A j \in Ids : \A d \in Clients : clients'[j] = d => clients[j] = d
      BY <2>1, MqAssumption
    <3> QED BY <1>1, <1>6, <2>4, <3>1 DEF IInv, Strangers
  <2>8. Askers' /\ Replies' BY <1>1, <2>4, ServerKeeps
  <2>9. Matched'
    <3> SUFFICES ASSUME kills = 0 PROVE Holders' /\ Forgotten' BY DEF Matched
    <3>1. Holders /\ Forgotten /\ clients[i] = c BY <1>3 DEF IInv, Matched
    <3>2. \A d \in Clients \ {c} : \A j \in Ids : clients[j] = d => clients'[j] = d
      BY <2>1, <3>1
    <3>3. Holders'
      <4>1. ASSUME NEW d \in Clients, Linked(d)
            PROVE  /\ client_id[d] # -1 => clients'[client_id[d]] = d
                   /\ \A n \in InQueue(clientQueue'[d]) : n.type = "INIT" => clients'[n.id] = d
        <5>1. d \in Clients \ {c} BY <1>2, <4>1 DEF Linked
        <5>2. client_id[d] # -1 => client_id[d] \in Ids /\ clients[client_id[d]] = d
          BY <1>1, <3>1, <4>1 DEF Holders, TypeOK
        <5>3. \A n \in InQueue(clientQueue[d]) : n.type = "INIT" => n.id \in Ids /\ clients[n.id] = d
          BY <3>1, <4>1 DEF Holders, IInv, Replies
        <5> QED BY <2>4, <3>2, <5>1, <5>2, <5>3
      <4>2. InQueue(outbox') = {} BY <1>1 DEF InQueue
      <4> QED BY <1>1, <1>7, <4>1, <4>2 DEF Holders
    <3>4. Forgotten'
      <4>1. ASSUME NEW j \in Used', cpc[clients'[j]] = "left"
            PROVE  \E n \in InQueue(serverQueue') : n.type = "STOP" /\ n.id = j /\ n.by = clients'[j]
        <5>1. j \in Used /\ j # i /\ clients'[j] = clients[j] BY <2>1, <2>2 DEF Used
        <5>2. PICK n \in InQueue(serverQueue) : n.type = "STOP" /\ n.id = j /\ n.by = clients[j]
          BY <3>1, <4>1, <5>1 DEF Forgotten
        <5>3. n # m BY <5>1, <5>2 DEF i
        <5> QED BY <5>1, <5>2, <5>3 DEF IsRead
      <4>2. ASSUME NEW n \in InQueue(serverQueue'), n.type = "STOP" PROVE clients'[n.id] = n.by
        <5>1. n.id \in Ids /\ n.by \in Clients \ {c} /\ clients[n.id] = n.by
          BY <1>4, <1>5, <3>1, <4>2 DEF Forgotten, IInv, Origins
        <5> QED BY <3>2, <5>1
      <4> QED BY <1>1, <4>1, <4>2 DEF Forgotten
    <3> QED BY <3>3, <3>4
  <2> QED BY <2>5, <2>6, <2>7, <2>8, <2>9 DEF IInv
<1> QED BY <1>8, <1>9, <1>10

\* What the handlers of requests send goes to clients that were started.
LEMMA RequestAnswers ==
  ASSUME IInv, NEW m, IsRead(m),
         \/ m.type = "LIST" /\ server_handle_list(m)
         \/ m.type = "2ALL" /\ server_handle_2all(m)
         \/ m.type = "2ONE" /\ server_handle_2one(m)
  PROVE  /\ outbox' \in Seq([to : Clients \cup {Nobody}, msg : Messages])
         /\ \A o \in InQueue(outbox') :
              o.msg.type # "INIT" /\ (o.to # Nobody => cpc[o.to] # "off")
<1>1. m.id \in Ids /\ m.by \in Clients \cup {Nobody} /\ (m.type = "2ONE" => m.to \in Ids)
  BY DEF IInv, Origins, IsRead
<1> DEFINE Outgoing == [to : Clients \cup {Nobody}, msg : Messages]
           Good(o) == /\ o \in Outgoing /\ o.msg.type # "INIT"
                      /\ o.to # Nobody => cpc[o.to] # "off"
<1>2. "LIST" \in MsgTypes /\ "2ONE" \in MsgTypes BY DEF MsgTypes
<1>3. \A k \in Places : IdAt(k) \in Ids BY MqAssumption DEF Places, IdAt, Ids
<1>4. ASSUME NEW c, c = Nobody \/ \E i \in Ids : c = clients[i],
             NEW type \in {"LIST", "2ONE"}, NEW id \in Ids
      PROVE  Good(To(c, Msg(type, m.by, id)))
  <2>1. c \in Clients \cup {Nobody} /\ (c # Nobody => cpc[c] # "off") BY <1>4, Registered
  <2>2. type \in MsgTypes BY <1>2
  <2>3. /\ To(c, Msg(type, m.by, id)) \in Outgoing
        /\ To(c, Msg(type, m.by, id)).to = c /\ To(c, Msg(type, m.by, id)).msg.type = type
    BY <1>1, <2>1, <2>2, ToTypes
  <2> QED BY <2>1, <2>3
<1> SUFFICES outbox' \in Seq(Outgoing) /\ \A o \in InQueue(outbox') : Good(o) OBVIOUS
<1>5. CASE m.type = "LIST" /\ server_handle_list(m)
  <2> DEFINE F(k) == To(IF IdAt(k) \in Used THEN clients[m.id] ELSE Nobody, Msg("LIST", m.by, IdAt(k)))
  <2>1. ASSUME NEW k \in Places PROVE Good(F(k))
    <3> DEFINE c == IF IdAt(k) \in Used THEN clients[m.id] ELSE Nobody
    <3>1. c = Nobody \/ \E i \in Ids : c = clients[i] BY <1>1
    <3> HIDE DEF c, Good
    <3>2. Good(To(c, Msg("LIST", m.by, IdAt(k)))) BY <1>3, <1>4, <3>1
    <3> QED BY <3>2 DEF c
  <2>2. outbox' = [k \in Places |-> F(k)] BY <1>5 DEF server_handle_list
  <2> HIDE DEF F
  <2>3. outbox' \in [Places -> Outgoing] BY <2>1, <2>2
  <2> HIDE DEF Outgoing, Good
  <2>4. outbox' \in Seq(Outgoing) /\ \A o \in InQueue(outbox') : \E k \in Places : o = outbox'[k]
    BY <2>3, Loop
  <2> QED BY <2>1, <2>2, <2>4
<1>6. CASE m.type = "2ALL" /\ server_handle_2all(m)
  <2> DEFINE F(k) == To(clients[IdAt(k)], Msg("2ONE", m.by, m.id))
  <2>1. ASSUME NEW k \in Places PROVE Good(F(k))
    <3>1. \E i \in Ids : clients[IdAt(k)] = clients[i] BY <1>3
    <3> HIDE DEF Good
    <3> QED BY <1>1, <1>4, <3>1
  <2>2. outbox' = [k \in Places |-> F(k)] BY <1>6 DEF server_handle_2all
  <2> HIDE DEF F
  <2>3. outbox' \in [Places -> Outgoing] BY <2>1, <2>2
  <2> HIDE DEF Outgoing, Good
  <2>4. outbox' \in Seq(Outgoing) /\ \A o \in InQueue(outbox') : \E k \in Places : o = outbox'[k]
    BY <2>3, Loop
  <2> QED BY <2>1, <2>2, <2>4
<1>7. CASE m.type = "2ONE" /\ server_handle_2one(m)
  <2> DEFINE p == To(clients[m.to], Msg("2ONE", m.by, m.id))
  <2>1. Good(p)
    <3>1. \E i \in Ids : clients[m.to] = clients[i] BY <1>1, <1>7
    <3> HIDE DEF Good
    <3> QED BY <1>1, <1>4, <3>1
  <2>2. outbox' = <<p>> BY <1>7 DEF server_handle_2one
  <2> HIDE DEF p
  <2>3. p \in Outgoing BY <2>1
  <2> HIDE DEF Outgoing, Good
  <2>4. outbox' \in Seq(Outgoing) /\ InQueue(outbox') = {p} BY <2>2, <2>3 DEF InQueue
  <2> QED BY <2>1, <2>4
<1> QED BY <1>5, <1>6, <1>7

\* A request leaves the table as it is.
LEMMA RequestHandled ==
  ASSUME IInv, NEW m, IsRead(m),
         \/ m.type = "LIST" /\ server_handle_list(m)
         \/ m.type = "2ALL" /\ server_handle_2all(m)
         \/ m.type = "2ONE" /\ server_handle_2one(m),
         spc' = IF outbox' = <<>> THEN "test" ELSE "reply",
         UNCHANGED <<g_should_stop, is_stopping, clientVars, sigints, kills>>
  PROVE  IInv'
<1>1. TypeOK /\ UNCHANGED <<cpc, client_id, should_stop, unsent, ready, commands>>
  BY DEF IInv, clientVars
<1>2. m.type \notin {"INIT", "STOP"} /\ UNCHANGED <<clients, n_clients, clientQueue>>
  BY DEF server_handle_list, server_handle_2all, server_handle_2one
<1>3. /\ outbox' \in Seq([to : Clients \cup {Nobody}, msg : Messages])
      /\ \A o \in InQueue(outbox') :
           o.msg.type # "INIT" /\ (o.to # Nobody => cpc[o.to] # "off")
  BY RequestAnswers
<1>4. TypeOK' /\ Quiet' /\ Origins' /\ OneEach' /\ LastWords'
  <2>1. clients' \in [Ids -> Clients \cup {Nobody}] /\ n_clients' \in 0 .. SERVER_MAX_CLIENTS
    BY <1>1, <1>2 DEF TypeOK
  <2>2. QueueTypes' BY <1>1, <1>2, TypesKept
  <2> QED BY <1>3, <2>1, <2>2, HandlerKeeps
<1>5. InQueue(serverQueue') \subseteq InQueue(serverQueue)
      /\ \A n \in InQueue(serverQueue) : n.type = "STOP" => n \in InQueue(serverQueue')
  BY <1>2 DEF IsRead
<1>6. Matched'
  <2> SUFFICES ASSUME kills = 0 PROVE Holders' /\ Forgotten' BY DEF Matched
  <2>1. Holders /\ Forgotten BY DEF IInv, Matched
  <2>2. \A d \in Clients : Linked(d)' = Linked(d) BY <1>1 DEF Linked
  <2>3. Holders' BY <1>1, <1>2, <1>3, <2>1, <2>2 DEF Holders
  <2>4. Used' = Used BY <1>2 DEF Used
  <2>5. Forgotten' BY <1>1, <1>2, <1>5, <2>1, <2>4 DEF Forgotten
  <2> QED BY <2>3, <2>5
<1>7. Strangers'
  <2>1. \A d \in Clients : Waiting(d)' = Waiting(d) BY <1>2, InitsStay
  <2> QED BY <1>1, <1>2, <2>1 DEF IInv, Strangers
<1>8. Replies' BY <1>1, <1>2, <1>3 DEF IInv, Replies
<1> QED BY <1>1, <1>2, <1>4, <1>6, <1>7, <1>8, Untouched DEF IInv

LEMMA ReceiveStep ==
  ASSUME IInv, ServerReceives
  PROVE  IInv'
<1>1. outbox = <<>> BY DEF IInv, Quiet, ServerReceives
<1>2. /\ spc' = IF outbox' = <<>> THEN "test" ELSE "reply"
      /\ UNCHANGED <<g_should_stop, is_stopping, clientVars, sigints, kills>>
  BY DEF ServerReceives
<1>3. PICK m \in InQueue(serverQueue) :
        /\ IsRead(m)
        /\ \/ m.type = "INIT" /\ server_handle_init(m)
           \/ m.type = "STOP" /\ server_handle_stop(m)
           \/ m.type = "LIST" /\ server_handle_list(m)
           \/ m.type = "2ALL" /\ server_handle_2all(m)
           \/ m.type = "2ONE" /\ server_handle_2one(m)
  BY MessageRead
<1>4. CASE m.type = "INIT" /\ server_handle_init(m) BY <1>1, <1>2, <1>3, <1>4, InitHandled
<1>5. CASE m.type = "STOP" /\ server_handle_stop(m) BY <1>1, <1>2, <1>3, <1>5, StopHandled
<1>6. CASE \/ m.type = "LIST" /\ server_handle_list(m)
           \/ m.type = "2ALL" /\ server_handle_2all(m)
           \/ m.type = "2ONE" /\ server_handle_2one(m)
  BY <1>2, <1>3, <1>6, RequestHandled
<1> QED BY <1>3, <1>4, <1>5, <1>6

-----------------------------------------------------------------------------
LEMMA Initially == Init => IInv
<1> SUFFICES ASSUME Init PROVE IInv OBVIOUS
<1>1. InQueue(serverQueue) = {} /\ InQueue(outbox) = {}
      /\ \A c \in Clients : InQueue(clientQueue[c]) = {}
  BY DEF Init, InQueue
<1>2. Used = {} BY DEF Init, Used
<1>3. Len(<<>>) = 0 /\ (\A S : <<>> \in Seq(S)) OBVIOUS
<1>4. TypeOK
  <2>1. ServerTypes
    <3>1. 0 \in 0 .. SERVER_MAX_CLIENTS BY MqAssumption
    <3>2. clients \in [Ids -> Clients \cup {Nobody}] BY DEF Init
    <3>3. outbox \in Seq([to : Clients \cup {Nobody}, msg : Messages]) BY <1>3 DEF Init
    <3> QED BY <3>1, <3>2, <3>3 DEF Init, ServerTypes
  <2>2. PostTypes BY <1>3, MqAssumption DEF Init, PostTypes
  <2>3. ClientTypes
    <3>1. 0 \in 0 .. MaxCommands BY MqAssumption
    <3>2. commands \in [Clients -> 0 .. MaxCommands] BY <3>1 DEF Init
    <3>3. unsent \in [Clients -> Messages \cup {NoMsg}] BY DEF Init
    <3>4. /\ cpc \in [Clients -> {"off", "init", "loop", "send", "recv", "leave", "left", "vanished"}]
          /\ client_id \in [Clients -> Ids \cup {-1}]
          /\ should_stop \in [Clients -> BOOLEAN] /\ ready \in [Clients -> BOOLEAN]
      BY DEF Init
    <3> QED BY <3>2, <3>3, <3>4 DEF ClientTypes
  <2>4. QueueTypes
    <3>1. clientQueue \in [Clients -> Seq(Messages)] BY <1>3 DEF Init
    <3>2. \A c \in Clients : Len(clientQueue[c]) <= mq_maxmsg BY <1>3, MqAssumption DEF Init
    <3>3. \A c \in Clients : cpc[c] = "off" /\ ~ready[c] BY DEF Init
    <3> QED BY <3>1, <3>2, <3>3 DEF QueueTypes
  <2>5. Bounds BY MqAssumption DEF Init, Bounds
  <2> QED BY <2>1, <2>2, <2>3, <2>4, <2>5, TypeParts
<1>5. DescriptorsCounted
  <2>1. Cardinality(Used) = 0 BY <1>2, FS_EmptySet
  <2> QED BY <1>2, <2>1 DEF Init, DescriptorsCounted
<1>6. Origins /\ LastWords BY <1>1 DEF Origins, LastWords
<1>7. Quiet /\ OneEach /\ Askers BY DEF Init, Quiet, OneEach, Askers
<1>8. Strangers BY <1>1, MqAssumption DEF Init, Strangers, Waiting
<1>9. Replies BY <1>1 DEF Replies
<1>10. Matched
  <2>1. \A c \in Clients : ~Linked(c) BY DEF Init, Linked
  <2> QED BY <1>1, <1>2, <2>1 DEF Matched, Holders, Forgotten
<1> QED BY <1>4, <1>5, <1>6, <1>7, <1>8, <1>9, <1>10 DEF IInv

LEMMA Step == IInv /\ [Next]_vars => IInv'
<1> SUFFICES ASSUME IInv, [Next]_vars PROVE IInv' OBVIOUS
<1>1. CASE ServerTests BY <1>1, TestsStep
<1>2. CASE server_stop BY <1>2, StopStep
<1>3. CASE ServerReceives BY <1>3, ReceiveStep
<1>4. CASE ServerSends BY <1>4, SendStep
<1>5. CASE ServerSigint BY <1>5, ServerSigintStep
<1>6. CASE ServerKilled BY <1>6, KilledStep
<1>7. CASE ServerRestarts BY <1>7, RestartStep
<1>8. CASE \E c \in Clients : Start(c) \/ ClientStep(c) \/ Types(c) \/ ClientSigint(c)
  <2> SUFFICES ASSUME NEW c \in Clients, Start(c) \/ ClientStep(c) \/ Types(c) \/ ClientSigint(c)
               PROVE  IInv'
    BY <1>8
  <2>1. CASE Start(c) BY <2>1, StartStep
  <2>2. CASE client_send_init(c) BY <2>2, SendInitStep
  <2>3. CASE Looks(c) BY <2>3, LooksStep
  <2>4. CASE Sends(c) BY <2>4, SendsStep
  <2>5. CASE Receives(c) BY <2>5, ReceivesStep
  <2>6. CASE Leaves(c) BY <2>6, LeavesStep
  <2>7. CASE Types(c) BY <2>7, TypesStep
  <2>8. CASE ClientSigint(c) BY <2>8, ClientSigintStep
  <2> QED BY <2>1, <2>2, <2>3, <2>4, <2>5, <2>6, <2>7, <2>8 DEF ClientStep
<1>9. CASE UNCHANGED vars
  <2>1. /\ UNCHANGED <<spc, g_should_stop, is_stopping, clients, n_clients, outbox>>
        /\ UNCHANGED <<cpc, client_id, should_stop, unsent, ready, commands>>
        /\ UNCHANGED <<serverQueue, clientQueue, sigints, kills>>
    BY <1>9 DEF vars, serverVars, clientVars
  <2>2. TypeOK' BY <2>1 DEF IInv, TypeOK
  <2> QED BY <2>1, <2>2, Untouched DEF IInv
<1> QED BY <1>1, <1>2, <1>3, <1>4, <1>5, <1>6, <1>7, <1>8, <1>9 DEF Next, ServerStep

\* Every reachable state satisfies the inductive invariant.
THEOREM Invariant == Spec => []IInv
BY Initially, Step, PTL DEF Spec

\* Server, clients and queues keep their types and limits; a client that is about to call
\* mq_receive after its poll finds a message.
THEOREM TypeCorrect == Spec => []TypeOK
<1>1. IInv => TypeOK BY DEF IInv
<1> QED BY <1>1, Invariant, PTL

\* Until a server is killed an id of server.c's clients[] has one holder: the client that
\* has it, or to which it is on the way, and one that left gives it up with its STOP.
\* However often the server is killed and started over the same queue, n_clients is the
\* number of descriptors open, and no client has two.
THEOREM IdsAreKeptUntilKilled == Spec => []IdIsMine
<1>1. IInv => IdIsMine BY DEF IInv, IdIsMine, Matched, Holders, Forgotten
<1> QED BY <1>1, Invariant, PTL
=============================================================================
