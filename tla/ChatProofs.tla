----------------------------- MODULE ChatProofs -----------------------------
(***************************************************************************)
(* An id of the chat has one holder, and no request speaks for a client    *)
(* that did not send it, for any number of clients, ids and messages.      *)
(*                                                                         *)
(* A client sends one INIT and one STOP in its life.  IInv follows them:   *)
(* before the server reads the INIT nothing in it is the client's, after   *)
(* the client's STOP only that message can free its id, and a request is   *)
(* read before any INIT that could give the id away.                       *)
(***************************************************************************)
EXTENDS Chat, FiniteSetTheorems, SequenceTheorems, TLAPS

Waiting(c) == \E m \in InQueue(serverQueue) : m.type = "INIT" /\ m.by = c

\* the server sends only in the two loops over outbox
Quiet == spc \notin {"stop", "reply"} => outbox = <<>>

\* messages to the server: where they come from, and which id they may name
Origins ==
  \A m \in InQueue(serverQueue) :
    m.by \in Clients /\ (m.type # "INIT" => m.id \in Ids) /\ (m.type = "2ONE" => m.to \in Ids)

\* no client has two INITs or two STOPs waiting
OneEach ==
  \A k, l \in DOMAIN serverQueue :
    /\ k # l /\ serverQueue[k].type = serverQueue[l].type
    /\ serverQueue[k].type \in {"INIT", "STOP"}
    => serverQueue[k].by # serverQueue[l].by

OneId == \A i, j \in Used : clients[i] = clients[j] => i = j

\* a client whose INIT the server has not read has no id
Strangers ==
  \A c \in Clients :
    /\ cpc[c] = "off" => client_id[c] = -1 /\ clientQueue[c] = <<>>
    /\ cpc[c] \in {"off", "init"} => ~Waiting(c)
    /\ cpc[c] \in {"off", "init"} \/ Waiting(c) => \A i \in Ids : clients[i] # c
    /\ Waiting(c) => cpc[c] # "left"

\* a STOP is its sender's last word, and frees the sender's id
LastWords ==
  \A m \in InQueue(serverQueue) :
    m.type = "STOP" => clients[m.id] = m.by /\ cpc[m.by] = "left"

\* what a client is about to ask names itself
Askers ==
  \A c \in Clients :
    cpc[c] = "send" =>
      /\ unsent[c].type \in {"LIST", "2ALL", "2ONE"}
      /\ unsent[c].by = c /\ unsent[c].id = client_id[c] /\ unsent[c].id \in Ids
      /\ unsent[c].type = "2ONE" => unsent[c].to \in Ids

\* an INIT on its way names a slot that is its reader's, a list goes to who asked for it
Replies ==
  /\ \A o \in InQueue(outbox) :
       /\ o.msg.type = "INIT" => o.msg.id \in Ids /\ clients[o.msg.id] = o.to
       /\ o.msg.type = "LIST" => o.to \in {Nobody, o.msg.by}
  /\ \A c \in Clients : \A m \in InQueue(clientQueue[c]) : m.type = "INIT" => m.id \in Ids

IInv ==
  /\ TypeOK /\ IdIsMine /\ RequestsAreTheHolders
  /\ Quiet /\ Origins /\ OneEach /\ OneId /\ Strangers /\ LastWords /\ Askers /\ Replies

-----------------------------------------------------------------------------
(* Queues.                                                                 *)

\* A set of numbers has a least one.
LEMMA Least ==
  ASSUME NEW S \in SUBSET Nat, S # {}
  PROVE  \E m \in S : \A n \in S : m <= n
<1> DEFINE Upto(m) == S \cap (0 .. m)
           T == {Upto(m) : m \in S}
<1>1. T \subseteq FiniteSubsetsOf(Nat)
  <2> SUFFICES ASSUME NEW m \in S PROVE Upto(m) \in FiniteSubsetsOf(Nat)
    OBVIOUS
  <2>1. IsFiniteSet(0 .. m) BY FS_Interval
  <2>2. IsFiniteSet(Upto(m)) BY <2>1, FS_Subset
  <2> QED BY <2>2 DEF FiniteSubsetsOf
<1>2. PICK U \in T : \A V \in T : <<V, U>> \notin StrictSubsetOrdering(Nat)
  <2> HIDE DEF T
  <2>1. T # {} BY DEF T
  <2>2. IsWellFoundedOn(StrictSubsetOrdering(Nat), FiniteSubsetsOf(Nat))
    BY FS_StrictSubsetOrderingWellFounded
  <2> QED BY <1>1, <2>1, <2>2, WFMin
<1>3. PICK m \in S : U = Upto(m) BY <1>2
<1>4. ASSUME NEW n \in S, n < m PROVE FALSE
  <2>1. Upto(n) \subseteq Upto(m) /\ m \in Upto(m) /\ m \notin Upto(n) BY <1>4
  <2>2. <<Upto(n), Upto(m)>> \in StrictSubsetOrdering(Nat) BY <2>1 DEF StrictSubsetOrdering
  <2> QED BY <1>2, <1>3, <2>2
<1> QED BY <1>4

\* What a queue holds after msgsnd.
LEMMA AppendMembers ==
  ASSUME NEW S, NEW q \in Seq(S), NEW m \in S
  PROVE  /\ Append(q, m) \in Seq(S) /\ Len(Append(q, m)) = Len(q) + 1
         /\ InQueue(Append(q, m)) = InQueue(q) \cup {m}
BY AppendProperties, LenProperties DEF InQueue

\* What is left of outbox after a send.
LEMMA TailMembers ==
  ASSUME NEW S, NEW q \in Seq(S), q # <<>>
  PROVE  /\ Tail(q) \in Seq(S) /\ InQueue(Tail(q)) \subseteq InQueue(q)
         /\ Head(q) \in InQueue(q) /\ Head(q) \in S
BY HeadTailProperties, LenProperties DEF InQueue

\* What a queue holds after msgrcv: all but one message.
LEMMA RemoveMembers ==
  ASSUME NEW S, NEW q \in Seq(S), NEW k \in DOMAIN q
  PROVE  /\ RemoveAt(q, k) \in Seq(S) /\ Len(RemoveAt(q, k)) = Len(q) - 1
         /\ \A j \in 1 .. Len(q) - 1 : RemoveAt(q, k)[j] = q[IF j < k THEN j ELSE j + 1]
         /\ InQueue(RemoveAt(q, k)) \subseteq InQueue(q)
         /\ \A l \in DOMAIN q : l # k => q[l] \in InQueue(RemoveAt(q, k))
<1> DEFINE a == SubSeq(q, 1, k - 1)
           b == SubSeq(q, k + 1, Len(q))
           r == RemoveAt(q, k)
<1>1. k \in 1 .. Len(q) /\ Len(q) \in Nat /\ DOMAIN q = 1 .. Len(q) /\ \A i \in 1 .. Len(q) : q[i] \in S
  BY LenProperties
<1>2. a \in Seq(S) /\ Len(a) = k - 1 /\ \A i \in 1 .. k - 1 : a[i] = q[i]
  BY <1>1, SubSeqProperties
<1>3. b \in Seq(S) /\ Len(b) = Len(q) - k /\ \A i \in 1 .. Len(q) - k : b[i] = q[k + i]
  BY <1>1, SubSeqProperties
<1>4. r = a \o b BY DEF RemoveAt
<1> HIDE DEF a, b, r
<1>5. /\ r \in Seq(S) /\ Len(r) = Len(q) - 1
      /\ \A j \in 1 .. Len(q) - 1 : r[j] = q[IF j < k THEN j ELSE j + 1]
  <2>1. /\ a \o b \in Seq(S) /\ Len(a \o b) = Len(a) + Len(b)
        /\ \A j \in 1 .. Len(a) + Len(b) : (a \o b)[j] = IF j <= Len(a) THEN a[j] ELSE b[j - Len(a)]
    BY <1>2, <1>3, ConcatProperties
  <2>2. Len(a) + Len(b) = Len(q) - 1 BY <1>1, <1>2, <1>3
  <2>3. ASSUME NEW j \in 1 .. Len(q) - 1 PROVE r[j] = q[IF j < k THEN j ELSE j + 1]
    <3>1. CASE j < k BY <3>1, <1>1, <1>2, <1>4, <2>1, <2>2
    <3>2. CASE ~(j < k)
      <4>1. r[j] = b[j - (k - 1)] BY <3>2, <1>1, <1>2, <1>4, <2>1, <2>2
      <4>2. j - (k - 1) \in 1 .. Len(q) - k /\ k + (j - (k - 1)) = j + 1 BY <3>2, <1>1
      <4> QED BY <3>2, <4>1, <4>2, <1>3
    <3> QED BY <3>1, <3>2
  <2> QED BY <1>4, <2>1, <2>2, <2>3
<1>6. DOMAIN r = 1 .. Len(q) - 1 BY <1>5, LenProperties
<1>7. \A l \in 1 .. Len(q) : l # k => q[l] \in InQueue(r)
  <2> TAKE l \in 1 .. Len(q)
  <2> HAVE l # k
  <2> DEFINE j == IF l < k THEN l ELSE l - 1
  <2>1. j \in 1 .. Len(q) - 1 /\ r[j] = q[l] BY <1>1, <1>5
  <2> QED BY <2>1, <1>6 DEF InQueue
<1>8. InQueue(r) \subseteq InQueue(q) BY <1>1, <1>5, <1>6 DEF InQueue
<1> QED BY <1>1, <1>5, <1>7, <1>8 DEF r

\* msgrcv finds a message, and none of a lower type.
LEMMA NextInQueue ==
  ASSUME NEW q \in Seq(Messages), q # <<>>
  PROVE  /\ Next_in(q) \in DOMAIN q
         /\ \A l \in DOMAIN q : Rank(q[Next_in(q)].type) <= Rank(q[l].type)
<1> DEFINE R == {Rank(q[k].type) : k \in DOMAIN q}
<1>1. \A k \in DOMAIN q : Rank(q[k].type) \in Nat
  <2> TAKE k \in DOMAIN q
  <2>1. q[k] \in Messages BY LenProperties
  <2>2. q[k].type \in MsgTypes BY <2>1 DEF Messages
  <2> QED BY <2>2 DEF MsgTypes, Rank
<1>2. DOMAIN q # {} /\ DOMAIN q \in SUBSET Nat
  <2>1. DOMAIN q = 1 .. Len(q) /\ Len(q) \in Nat BY LenProperties
  <2>2. Len(q) # 0 BY EmptySeq
  <2>3. 1 \in DOMAIN q BY <2>1, <2>2
  <2>4. 1 .. Len(q) \subseteq Nat OBVIOUS
  <2> QED BY <2>1, <2>3, <2>4
<1>3. PICK r \in R : \A s \in R : r <= s
  <2>1. R # {} /\ R \in SUBSET Nat BY <1>1, <1>2
  <2> HIDE DEF R
  <2> QED BY <2>1, Least
<1> DEFINE K == {k \in DOMAIN q : Rank(q[k].type) = r}
<1>4. PICK k \in K : \A l \in K : k <= l
  <2>1. K # {} /\ K \in SUBSET Nat BY <1>2, <1>3
  <2> QED BY <2>1, Least
<1> DEFINE P(n) == \A l \in DOMAIN q : Rank(q[n].type) < Rank(q[l].type)
                                       \/ (Rank(q[n].type) = Rank(q[l].type) /\ n <= l)
<1>5. k \in DOMAIN q /\ P(k)
  <2>1. k \in DOMAIN q /\ Rank(q[k].type) = r BY <1>4
  <2>2. ASSUME NEW l \in DOMAIN q
        PROVE  r < Rank(q[l].type) \/ (r = Rank(q[l].type) /\ k <= l)
    <3>1. r <= Rank(q[l].type) BY <1>3
    <3>2. r = Rank(q[l].type) => k <= l BY <1>4
    <3>3. r \in Nat /\ Rank(q[l].type) \in Nat BY <1>1, <1>3
    <3> QED BY <3>1, <3>2, <3>3
  <2> QED BY <2>1, <2>2
<1>6. Next_in(q) = CHOOSE n \in DOMAIN q : P(n) BY DEF Next_in
<1>7. Next_in(q) \in DOMAIN q /\ P(Next_in(q))
  <2> HIDE DEF P
  <2> QED BY <1>5, <1>6
<1> QED BY <1>1, <1>7

-----------------------------------------------------------------------------
(* Steps of the clients.                                                   *)

\* What a step that leaves some variables alone keeps.
LEMMA Untouched ==
  ASSUME IInv
  PROVE  /\ UNCHANGED <<serverQueue, clients, clientQueue>> => RequestsAreTheHolders'
         /\ UNCHANGED <<spc, outbox>> => Quiet'
         /\ UNCHANGED serverQueue => Origins' /\ OneEach'
         /\ UNCHANGED clients => OneId'
         /\ UNCHANGED <<cpc, unsent, client_id>> => Askers'
         /\ UNCHANGED <<outbox, clients, clientQueue>> => Replies'
         /\ UNCHANGED <<serverQueue, clients, cpc>> => LastWords'
         /\ UNCHANGED <<serverQueue, clients, cpc, client_id, clientQueue>> => Strangers'
         /\ UNCHANGED <<serverQueue, clients, cpc, client_id, clientQueue, n_clients>> => IdIsMine'
<1>1. UNCHANGED <<serverQueue, clients, clientQueue>> => RequestsAreTheHolders'
  BY DEF IInv, RequestsAreTheHolders
<1>2. UNCHANGED <<spc, outbox>> => Quiet' BY DEF IInv, Quiet
<1>3. UNCHANGED serverQueue => Origins' /\ OneEach' BY DEF IInv, Origins, OneEach
<1>4. UNCHANGED clients => OneId' BY DEF IInv, OneId, Used
<1>5. UNCHANGED <<cpc, unsent, client_id>> => Askers' BY DEF IInv, Askers
<1>6. UNCHANGED <<outbox, clients, clientQueue>> => Replies' BY DEF IInv, Replies
<1>7. UNCHANGED <<serverQueue, clients, cpc>> => LastWords' BY DEF IInv, LastWords
<1>8. UNCHANGED <<serverQueue, clients, cpc, client_id, clientQueue>> => Strangers'
  BY DEF IInv, Strangers, Waiting
<1>9. UNCHANGED <<serverQueue, clients, cpc, client_id, clientQueue, n_clients>> => IdIsMine'
  BY DEF IInv, IdIsMine, HasQueue, Used
<1> QED BY <1>1, <1>2, <1>3, <1>4, <1>5, <1>6, <1>7, <1>8, <1>9

\* A message to the server joins its queue, or is lost when the server is gone.
LEMMA PostAppends ==
  ASSUME TypeOK, NEW m \in Messages, Post(m)
  PROVE  /\ serverQueue' \in Seq(Messages) /\ Len(serverQueue') <= QueueSize
         /\ ServerUp => InQueue(serverQueue') = InQueue(serverQueue) \cup {m}
         /\ ~ServerUp => serverQueue' = serverQueue
         /\ OneEach /\ (m.type \in {"INIT", "STOP"} =>
                          \A n \in InQueue(serverQueue) : n.type = m.type => n.by # m.by)
            => OneEach'
<1>1. CASE ~ServerUp BY <1>1 DEF Post, TypeOK, OneEach
<1>2. CASE ServerUp
  <2>1. serverQueue' = Append(serverQueue, m) /\ ~Full(serverQueue) /\ serverQueue \in Seq(Messages)
    BY <1>2 DEF Post, TypeOK
  <2>2. /\ serverQueue' \in Seq(Messages) /\ Len(serverQueue') = Len(serverQueue) + 1
        /\ InQueue(serverQueue') = InQueue(serverQueue) \cup {m}
    BY <2>1, AppendMembers
  <2>3. Len(serverQueue') <= QueueSize
    BY <2>1, <2>2, BoundsAssumption, LenProperties DEF Full
  <2>4. ASSUME OneEach, m.type \in {"INIT", "STOP"} =>
                          \A n \in InQueue(serverQueue) : n.type = m.type => n.by # m.by
        PROVE  OneEach'
    <3>1. /\ DOMAIN serverQueue = 1 .. Len(serverQueue) /\ Len(serverQueue) \in Nat
          /\ DOMAIN serverQueue' = 1 .. Len(serverQueue) + 1
          /\ \A k \in 1 .. Len(serverQueue) : serverQueue'[k] = serverQueue[k]
          /\ serverQueue'[Len(serverQueue) + 1] = m
      BY <2>1, <2>2, LenProperties, AppendProperties
    <3>2. \A k \in DOMAIN serverQueue : serverQueue[k] \in InQueue(serverQueue) BY DEF InQueue
    <3> SUFFICES ASSUME NEW k \in DOMAIN serverQueue', NEW l \in DOMAIN serverQueue', k # l,
                        serverQueue'[k].type = serverQueue'[l].type,
                        serverQueue'[k].type \in {"INIT", "STOP"}
                 PROVE  serverQueue'[k].by # serverQueue'[l].by
      BY DEF OneEach
    <3>3. CASE k \in DOMAIN serverQueue /\ l \in DOMAIN serverQueue
      BY <2>4, <3>1, <3>3 DEF OneEach
    <3>4. CASE k \in DOMAIN serverQueue /\ l \notin DOMAIN serverQueue
      <4>1. l = Len(serverQueue) + 1 BY <3>1, <3>4
      <4> QED BY <2>4, <3>1, <3>2, <3>4, <4>1
    <3>5. CASE k \notin DOMAIN serverQueue
      <4>1. k = Len(serverQueue) + 1 /\ l \in DOMAIN serverQueue BY <3>1, <3>5
      <4> QED BY <2>4, <3>1, <3>2, <4>1
    <3> QED BY <3>3, <3>4, <3>5
  <2> QED BY <1>2, <2>2, <2>3, <2>4
<1> QED BY <1>1, <1>2

LEMMA StartStep ==
  ASSUME IInv, NEW c \in Clients, Start(c)
  PROVE  IInv'
<1> USE DEF Start, Goto
<1>1. TypeOK' BY DEF IInv, TypeOK, serverVars
<1>2. IdIsMine'
  <2>1. client_id[c] = -1 /\ clientQueue[c] = <<>> BY DEF IInv, Strangers
  <2>2. InQueue(clientQueue[c]) = {} BY <2>1 DEF InQueue
  <2>3. \A i \in Used : clients[i] # c BY DEF IInv, Strangers, Used
  <2> QED BY <2>1, <2>2, <2>3 DEF IInv, IdIsMine, TypeOK, HasQueue, Used, serverVars
<1>3. Strangers'
  BY DEF IInv, Strangers, Waiting, TypeOK, serverVars
<1>4. LastWords'
  BY DEF IInv, LastWords, TypeOK, serverVars
<1>5. Askers'
  BY DEF IInv, Askers, TypeOK, serverVars
<1> QED BY <1>1, <1>2, <1>3, <1>4, <1>5, Untouched DEF IInv, serverVars

LEMMA SendInitStep ==
  ASSUME IInv, NEW c \in Clients, client_send_init(c)
  PROVE  IInv'
<1> DEFINE m == Msg("INIT", c, -1)
<1>1. /\ cpc[c] = "init" /\ Post(m) /\ cpc' = [cpc EXCEPT ![c] = IF ServerUp THEN "loop" ELSE "leave"]
      /\ UNCHANGED <<spc, g_should_stop, is_stopping, clients, n_clients, outbox, client_id,
                     should_stop, unsent, commands, clientQueue, sigints>>
  BY DEF client_send_init, Goto, serverVars
<1>2. m \in Messages /\ m.type = "INIT" /\ m.by = c BY DEF Messages, MsgTypes, Msg
<1>3. ~Waiting(c) /\ \A i \in Ids : clients[i] # c BY <1>1 DEF IInv, Strangers
<1>4. TypeOK BY DEF IInv
<1> HIDE DEF m
<1>5. /\ serverQueue' \in Seq(Messages) /\ Len(serverQueue') <= QueueSize
      /\ ServerUp => InQueue(serverQueue') = InQueue(serverQueue) \cup {m}
      /\ ~ServerUp => serverQueue' = serverQueue
      /\ OneEach'
  <2>1. OneEach /\ \A n \in InQueue(serverQueue) : n.type = m.type => n.by # m.by
    BY <1>2, <1>3 DEF IInv, Waiting
  <2> QED BY <1>1, <1>2, <1>4, <2>1, PostAppends
<1>6. InQueue(serverQueue) \subseteq InQueue(serverQueue')
      /\ \A n \in InQueue(serverQueue') : n \in InQueue(serverQueue) \/ n = m
  BY <1>5
<1>7. TypeOK' BY <1>1, <1>4, <1>5 DEF TypeOK
<1>8. IdIsMine'
  <2>1. \A d \in Clients : HasQueue(d)' = HasQueue(d) BY <1>1, <1>4 DEF HasQueue, TypeOK
  <2>2. \A i \in Used : clients[i] \in Clients /\ clients[i] # c BY <1>3, <1>4 DEF Used, TypeOK
  <2>3. Used' = Used BY <1>1 DEF Used
  <2> QED BY <1>1, <1>4, <1>6, <2>1, <2>2, <2>3 DEF IInv, IdIsMine, TypeOK
<1>9. RequestsAreTheHolders' BY <1>1, <1>2, <1>6 DEF IInv, RequestsAreTheHolders
<1>10. Origins' BY <1>2, <1>6 DEF IInv, Origins
<1>11. Strangers'
  <2>1. \A d \in Clients \ {c} : Waiting(d)' = Waiting(d) BY <1>2, <1>6 DEF Waiting
  <2>2. cpc'[c] \in {"loop", "leave"} /\ \A d \in Clients \ {c} : cpc'[d] = cpc[d]
    BY <1>1, <1>4 DEF TypeOK
  <2> QED BY <1>1, <1>3, <2>1, <2>2 DEF IInv, Strangers
<1>12. LastWords'
  BY <1>1, <1>2, <1>4, <1>6 DEF IInv, LastWords, TypeOK, Origins
<1>13. Askers' BY <1>1, <1>4 DEF IInv, Askers, TypeOK
<1> QED BY <1>1, <1>5, <1>7, <1>8, <1>9, <1>10, <1>11, <1>12, <1>13, Untouched DEF IInv

\* A request names its sender's id.
LEMMA RequestTypes ==
  ASSUME TypeOK, NEW c \in Clients, client_id[c] # -1, NEW m \in Requests(c)
  PROVE  /\ m \in Messages /\ m.by = c /\ m.id = client_id[c] /\ m.id \in Ids
         /\ m.type \in {"LIST", "2ALL", "2ONE"} /\ (m.type = "2ONE" => m.to \in Ids)
<1>1. client_id[c] \in Ids BY DEF TypeOK
<1>2. CASE m \in {Msg(type, c, client_id[c]) : type \in Commands \ {"2ONE"}}
  <2>1. PICK type \in Commands \ {"2ONE"} : m = Msg(type, c, client_id[c]) BY <1>2
  <2>2. type \in {"LIST", "2ALL"} BY BoundsAssumption
  <2> QED BY <1>1, <2>1, <2>2 DEF Msg, Messages, MsgTypes
<1>3. CASE \E i \in Ids : m = [Msg("2ONE", c, client_id[c]) EXCEPT !.to = i]
  BY <1>1, <1>3 DEF Msg, Messages, MsgTypes
<1> QED BY <1>2, <1>3 DEF Requests

LEMMA LooksStep ==
  ASSUME IInv, NEW c \in Clients, Looks(c)
  PROVE  IInv'
<1>1. TypeOK BY DEF IInv
<1>2. /\ cpc[c] = "loop"
      /\ UNCHANGED <<spc, g_should_stop, is_stopping, clients, n_clients, outbox, client_id,
                     serverQueue, clientQueue, sigints>>
      /\ cpc' \in {[cpc EXCEPT ![c] = w] : w \in {"leave", "recv", "send"}}
  BY DEF Looks, Goto, serverVars
<1>3. /\ cpc'[c] \in {"leave", "recv", "send"} /\ \A d \in Clients \ {c} : cpc'[d] = cpc[d]
      /\ cpc' \in [Clients -> {"off", "init", "loop", "send", "recv", "leave", "left", "vanished"}]
  BY <1>1, <1>2 DEF TypeOK
<1>4. \/ UNCHANGED <<unsent, commands>> /\ cpc'[c] # "send"
      \/ /\ client_id[c] # -1 /\ commands[c] < MaxCommands
         /\ \E m \in Requests(c) : unsent' = [unsent EXCEPT ![c] = m]
         /\ commands' = [commands EXCEPT ![c] = @ + 1]
  BY <1>1 DEF Looks, Goto, TypeOK
<1>5. should_stop' \in [Clients -> BOOLEAN] BY <1>1 DEF Looks, TypeOK
<1>6. TypeOK'
  <2>1. unsent' \in [Clients -> Messages \cup {NoMsg}]
    <3>1. \A m \in Requests(c) : client_id[c] # -1 => m \in Messages BY <1>1, RequestTypes
    <3> QED BY <1>1, <1>4, <3>1 DEF TypeOK
  <2>2. commands' \in [Clients -> 0 .. MaxCommands]
    <3>1. commands[c] \in 0 .. MaxCommands BY <1>1 DEF TypeOK
    <3>2. commands[c] < MaxCommands => commands[c] + 1 \in 0 .. MaxCommands
      BY <3>1, BoundsAssumption
    <3>3. commands \in [Clients -> 0 .. MaxCommands] BY <1>1 DEF TypeOK
    <3> QED BY <1>4, <3>2, <3>3
  <2> QED BY <1>1, <1>2, <1>3, <1>5, <2>1, <2>2 DEF TypeOK
<1>7. \A d \in Clients : HasQueue(d)' = HasQueue(d) BY <1>2, <1>3 DEF HasQueue
<1>8. IdIsMine'
  <2>1. \A d \in Clients : cpc'[d] = "left" => cpc[d] = "left" BY <1>3
  <2>2. Used' = Used /\ \A i \in Used : clients[i] \in Clients BY <1>1, <1>2 DEF Used, TypeOK
  <2> QED BY <1>2, <1>7, <2>1, <2>2 DEF IInv, IdIsMine
<1>9. Strangers'
  <2>1. \A d \in Clients : Waiting(d)' = Waiting(d) BY <1>2 DEF Waiting
  <2> QED BY <1>2, <1>3, <2>1 DEF IInv, Strangers
<1>10. LastWords' BY <1>2, <1>3 DEF IInv, LastWords, Origins
<1>11. Askers'
  <2>1. \A d \in Clients \ {c} : unsent'[d] = unsent[d] BY <1>1, <1>4 DEF TypeOK
  <2>2. cpc'[c] = "send" => unsent'[c] \in Requests(c) /\ client_id[c] # -1
    BY <1>1, <1>4 DEF TypeOK
  <2>3. cpc'[c] = "send" =>
          /\ unsent'[c].type \in {"LIST", "2ALL", "2ONE"}
          /\ unsent'[c].by = c /\ unsent'[c].id = client_id[c] /\ unsent'[c].id \in Ids
          /\ unsent'[c].type = "2ONE" => unsent'[c].to \in Ids
    BY <1>1, <2>2, RequestTypes
  <2> QED BY <1>2, <1>3, <2>1, <2>3 DEF IInv, Askers
<1> QED BY <1>2, <1>6, <1>8, <1>9, <1>10, <1>11, Untouched DEF IInv

LEMMA SendsStep ==
  ASSUME IInv, NEW c \in Clients, Sends(c)
  PROVE  IInv'
<1> DEFINE m == unsent[c]
<1>1. /\ cpc[c] = "send" /\ Post(m) /\ cpc' = [cpc EXCEPT ![c] = "recv"]
      /\ unsent' = [unsent EXCEPT ![c] = NoMsg]
      /\ UNCHANGED <<spc, g_should_stop, is_stopping, clients, n_clients, outbox, client_id,
                     should_stop, commands, clientQueue, sigints>>
  BY DEF Sends, Goto, serverVars
<1>2. TypeOK BY DEF IInv
<1>3. /\ m.type \in {"LIST", "2ALL", "2ONE"} /\ m.by = c /\ m.id = client_id[c] /\ m.id \in Ids
      /\ m.type = "2ONE" => m.to \in Ids
  BY <1>1 DEF IInv, Askers
<1>4. m \in Messages
  <2>1. m \in Messages \cup {NoMsg} BY <1>2 DEF TypeOK
  <2>2. m # NoMsg BY <1>3 DEF NoMsg, Msg
  <2> QED BY <2>1, <2>2
<1>5. clients[m.id] = c
  <2>1. HasQueue(c) BY <1>1 DEF HasQueue
  <2>2. client_id[c] # -1 BY <1>3 DEF Ids
  <2> QED BY <1>3, <2>1, <2>2 DEF IInv, IdIsMine
<1> HIDE DEF m
<1>6. /\ serverQueue' \in Seq(Messages) /\ Len(serverQueue') <= QueueSize
      /\ ServerUp => InQueue(serverQueue') = InQueue(serverQueue) \cup {m}
      /\ ~ServerUp => serverQueue' = serverQueue
      /\ OneEach'
  <2>1. OneEach /\ m.type \notin {"INIT", "STOP"} BY <1>3 DEF IInv
  <2> QED BY <1>1, <1>2, <1>4, <2>1, PostAppends
<1>7. InQueue(serverQueue) \subseteq InQueue(serverQueue')
      /\ \A n \in InQueue(serverQueue') : n \in InQueue(serverQueue) \/ n = m
  BY <1>6
<1>8. TypeOK' BY <1>1, <1>2, <1>6 DEF TypeOK
<1>9. cpc'[c] = "recv" /\ \A d \in Clients \ {c} : cpc'[d] = cpc[d] BY <1>1, <1>2 DEF TypeOK
<1>10. IdIsMine'
  <2>1. \A d \in Clients : HasQueue(d)' = HasQueue(d) BY <1>1, <1>9 DEF HasQueue
  <2>2. Used' = Used /\ \A i \in Used : clients[i] \in Clients BY <1>1, <1>2 DEF Used, TypeOK
  <2>3. \A d \in Clients : cpc'[d] = "left" => cpc[d] = "left" BY <1>9
  <2> QED BY <1>1, <1>7, <2>1, <2>2, <2>3 DEF IInv, IdIsMine
<1>11. RequestsAreTheHolders' BY <1>1, <1>3, <1>5, <1>7 DEF IInv, RequestsAreTheHolders
<1>12. Origins' BY <1>3, <1>7 DEF IInv, Origins
<1>13. Strangers'
  <2>1. \A d \in Clients : Waiting(d)' = Waiting(d) BY <1>3, <1>7 DEF Waiting
  <2> QED BY <1>1, <1>9, <2>1 DEF IInv, Strangers
<1>14. LastWords' BY <1>1, <1>3, <1>7, <1>9 DEF IInv, LastWords, Origins
<1>15. Askers' BY <1>1, <1>2, <1>9 DEF IInv, Askers, TypeOK
<1> QED BY <1>1, <1>6, <1>8, <1>10, <1>11, <1>12, <1>13, <1>14, <1>15, Untouched DEF IInv

\* the INIT a client reads gives it the slot that is its own
LEMMA ReceivesStep ==
  ASSUME IInv, NEW c \in Clients, Receives(c)
  PROVE  IInv'
<1>1. TypeOK BY DEF IInv
<1>2. /\ cpc[c] = "recv" /\ cpc' = [cpc EXCEPT ![c] = "loop"]
      /\ UNCHANGED <<spc, g_should_stop, is_stopping, clients, n_clients, outbox, unsent,
                     commands, serverQueue, sigints>>
  BY DEF Receives, Goto, serverVars
<1>3. cpc'[c] = "loop" /\ \A d \in Clients \ {c} : cpc'[d] = cpc[d] BY <1>1, <1>2 DEF TypeOK
<1>4. HasQueue(c) /\ \A d \in Clients : HasQueue(d)' = HasQueue(d) BY <1>2, <1>3 DEF HasQueue
<1>5. /\ clientQueue' \in [Clients -> Seq(Messages)] /\ Len(clientQueue'[c]) <= QueueSize
      /\ InQueue(clientQueue'[c]) \subseteq InQueue(clientQueue[c])
      /\ \A d \in Clients \ {c} : clientQueue'[d] = clientQueue[d] /\ client_id'[d] = client_id[d]
      /\ client_id' \in [Clients -> Ids \cup {-1}] /\ should_stop' \in [Clients -> BOOLEAN]
      /\ client_id'[c] # -1 => clients[client_id'[c]] = c
  <2>0. clientQueue[c] \in Seq(Messages) /\ Len(clientQueue[c]) <= QueueSize BY <1>1 DEF TypeOK
  <2>00. client_id[c] # -1 => clients[client_id[c]] = c BY <1>4 DEF IInv, IdIsMine
  <2>1. CASE clientQueue[c] = <<>>
    BY <1>1, <2>0, <2>00, <2>1 DEF Receives, TypeOK
  <2>2. CASE clientQueue[c] # <<>>
    <3> DEFINE k == Next_in(clientQueue[c])
               m == clientQueue[c][k]
    <3>1. k \in DOMAIN clientQueue[c] BY <2>0, <2>2, NextInQueue
    <3>2. m \in Messages /\ m \in InQueue(clientQueue[c]) BY <2>0, <3>1, LenProperties DEF InQueue
    <3>3. m.type = "INIT" => m.id \in Ids /\ clients[m.id] = c
      BY <1>4, <3>2 DEF IInv, IdIsMine, Replies
    <3>4. /\ clientQueue' = [clientQueue EXCEPT ![c] = RemoveAt(@, k)]
          /\ client_id' = IF m.type = "INIT" THEN [client_id EXCEPT ![c] = m.id] ELSE client_id
          /\ should_stop' = IF m.type = "STOP" THEN [should_stop EXCEPT ![c] = TRUE] ELSE should_stop
      BY <2>2 DEF Receives
    <3> HIDE DEF k, m
    <3> DEFINE r == RemoveAt(clientQueue[c], k)
    <3>5. r \in Seq(Messages) /\ Len(r) = Len(clientQueue[c]) - 1 /\ InQueue(r) \subseteq InQueue(clientQueue[c])
      BY <2>0, <3>1, RemoveMembers
    <3>6. clientQueue' = [clientQueue EXCEPT ![c] = r] BY <3>4
    <3> HIDE DEF r
    <3>7. Len(r) <= QueueSize BY <2>0, <3>5, BoundsAssumption, LenProperties
    <3>8. /\ clientQueue' \in [Clients -> Seq(Messages)] /\ clientQueue'[c] = r
          /\ \A d \in Clients \ {c} : clientQueue'[d] = clientQueue[d]
      BY <1>1, <3>5, <3>6 DEF TypeOK
    <3>9. /\ client_id' \in [Clients -> Ids \cup {-1}]
          /\ client_id'[c] # -1 => clients[client_id'[c]] = c
          /\ \A d \in Clients \ {c} : client_id'[d] = client_id[d]
      BY <1>1, <2>00, <3>3, <3>4 DEF TypeOK
    <3>10. should_stop' \in [Clients -> BOOLEAN] BY <1>1, <3>4 DEF TypeOK
    <3> QED BY <3>5, <3>7, <3>8, <3>9, <3>10
  <2> QED BY <2>1, <2>2
<1>6. TypeOK' BY <1>1, <1>2, <1>5 DEF TypeOK
<1>7. IdIsMine'
  <2>1. Used' = Used /\ \A i \in Used : clients[i] \in Clients BY <1>1, <1>2 DEF Used, TypeOK
  <2>2. \A d \in Clients : cpc'[d] = "left" => cpc[d] = "left" BY <1>3
  <2>3. ASSUME NEW d \in Clients, HasQueue(d)'
        PROVE  /\ client_id'[d] # -1 => clients[client_id'[d]] = d
               /\ \A m \in InQueue(clientQueue'[d]) : m.type = "INIT" => clients[m.id] = d
    BY <1>4, <1>5, <2>3 DEF IInv, IdIsMine
  <2> QED BY <1>2, <2>1, <2>2, <2>3 DEF IInv, IdIsMine
<1>8. RequestsAreTheHolders' BY <1>2, <1>5 DEF IInv, RequestsAreTheHolders
<1>9. Strangers'
  <2>1. \A d \in Clients : Waiting(d)' = Waiting(d) BY <1>2 DEF Waiting
  <2> QED BY <1>2, <1>3, <1>5, <2>1 DEF IInv, Strangers
<1>10. LastWords' BY <1>2, <1>3 DEF IInv, LastWords, Origins
<1>11. Askers' BY <1>2, <1>3, <1>5 DEF IInv, Askers
<1>12. Replies' BY <1>2, <1>5 DEF IInv, Replies
<1> QED BY <1>2, <1>6, <1>7, <1>8, <1>9, <1>10, <1>11, <1>12, Untouched DEF IInv

\* the STOP of a client that has an id names the slot that is its own
LEMMA LeavesStep ==
  ASSUME IInv, NEW c \in Clients, Leaves(c)
  PROVE  IInv'
<1>1. TypeOK BY DEF IInv
<1>2. /\ cpc[c] = "leave" /\ clientQueue' = [clientQueue EXCEPT ![c] = <<>>]
      /\ UNCHANGED <<spc, g_should_stop, is_stopping, clients, n_clients, outbox, should_stop,
                     unsent, commands, sigints>>
  BY DEF Leaves, serverVars
<1> DEFINE id == client_id[c]
           m == Msg("STOP", c, id)
           Told == id # -1 /\ ServerUp
<1>3. /\ ~Told => serverQueue' = serverQueue /\ client_id' = client_id
                   /\ cpc' = [cpc EXCEPT ![c] = "vanished"]
      /\ Told => Post(m) /\ client_id' = [client_id EXCEPT ![c] = -1]
                 /\ cpc' = [cpc EXCEPT ![c] = "left"]
  BY DEF Leaves, Goto, Post
<1>4. m.type = "STOP" /\ m.by = c /\ m.id = id BY DEF Msg
<1>5. id # -1 => id \in Ids /\ clients[id] = c /\ id \in Used /\ m \in Messages
  <2>1. HasQueue(c) BY <1>2 DEF HasQueue
  <2>2. id # -1 => id \in Ids /\ clients[id] = c BY <1>1, <2>1 DEF IInv, IdIsMine, TypeOK
  <2> QED BY <2>2, BoundsAssumption DEF Used, Msg, Messages, MsgTypes
<1> HIDE DEF m
<1>6. /\ serverQueue' \in Seq(Messages) /\ Len(serverQueue') <= QueueSize
      /\ Told => InQueue(serverQueue') = InQueue(serverQueue) \cup {m}
      /\ OneEach'
  <2>1. OneEach /\ \A n \in InQueue(serverQueue) : n.type = "STOP" => n.by # c
    BY <1>2 DEF IInv, LastWords
  <2>2. CASE Told BY <1>1, <1>3, <1>4, <1>5, <2>1, <2>2, PostAppends
  <2>3. CASE ~Told BY <1>1, <1>3, <2>1, <2>3 DEF TypeOK, OneEach
  <2> QED BY <2>2, <2>3
<1>7. /\ InQueue(serverQueue) \subseteq InQueue(serverQueue')
      /\ \A n \in InQueue(serverQueue') : n \in InQueue(serverQueue) \/ (Told /\ n = m)
  BY <1>3, <1>6
<1>8. /\ clientQueue' \in [Clients -> Seq(Messages)] /\ clientQueue'[c] = <<>>
      /\ InQueue(clientQueue'[c]) = {}
      /\ \A d \in Clients \ {c} : clientQueue'[d] = clientQueue[d]
  BY <1>1, <1>2 DEF TypeOK, InQueue
<1>9. /\ cpc' \in [Clients -> {"off", "init", "loop", "send", "recv", "leave", "left", "vanished"}]
      /\ cpc'[c] \in {"left", "vanished"} /\ (cpc'[c] = "left" <=> Told)
      /\ \A d \in Clients \ {c} : cpc'[d] = cpc[d] /\ client_id'[d] = client_id[d]
      /\ client_id' \in [Clients -> Ids \cup {-1}]
  BY <1>1, <1>3 DEF TypeOK
<1>10. TypeOK'
  <2>1. \A d \in Clients : Len(clientQueue'[d]) <= QueueSize
    <3>1. Len(<<>>) = 0 OBVIOUS
    <3>2. Len(clientQueue'[c]) <= QueueSize BY <1>8, <3>1, BoundsAssumption
    <3>3. \A d \in Clients \ {c} : Len(clientQueue'[d]) <= QueueSize BY <1>1, <1>8 DEF TypeOK
    <3> QED BY <3>2, <3>3
  <2> QED BY <1>1, <1>2, <1>6, <1>8, <1>9, <2>1 DEF TypeOK
<1>11. ~HasQueue(c)' /\ \A d \in Clients \ {c} : HasQueue(d)' = HasQueue(d)
  BY <1>9 DEF HasQueue
<1>12. IdIsMine'
  <2>1. Used' = Used BY <1>2 DEF Used
  <2>2. ASSUME NEW d \in Clients, HasQueue(d)'
        PROVE  /\ client_id'[d] # -1 => clients[client_id'[d]] = d
               /\ \A n \in InQueue(clientQueue'[d]) : n.type = "INIT" => clients[n.id] = d
    BY <1>8, <1>9, <1>11, <2>2 DEF IInv, IdIsMine
  <2>3. ASSUME NEW i \in Used, cpc'[clients[i]] = "left"
        PROVE  \E n \in InQueue(serverQueue') : n.type = "STOP" /\ n.id = i /\ n.by = clients[i]
    <3>1. clients[i] \in Clients BY <1>1 DEF Used, TypeOK
    <3>2. CASE clients[i] = c
      <4>1. Told BY <1>9, <2>3, <3>2
      <4>2. i = id BY <1>5, <3>2, <4>1 DEF IInv, OneId
      <4> QED BY <1>4, <1>6, <3>2, <4>1, <4>2
    <3>3. CASE clients[i] # c
      BY <1>7, <1>9, <2>3, <3>1, <3>3 DEF IInv, IdIsMine
    <3> QED BY <3>2, <3>3
  <2> QED BY <1>2, <2>1, <2>2, <2>3 DEF IInv, IdIsMine
<1>13. RequestsAreTheHolders'
  BY <1>2, <1>4, <1>5, <1>7, <1>8 DEF IInv, RequestsAreTheHolders
<1>14. Origins' BY <1>4, <1>5, <1>7 DEF IInv, Origins
<1>15. Strangers'
  <2>1. \A d \in Clients : Waiting(d)' = Waiting(d) BY <1>4, <1>7 DEF Waiting
  <2>2. Told => ~Waiting(c) BY <1>5 DEF IInv, Strangers
  <2> QED BY <1>2, <1>8, <1>9, <2>1, <2>2 DEF IInv, Strangers
<1>16. LastWords' BY <1>2, <1>4, <1>5, <1>7, <1>9 DEF IInv, LastWords, Origins
<1>17. Askers' BY <1>2, <1>9 DEF IInv, Askers
<1>18. Replies' BY <1>2, <1>8 DEF IInv, Replies
<1> QED BY <1>2, <1>6, <1>10, <1>12, <1>13, <1>14, <1>15, <1>16, <1>17, <1>18, Untouched DEF IInv

LEMMA ClientSigintStep ==
  ASSUME IInv, NEW c \in Clients, ClientSigint(c)
  PROVE  IInv'
<1>1. TypeOK BY DEF IInv
<1>2. /\ HasQueue(c)
      /\ sigints < MaxSigints /\ sigints' = sigints + 1
      /\ should_stop' = [should_stop EXCEPT ![c] = TRUE]
      /\ UNCHANGED <<spc, g_should_stop, is_stopping, clients, n_clients, outbox, client_id,
                     commands, serverQueue>>
  BY DEF ClientSigint, serverVars
<1>3. \/ UNCHANGED <<cpc, unsent, clientQueue>>
      \/ /\ cpc' \in {[cpc EXCEPT ![c] = w] : w \in {"leave", "recv"}}
         /\ unsent' \in {unsent, [unsent EXCEPT ![c] = NoMsg]} /\ UNCHANGED clientQueue
      \/ /\ cpc' = [cpc EXCEPT ![c] = "vanished"]
         /\ clientQueue' = [clientQueue EXCEPT ![c] = <<>>] /\ UNCHANGED unsent
  BY DEF ClientSigint, Goto
<1>4. /\ cpc' \in [Clients -> {"off", "init", "loop", "send", "recv", "leave", "left", "vanished"}]
      /\ cpc'[c] \in {cpc[c], "leave", "recv", "vanished"}
      /\ \A d \in Clients \ {c} : cpc'[d] = cpc[d] /\ unsent'[d] = unsent[d]
      /\ unsent' \in [Clients -> Messages \cup {NoMsg}]
      /\ cpc'[c] = "send" => unsent' = unsent
  BY <1>1, <1>3 DEF TypeOK
<1>5. /\ clientQueue' \in [Clients -> Seq(Messages)]
      /\ \A d \in Clients : Len(clientQueue'[d]) <= QueueSize
      /\ \A d \in Clients : InQueue(clientQueue'[d]) \subseteq InQueue(clientQueue[d])
                            /\ (clientQueue[d] = <<>> => clientQueue'[d] = <<>>)
  <2>1. CASE UNCHANGED clientQueue BY <1>1, <2>1 DEF TypeOK
  <2>2. CASE clientQueue' = [clientQueue EXCEPT ![c] = <<>>]
    BY <1>1, <2>2, BoundsAssumption DEF TypeOK, InQueue
  <2> QED BY <1>3, <2>1, <2>2
<1>6. TypeOK'
  <2>1. sigints' \in 0 .. MaxSigints BY <1>1, <1>2, BoundsAssumption DEF TypeOK
  <2> QED BY <1>1, <1>2, <1>4, <1>5, <2>1 DEF TypeOK
<1>7. cpc[c] \notin {"off", "left", "vanished"} /\ \A d \in Clients : HasQueue(d)' => HasQueue(d)
  BY <1>2, <1>4 DEF HasQueue
<1>8. IdIsMine'
  <2>1. Used' = Used /\ \A i \in Used : clients[i] \in Clients BY <1>1, <1>2 DEF Used, TypeOK
  <2>2. \A d \in Clients : cpc'[d] = "left" => cpc[d] = "left" BY <1>4
  <2> QED BY <1>2, <1>5, <1>7, <2>1, <2>2 DEF IInv, IdIsMine
<1>9. RequestsAreTheHolders' BY <1>2, <1>5 DEF IInv, RequestsAreTheHolders
<1>10. Strangers'
  <2>1. \A d \in Clients : Waiting(d)' = Waiting(d) BY <1>2 DEF Waiting
  <2>2. \A d \in Clients : /\ (cpc'[d] = "off" => cpc[d] = "off")
                           /\ (cpc'[d] = "init" => cpc[d] = "init")
                           /\ (cpc'[d] = "left" => cpc[d] = "left")
    BY <1>4
  <2> QED BY <1>2, <1>5, <2>1, <2>2 DEF IInv, Strangers
<1>11. LastWords'
  <2>1. \A d \in Clients : cpc[d] = "left" => cpc'[d] = "left" BY <1>4, <1>7
  <2> QED BY <1>2, <2>1 DEF IInv, LastWords, Origins
<1>12. Askers' BY <1>2, <1>4 DEF IInv, Askers
<1>13. Replies' BY <1>2, <1>5 DEF IInv, Replies
<1> QED BY <1>2, <1>6, <1>8, <1>9, <1>10, <1>11, <1>12, <1>13, Untouched DEF IInv

-----------------------------------------------------------------------------
(* Steps of the server.                                                    *)

\* A server with no client counted has none in its table.
LEMMA ServerTestsStep ==
  ASSUME IInv, ServerTests
  PROVE  IInv'
<1>1. TypeOK BY DEF IInv
<1>2. /\ spc = "test"
      /\ UNCHANGED <<g_should_stop, is_stopping, clients, n_clients, outbox, cpc, client_id,
                     should_stop, unsent, commands, clientQueue, sigints>>
  BY DEF ServerTests, clientVars
<1>3. CASE UNCHANGED serverQueue /\ spc' = "check"
  <2>1. TypeOK' BY <1>1, <1>2, <1>3 DEF TypeOK
  <2>2. Quiet' BY <1>2, <1>3 DEF IInv, Quiet
  <2> QED BY <1>2, <1>3, <2>1, <2>2, Untouched DEF IInv
<1>4. CASE spc' = "gone" /\ serverQueue' = <<>> /\ n_clients = 0
  <2>1. InQueue(serverQueue') = {} /\ DOMAIN serverQueue' = {} /\ Len(serverQueue') = 0
        /\ serverQueue' \in Seq(Messages)
    BY <1>4 DEF InQueue
  <2>2. TypeOK' BY <1>1, <1>2, <1>4, <2>1, BoundsAssumption DEF TypeOK
  <2>3. Used = {}
    <3>1. Cardinality(Used) = 0 BY <1>4 DEF IInv, IdIsMine
    <3>2. IsFiniteSet(Ids) BY BoundsAssumption, FS_Interval DEF Ids
    <3>3. IsFiniteSet(Used) BY <3>2, FS_Subset DEF Used
    <3> QED BY <3>1, <3>3, FS_EmptySet
  <2>4. Used' = Used BY <1>2 DEF Used
  <2>5. \A c \in Clients : HasQueue(c)' = HasQueue(c) BY <1>2 DEF HasQueue
  <2>6. IdIsMine' BY <1>2, <2>3, <2>4, <2>5 DEF IInv, IdIsMine
  <2>7. RequestsAreTheHolders' BY <1>2, <2>1 DEF IInv, RequestsAreTheHolders
  <2>8. Quiet' BY <1>2 DEF IInv, Quiet
  <2>9. Origins' /\ OneEach' /\ LastWords' BY <2>1 DEF Origins, OneEach, LastWords
  <2>10. Strangers'
    <3>1. \A c \in Clients : ~Waiting(c)' BY <2>1 DEF Waiting
    <3> QED BY <1>2, <3>1 DEF IInv, Strangers
  <2> QED BY <1>2, <2>2, <2>6, <2>7, <2>8, <2>9, <2>10, Untouched DEF IInv
<1> QED BY <1>3, <1>4 DEF ServerTests

LEMMA StopStep ==
  ASSUME IInv, server_stop
  PROVE  IInv'
<1>1. TypeOK BY DEF IInv
<1>2. /\ spc = "check"
      /\ UNCHANGED <<g_should_stop, clients, n_clients, cpc, client_id, should_stop, unsent,
                     commands, serverQueue, clientQueue, sigints>>
  BY DEF server_stop, clientVars
<1>3. CASE UNCHANGED <<is_stopping, outbox>> /\ spc' = "recv"
  <2>1. TypeOK' BY <1>1, <1>2, <1>3 DEF TypeOK
  <2>2. Quiet' BY <1>2, <1>3 DEF IInv, Quiet
  <2> QED BY <1>2, <1>3, <2>1, <2>2, Untouched DEF IInv
<1>4. CASE /\ spc' = "stop" /\ is_stopping' = TRUE
           /\ outbox' = [k \in Places |-> To(clients[IdAt(k)], Msg("STOP", Nobody, IdAt(k)))]
  <2>1. \A k \in Places : IdAt(k) \in Ids BY BoundsAssumption DEF Places, IdAt, Ids
  <2>2. /\ outbox' \in Seq([to : Clients \cup {Nobody}, msg : Messages])
        /\ \A o \in InQueue(outbox') : o.msg.type = "STOP"
    <3>1. \A k \in Places : clients[IdAt(k)] \in Clients \cup {Nobody} BY <1>1, <2>1 DEF TypeOK
    <3>2. \A k \in Places : Msg("STOP", Nobody, IdAt(k)) \in Messages
      BY <2>1 DEF Msg, Messages, MsgTypes
    <3>3. \A k \in Places : To(clients[IdAt(k)], Msg("STOP", Nobody, IdAt(k)))
                             \in [to : Clients \cup {Nobody}, msg : Messages]
      BY <3>1, <3>2 DEF To
    <3>4. outbox' \in Seq([to : Clients \cup {Nobody}, msg : Messages])
      BY <1>4, <3>3, BoundsAssumption, IsASeq DEF Places
    <3>5. \A o \in InQueue(outbox') : \E k \in Places : o = To(clients[IdAt(k)], Msg("STOP", Nobody, IdAt(k)))
      BY <1>4 DEF InQueue
    <3> QED BY <3>4, <3>5 DEF To, Msg
  <2>3. TypeOK' BY <1>1, <1>2, <1>4, <2>2 DEF TypeOK
  <2>4. Quiet' BY <1>4 DEF Quiet
  <2>5. Replies' BY <1>2, <2>2 DEF IInv, Replies
  <2> QED BY <1>2, <2>3, <2>4, <2>5, Untouched DEF IInv
<1> QED BY <1>3, <1>4 DEF server_stop

\* a message goes to a queue that has room, and what it says is still true there
LEMMA SendStep ==
  ASSUME IInv, ServerSends
  PROVE  IInv'
<1>1. TypeOK BY DEF IInv
<1>2. /\ spc \in {"stop", "reply"}
      /\ UNCHANGED <<g_should_stop, is_stopping, clients, n_clients, cpc, client_id, should_stop,
                     unsent, commands, serverQueue, sigints>>
  BY DEF ServerSends, clientVars
<1>3. CASE outbox = <<>>
  <2>1. UNCHANGED <<outbox, clientQueue>> /\ spc' \in {"recv", "test"} BY <1>3 DEF ServerSends
  <2>2. TypeOK' BY <1>1, <1>2, <2>1 DEF TypeOK
  <2>3. Quiet' BY <1>3, <2>1 DEF Quiet
  <2> QED BY <1>2, <2>1, <2>2, <2>3, Untouched DEF IInv
<1>4. CASE outbox # <<>>
  <2> DEFINE c == Head(outbox).to
             m == Head(outbox).msg
  <2>1. /\ outbox' = Tail(outbox) /\ UNCHANGED spc
        /\ \/ /\ c # Nobody /\ HasQueue(c) /\ ~Full(clientQueue[c])
              /\ clientQueue' = [clientQueue EXCEPT ![c] = Append(@, m)]
           \/ UNCHANGED clientQueue
    BY <1>4 DEF ServerSends
  <2>2. /\ outbox' \in Seq([to : Clients \cup {Nobody}, msg : Messages])
        /\ InQueue(outbox') \subseteq InQueue(outbox)
        /\ Head(outbox) \in InQueue(outbox) /\ c \in Clients \cup {Nobody} /\ m \in Messages
    <3> DEFINE Outgoing == [to : Clients \cup {Nobody}, msg : Messages]
    <3>1. outbox \in Seq(Outgoing) BY <1>1 DEF TypeOK
    <3>2. /\ Tail(outbox) \in Seq(Outgoing) /\ InQueue(Tail(outbox)) \subseteq InQueue(outbox)
          /\ Head(outbox) \in InQueue(outbox) /\ Head(outbox) \in Outgoing
      <4> HIDE DEF Outgoing
      <4> QED BY <1>4, <3>1, TailMembers
    <3> QED BY <2>1, <3>2
  <2>3. /\ m.type = "INIT" => m.id \in Ids /\ clients[m.id] = c
        /\ m.type = "LIST" => c \in {Nobody, m.by}
    BY <2>2 DEF IInv, Replies
  <2> HIDE DEF c, m
  <2>4. /\ clientQueue' \in [Clients -> Seq(Messages)]
        /\ \A d \in Clients : Len(clientQueue'[d]) <= QueueSize
        /\ \A d \in Clients : \A n \in InQueue(clientQueue'[d]) :
              n \in InQueue(clientQueue[d]) \/ (d = c /\ n = m /\ HasQueue(c))
        /\ \A d \in Clients : clientQueue'[d] = clientQueue[d] \/ HasQueue(d)
    <3>1. CASE UNCHANGED clientQueue BY <1>1, <3>1 DEF TypeOK
    <3>2. CASE /\ c # Nobody /\ HasQueue(c) /\ ~Full(clientQueue[c])
               /\ clientQueue' = [clientQueue EXCEPT ![c] = Append(@, m)]
      <4>1. c \in Clients /\ clientQueue[c] \in Seq(Messages) BY <1>1, <2>2, <3>2 DEF TypeOK
      <4> DEFINE r == Append(clientQueue[c], m)
      <4>2. r \in Seq(Messages) /\ Len(r) = Len(clientQueue[c]) + 1
            /\ InQueue(r) = InQueue(clientQueue[c]) \cup {m}
        BY <2>2, <4>1, AppendMembers
      <4>3. Len(r) <= QueueSize BY <3>2, <4>1, <4>2, BoundsAssumption, LenProperties DEF Full
      <4>4. clientQueue' = [clientQueue EXCEPT ![c] = r] BY <3>2
      <4> HIDE DEF r
      <4>5. /\ clientQueue'[c] = r /\ clientQueue' \in [Clients -> Seq(Messages)]
            /\ \A d \in Clients \ {c} : clientQueue'[d] = clientQueue[d]
        BY <1>1, <4>1, <4>2, <4>4 DEF TypeOK
      <4>6. \A d \in Clients \ {c} : Len(clientQueue'[d]) <= QueueSize BY <1>1, <4>5 DEF TypeOK
      <4> QED BY <3>2, <4>2, <4>3, <4>5, <4>6
    <3> QED BY <2>1, <3>1, <3>2
  <2>5. TypeOK' BY <1>1, <1>2, <2>1, <2>2, <2>4 DEF TypeOK
  <2>6. IdIsMine'
    <3>1. Used' = Used /\ \A d \in Clients : HasQueue(d)' = HasQueue(d) BY <1>2 DEF Used, HasQueue
    <3>2. \A d \in Clients : HasQueue(d) =>
            \A n \in InQueue(clientQueue'[d]) : n.type = "INIT" => clients[n.id] = d
      BY <2>3, <2>4 DEF IInv, IdIsMine
    <3> QED BY <1>2, <3>1, <3>2 DEF IInv, IdIsMine
  <2>7. RequestsAreTheHolders'
    <3>1. \A d \in Clients : \A n \in InQueue(clientQueue'[d]) : n.type = "LIST" => n.by = d
      <4> SUFFICES ASSUME NEW d \in Clients, NEW n \in InQueue(clientQueue'[d]), n.type = "LIST"
                   PROVE  n.by = d
        OBVIOUS
      <4>1. CASE n \in InQueue(clientQueue[d]) BY <4>1 DEF IInv, RequestsAreTheHolders
      <4>2. CASE d = c /\ n = m BY <2>3, <4>2, BoundsAssumption
      <4> QED BY <2>4, <4>1, <4>2
    <3> QED BY <1>2, <3>1 DEF IInv, RequestsAreTheHolders
  <2>8. Quiet' BY <1>2, <2>1 DEF Quiet
  <2>9. Strangers'
    <3>1. \A d \in Clients : Waiting(d)' = Waiting(d) BY <1>2 DEF Waiting
    <3>2. \A d \in Clients : cpc[d] = "off" => ~HasQueue(d) BY DEF HasQueue
    <3> QED BY <1>2, <2>4, <3>1, <3>2 DEF IInv, Strangers
  <2>10. Replies'
    <3>1. \A d \in Clients : \A n \in InQueue(clientQueue'[d]) : n.type = "INIT" => n.id \in Ids
      BY <2>3, <2>4 DEF IInv, Replies
    <3> QED BY <1>2, <2>2, <3>1 DEF IInv, Replies
  <2> QED BY <1>2, <2>5, <2>6, <2>7, <2>8, <2>9, <2>10, Untouched DEF IInv
<1> QED BY <1>3, <1>4

LEMMA ServerSigintStep ==
  ASSUME IInv, ServerSigint
  PROVE  IInv'
<1>1. TypeOK BY DEF IInv
<1>2. /\ sigints < MaxSigints /\ sigints' = sigints + 1 /\ g_should_stop' = TRUE
      /\ UNCHANGED <<is_stopping, clients, n_clients, cpc, client_id, should_stop, unsent,
                     commands, serverQueue, clientQueue>>
  BY DEF ServerSigint, clientVars
<1>3. \/ UNCHANGED <<spc, outbox>>
      \/ spc = "recv" /\ spc' = "test" /\ UNCHANGED outbox
      \/ /\ spc \in {"stop", "reply"} /\ outbox # <<>>
         /\ outbox' = Tail(outbox) /\ UNCHANGED spc
  BY DEF ServerSigint, ServerBlocked
<1>4. /\ outbox' \in Seq([to : Clients \cup {Nobody}, msg : Messages])
      /\ InQueue(outbox') \subseteq InQueue(outbox)
  <2>1. outbox \in Seq([to : Clients \cup {Nobody}, msg : Messages]) BY <1>1 DEF TypeOK
  <2>2. outbox # <<>> => /\ Tail(outbox) \in Seq([to : Clients \cup {Nobody}, msg : Messages])
                         /\ InQueue(Tail(outbox)) \subseteq InQueue(outbox)
    BY <2>1, TailMembers
  <2> QED BY <1>3, <2>1, <2>2
<1>5. sigints' \in 0 .. MaxSigints BY <1>1, <1>2, BoundsAssumption DEF TypeOK
<1>6. TypeOK' BY <1>1, <1>2, <1>3, <1>4, <1>5 DEF TypeOK
<1>7. Quiet' BY <1>3 DEF IInv, Quiet
<1>8. Replies' BY <1>2, <1>4 DEF IInv, Replies
<1> QED BY <1>2, <1>6, <1>7, <1>8, Untouched DEF IInv

\* Some of the ids, and how many they are.
LEMMA IdCount ==
  ASSUME NEW S \in SUBSET Ids
  PROVE  IsFiniteSet(S) /\ Cardinality(S) \in 0 .. SERVER_MAX_CLIENTS
<1>1. IsFiniteSet(Ids) /\ Cardinality(Ids) = SERVER_MAX_CLIENTS
  BY BoundsAssumption, FS_Interval DEF Ids
<1>2. IsFiniteSet(S) /\ Cardinality(S) <= Cardinality(Ids) BY <1>1, FS_Subset
<1>3. Cardinality(S) \in Nat BY <1>2, FS_CardinalityType
<1> QED BY <1>1, <1>2, <1>3, BoundsAssumption

\* m is gone from the server's queue: it was the only INIT or STOP of its client, and an
\* INIT is read when nothing else is left
IsRead(m) ==
  /\ m \in InQueue(serverQueue) /\ m \in Messages
  /\ serverQueue' \in Seq(Messages) /\ Len(serverQueue') <= QueueSize
  /\ InQueue(serverQueue') \subseteq InQueue(serverQueue)
  /\ \A n \in InQueue(serverQueue) : n # m => n \in InQueue(serverQueue')
  /\ m.type \in {"INIT", "STOP"} =>
       \A n \in InQueue(serverQueue') : n.type = m.type => n.by # m.by
  /\ m.type = "INIT" => \A n \in InQueue(serverQueue) : n.type = "INIT"
  /\ OneEach'

\* What the server reads, and the handler it calls.
LEMMA MessageRead ==
  ASSUME IInv, ServerReceives
  PROVE  \E m \in InQueue(serverQueue) :
           /\ IsRead(m)
           /\ \/ m.type = "INIT" /\ server_handle_init(m)
              \/ m.type = "STOP" /\ server_handle_stop(m)
              \/ m.type = "LIST" /\ server_handle_list(m)
              \/ m.type = "2ALL" /\ server_handle_2all(m)
              \/ m.type = "2ONE" /\ server_handle_2one(m)
<1> DEFINE q == serverQueue
           k == Next_in(q)
           m == q[k]
<1>1. q \in Seq(Messages) /\ q # <<>> /\ Len(q) <= QueueSize BY DEF IInv, TypeOK, ServerReceives
<1>2. k \in DOMAIN q /\ \A l \in DOMAIN q : Rank(m.type) <= Rank(q[l].type)
  BY <1>1, NextInQueue
<1>3. m \in Messages /\ m \in InQueue(q) /\ \A l \in DOMAIN q : q[l] \in Messages
  BY <1>1, <1>2, LenProperties DEF InQueue
<1>4. serverQueue' = RemoveAt(q, k) BY DEF ServerReceives
<1>5. \/ m.type = "INIT" /\ server_handle_init(m)
      \/ m.type = "STOP" /\ server_handle_stop(m)
      \/ m.type = "LIST" /\ server_handle_list(m)
      \/ m.type = "2ALL" /\ server_handle_2all(m)
      \/ m.type = "2ONE" /\ server_handle_2one(m)
  <2>1. m.type \in MsgTypes BY <1>3 DEF Messages
  <2>2. CASE m.type = "INIT" BY <2>2 DEF ServerReceives
  <2>3. CASE m.type = "STOP" BY <2>3 DEF ServerReceives
  <2>4. CASE m.type = "LIST" BY <2>4 DEF ServerReceives
  <2>5. CASE m.type = "2ALL" BY <2>5 DEF ServerReceives
  <2>6. CASE m.type = "2ONE" BY <2>6 DEF ServerReceives
  <2> QED BY <2>1, <2>2, <2>3, <2>4, <2>5, <2>6 DEF MsgTypes
<1>6. m.type = "INIT" => \A n \in InQueue(q) : n.type = "INIT"
  <2> SUFFICES ASSUME m.type = "INIT", NEW l \in DOMAIN q PROVE q[l].type = "INIT"
    BY DEF InQueue
  <2>1. q[l].type \in MsgTypes BY <1>3 DEF Messages
  <2> QED BY <1>2, <2>1 DEF Rank, MsgTypes
<1> HIDE DEF k
<1> DEFINE r == RemoveAt(q, k)
<1>7. /\ r \in Seq(Messages) /\ Len(r) = Len(q) - 1
      /\ \A j \in 1 .. Len(q) - 1 : r[j] = q[IF j < k THEN j ELSE j + 1]
      /\ InQueue(r) \subseteq InQueue(q)
      /\ \A l \in DOMAIN q : l # k => q[l] \in InQueue(r)
  BY <1>1, <1>2, RemoveMembers
<1> HIDE DEF r
<1>8. Len(r) <= QueueSize BY <1>1, <1>7, BoundsAssumption, LenProperties
<1>9. \A n \in InQueue(q) : n # m => n \in InQueue(r) BY <1>7 DEF InQueue
<1> DEFINE At(j) == IF j < k THEN j ELSE j + 1
<1>10. DOMAIN r = 1 .. Len(q) - 1 /\ DOMAIN q = 1 .. Len(q) /\ Len(q) \in Nat
  BY <1>1, <1>7, LenProperties
<1>11. \A j \in DOMAIN r : At(j) \in DOMAIN q \ {k} /\ r[j] = q[At(j)]
  BY <1>2, <1>7, <1>10
<1>12. \A i, j \in DOMAIN r : i # j => At(i) # At(j) BY <1>2, <1>10
<1> HIDE DEF At
<1>13. m.type \in {"INIT", "STOP"} => \A n \in InQueue(r) : n.type = m.type => n.by # m.by
  BY <1>2, <1>11 DEF IInv, OneEach, InQueue
<1>14. OneEach'
  <2>1. \A i, j \in DOMAIN r : i # j /\ r[i].type = r[j].type /\ r[i].type \in {"INIT", "STOP"}
                             => r[i].by # r[j].by
    BY <1>11, <1>12 DEF IInv, OneEach
  <2> QED BY <1>4, <2>1 DEF OneEach, r
<1>15. serverQueue' = r BY <1>4 DEF r
<1> QED BY <1>3, <1>5, <1>6, <1>7, <1>8, <1>9, <1>13, <1>14, <1>15 DEF IsRead

\* What holds after any message but an INIT is read.
LEMMA InitsStay ==
  ASSUME NEW m, IsRead(m), m.type # "INIT"
  PROVE  \A c \in Clients : Waiting(c)' = Waiting(c)
BY DEF IsRead, Waiting

\* The first free id goes to the client that asks, which had none.
LEMMA InitHandled ==
  ASSUME IInv, NEW m, IsRead(m), m.type = "INIT", server_handle_init(m),
         spc' = "reply", outbox = <<>>,
         UNCHANGED <<g_should_stop, is_stopping, clientVars, clientQueue, sigints>>
  PROVE  IInv'
<1>1. TypeOK /\ UNCHANGED <<cpc, client_id, should_stop, unsent, commands>>
  BY DEF IInv, clientVars
<1> DEFINE c == m.by
<1>2. /\ c \in Clients /\ Waiting(c) /\ ~Waiting(c)'
      /\ \A d \in Clients \ {c} : Waiting(d)' = Waiting(d)
  BY DEF IInv, Origins, IsRead, Waiting
<1>3. /\ \A i \in Ids : clients[i] # c
      /\ cpc[c] \notin {"off", "init", "left"}
  BY <1>2 DEF IInv, Strangers
<1>4. \A n \in InQueue(serverQueue) : n.type = "INIT" BY DEF IsRead
<1>5. Quiet' /\ OneEach' BY DEF Quiet, IsRead
<1>6. Origins' BY DEF IInv, Origins, IsRead
<1>7. RequestsAreTheHolders' /\ LastWords'
  <2>1. \A n \in InQueue(serverQueue') : n.type = "INIT" BY <1>4 DEF IsRead
  <2> QED BY <2>1 DEF IInv, RequestsAreTheHolders, LastWords
<1>8. Askers' BY <1>1 DEF IInv, Askers
<1>9. \A i \in Used : clients[i] \in Clients /\ cpc[clients[i]] # "left"
  BY <1>1, <1>4 DEF IInv, IdIsMine, Used, TypeOK
<1>10. \A d \in Clients : HasQueue(d)' = HasQueue(d) BY <1>1 DEF HasQueue
<1>11. CASE Used = Ids
  <2>1. UNCHANGED <<clients, n_clients, outbox>> BY <1>11 DEF server_handle_init
  <2>2. TypeOK' BY <1>1, <2>1 DEF TypeOK, IsRead
  <2>3. Used' = Used BY <2>1 DEF Used
  <2>4. IdIsMine' BY <1>1, <1>9, <1>10, <2>1, <2>3 DEF IInv, IdIsMine
  <2>5. Strangers' BY <1>1, <1>2, <2>1 DEF IInv, Strangers
  <2> QED BY <1>5, <1>6, <1>7, <1>8, <2>1, <2>2, <2>4, <2>5, Untouched DEF IInv
<1>12. CASE Used # Ids
  <2> DEFINE i == Min(Ids \ Used)
  <2>1. i \in Ids \ Used
    <3> DEFINE P(x) == \A y \in Ids \ Used : x <= y
    <3>1. Ids \ Used # {} /\ Ids \ Used \in SUBSET Nat
      BY <1>12, BoundsAssumption DEF Used, Ids
    <3>2. \E x \in Ids \ Used : P(x) BY <3>1, Least
    <3>3. i = CHOOSE x \in Ids \ Used : P(x) BY DEF Min
    <3> HIDE DEF P
    <3> QED BY <3>2, <3>3
  <2>2. /\ clients' = [clients EXCEPT ![i] = c] /\ n_clients' = n_clients + 1
        /\ outbox' = <<To(c, Msg("INIT", Nobody, i))>>
    BY <1>12 DEF server_handle_init
  <2> HIDE DEF c, i
  <2>3. /\ clients' \in [Ids -> Clients \cup {Nobody}] /\ clients'[i] = c /\ clients[i] = Nobody
        /\ \A j \in Ids \ {i} : clients'[j] = clients[j]
    BY <1>1, <1>2, <2>1, <2>2 DEF TypeOK, Used
  <2>4. Used' = Used \cup {i} /\ i \notin Used
    BY <1>2, <2>1, <2>3, BoundsAssumption DEF Used
  <2>5. n_clients' = Cardinality(Used') /\ n_clients' \in 0 .. SERVER_MAX_CLIENTS
    <3>1. IsFiniteSet(Used) /\ Cardinality(Used) = n_clients BY IdCount DEF IInv, IdIsMine, Used
    <3>2. Cardinality(Used \cup {i}) = Cardinality(Used) + 1 BY <2>4, <3>1, FS_AddElement
    <3>3. Cardinality(Used \cup {i}) \in 0 .. SERVER_MAX_CLIENTS BY <2>1, IdCount DEF Used
    <3> QED BY <2>2, <2>4, <3>1, <3>2, <3>3
  <2>6. /\ outbox' \in Seq([to : Clients \cup {Nobody}, msg : Messages])
        /\ InQueue(outbox') = {To(c, Msg("INIT", Nobody, i))}
    <3>1. Msg("INIT", Nobody, i) \in Messages BY <2>1 DEF Msg, Messages, MsgTypes
    <3>2. To(c, Msg("INIT", Nobody, i)) \in [to : Clients \cup {Nobody}, msg : Messages]
      BY <1>2, <3>1 DEF To
    <3> QED BY <2>2, <3>2 DEF InQueue
  <2>7. TypeOK' BY <1>1, <2>3, <2>5, <2>6 DEF TypeOK, IsRead
  <2>8. IdIsMine'
    <3>1. ASSUME NEW d \in Clients, HasQueue(d)
          PROVE  /\ client_id[d] # -1 => clients'[client_id[d]] = d
                 /\ \A n \in InQueue(clientQueue[d]) : n.type = "INIT" => clients'[n.id] = d
      <4>1. \A j \in Ids : clients[j] = d => clients'[j] = d BY <2>3, BoundsAssumption
      <4>2. client_id[d] # -1 => client_id[d] \in Ids /\ clients[client_id[d]] = d
        BY <1>1, <3>1 DEF IInv, IdIsMine, TypeOK
      <4>3. \A n \in InQueue(clientQueue[d]) : n.type = "INIT" => n.id \in Ids /\ clients[n.id] = d
        BY <3>1 DEF IInv, IdIsMine, Replies
      <4> QED BY <4>1, <4>2, <4>3
    <3>2. \A j \in Used' : cpc[clients'[j]] # "left"
      BY <1>3, <1>9, <2>3, <2>4 DEF Used
    <3> QED BY <1>1, <1>10, <2>5, <3>1, <3>2 DEF IdIsMine
  <2>9. OneId'
    <3>1. \A j \in Used : j \in Ids /\ clients'[j] = clients[j] /\ clients'[j] # c
      BY <1>3, <2>3, <2>4 DEF Used
    <3> QED BY <2>3, <2>4, <3>1 DEF IInv, OneId
  <2>10. Strangers'
    <3>1. \A d \in Clients \ {c} : \A j \in Ids : clients'[j] = d => clients[j] = d
      BY <2>3
    <3> QED BY <1>1, <1>2, <1>3, <3>1 DEF IInv, Strangers
  <2>11. Replies' BY <1>1, <2>1, <2>3, <2>6 DEF IInv, Replies, To, Msg
  <2> QED BY <1>5, <1>6, <1>7, <1>8, <2>7, <2>8, <2>9, <2>10, <2>11 DEF IInv
<1> QED BY <1>11, <1>12

\* Its client's STOP frees an id, and no other client's.
LEMMA StopHandled ==
  ASSUME IInv, NEW m, IsRead(m), m.type = "STOP", server_handle_stop(m),
         spc' = "reply", outbox = <<>>,
         UNCHANGED <<g_should_stop, is_stopping, clientVars, clientQueue, sigints>>
  PROVE  IInv'
<1>1. TypeOK /\ UNCHANGED <<cpc, client_id, should_stop, unsent, commands, outbox>>
  BY DEF IInv, clientVars, server_handle_stop
<1> DEFINE c == m.by
           i == m.id
<1>2. i \in Ids /\ c \in Clients /\ clients[i] = c /\ cpc[c] = "left" /\ clients[i] # Nobody
  BY BoundsAssumption DEF IInv, Origins, LastWords, IsRead
<1>3. clients' = [clients EXCEPT ![i] = Nobody] /\ n_clients' = n_clients - 1
  BY <1>2 DEF server_handle_stop
<1>4. \A n \in InQueue(serverQueue') : n.type = "STOP" => n.by # c BY DEF IsRead
<1>5. InQueue(serverQueue') \subseteq InQueue(serverQueue) BY DEF IsRead
<1>6. \A d \in Clients : Waiting(d)' = Waiting(d) BY InitsStay
<1> HIDE DEF c, i
<1>7. /\ clients' \in [Ids -> Clients \cup {Nobody}] /\ clients'[i] = Nobody
      /\ \A j \in Ids \ {i} : clients'[j] = clients[j]
  BY <1>1, <1>2, <1>3 DEF TypeOK
<1>8. Used' = Used \ {i} /\ i \in Used BY <1>2, <1>7, BoundsAssumption DEF Used
<1>9. n_clients' = Cardinality(Used') /\ n_clients' \in 0 .. SERVER_MAX_CLIENTS
  <2>1. IsFiniteSet(Used) /\ Cardinality(Used) = n_clients BY IdCount DEF IInv, IdIsMine, Used
  <2>2. Cardinality(Used \ {i}) = Cardinality(Used) - 1 BY <1>8, <2>1, FS_RemoveElement
  <2>3. Cardinality(Used \ {i}) \in 0 .. SERVER_MAX_CLIENTS BY IdCount DEF Used
  <2> QED BY <1>3, <1>8, <2>1, <2>2, <2>3
<1>10. TypeOK' BY <1>1, <1>7, <1>9 DEF TypeOK, IsRead
<1>11. \A j \in Ids : clients'[j] \in Clients => j # i /\ clients'[j] = clients[j]
  BY <1>7, BoundsAssumption
<1>12. IdIsMine'
  <2>1. ASSUME NEW d \in Clients, HasQueue(d)
        PROVE  /\ client_id[d] # -1 => clients'[client_id[d]] = d
               /\ \A n \in InQueue(clientQueue[d]) : n.type = "INIT" => clients'[n.id] = d
    <3>1. d # c BY <1>2, <2>1 DEF HasQueue
    <3>2. \A j \in Ids : clients[j] = d => clients'[j] = d BY <1>2, <1>7, <3>1
    <3>3. client_id[d] # -1 => client_id[d] \in Ids /\ clients[client_id[d]] = d
      BY <1>1, <2>1 DEF IInv, IdIsMine, TypeOK
    <3>4. \A n \in InQueue(clientQueue[d]) : n.type = "INIT" => n.id \in Ids /\ clients[n.id] = d
      BY <2>1 DEF IInv, IdIsMine, Replies
    <3> QED BY <3>2, <3>3, <3>4
  <2>2. \A d \in Clients : HasQueue(d)' = HasQueue(d) BY <1>1 DEF HasQueue
  <2>3. ASSUME NEW j \in Used', cpc[clients'[j]] = "left"
        PROVE  \E n \in InQueue(serverQueue') : n.type = "STOP" /\ n.id = j /\ n.by = clients'[j]
    <3>1. j \in Used /\ j # i /\ clients'[j] = clients[j] BY <1>7, <1>8 DEF Used
    <3>2. PICK n \in InQueue(serverQueue) : n.type = "STOP" /\ n.id = j /\ n.by = clients[j]
      BY <2>3, <3>1 DEF IInv, IdIsMine
    <3>3. n # m BY <3>1, <3>2 DEF i
    <3> QED BY <3>1, <3>2, <3>3 DEF IsRead
  <2> QED BY <1>1, <1>9, <2>1, <2>2, <2>3 DEF IdIsMine
<1>13. RequestsAreTheHolders'
  <2>1. ASSUME NEW n \in InQueue(serverQueue'), n.type # "INIT", clients'[n.id] # Nobody
        PROVE  clients'[n.id] = n.by
    <3>1. n \in InQueue(serverQueue) /\ n.id \in Ids BY <1>5, <2>1 DEF IInv, Origins
    <3>2. n.id # i BY <1>7, <2>1
    <3>3. clients'[n.id] = clients[n.id] BY <1>7, <3>1, <3>2
    <3> QED BY <2>1, <3>1, <3>3 DEF IInv, RequestsAreTheHolders
  <2>2. UNCHANGED clientQueue OBVIOUS
  <2> QED BY <2>1, <2>2 DEF IInv, RequestsAreTheHolders
<1>14. Quiet' /\ OneEach' BY DEF Quiet, IsRead
<1>15. Origins' BY <1>5 DEF IInv, Origins
<1>16. OneId' BY <1>7, <1>8 DEF IInv, OneId, Used
<1>17. Strangers' BY <1>1, <1>6, <1>11 DEF IInv, Strangers
<1>18. LastWords'
  <2>1. ASSUME NEW n \in InQueue(serverQueue'), n.type = "STOP"
        PROVE  clients'[n.id] = n.by /\ cpc[n.by] = "left"
    <3>1. n \in InQueue(serverQueue) /\ n.id \in Ids BY <1>5, <2>1 DEF IInv, Origins
    <3>2. clients[n.id] = n.by /\ cpc[n.by] = "left" BY <2>1, <3>1 DEF IInv, LastWords
    <3>3. n.id # i BY <1>2, <1>4, <2>1, <3>2
    <3> QED BY <1>7, <3>1, <3>2, <3>3
  <2> QED BY <1>1, <2>1 DEF LastWords
<1>19. Askers' BY <1>1 DEF IInv, Askers
<1>20. Replies'
  <2>1. InQueue(outbox') = {} BY <1>1 DEF InQueue
  <2> QED BY <2>1 DEF IInv, Replies
<1> QED BY <1>10, <1>12, <1>13, <1>14, <1>15, <1>16, <1>17, <1>18, <1>19, <1>20 DEF IInv

\* What server_stop and the handlers send.
LEMMA ToTypes ==
  ASSUME NEW c \in Clients \cup {Nobody}, NEW type \in MsgTypes,
         NEW by \in Clients \cup {Nobody}, NEW id \in Ids
  PROVE  /\ To(c, Msg(type, by, id)) \in [to : Clients \cup {Nobody}, msg : Messages]
         /\ To(c, Msg(type, by, id)).to = c /\ To(c, Msg(type, by, id)).msg.type = type
         /\ To(c, Msg(type, by, id)).msg.by = by
<1>1. Msg(type, by, id) \in Messages BY DEF Msg, Messages
<1>2. Msg(type, by, id).type = type /\ Msg(type, by, id).by = by BY DEF Msg
<1> QED BY <1>1, <1>2 DEF To

\* A request leaves the table as it is; its answers go to who asked, or to everybody.
LEMMA RequestHandled ==
  ASSUME IInv, NEW m, IsRead(m),
         \/ m.type = "LIST" /\ server_handle_list(m)
         \/ m.type = "2ALL" /\ server_handle_2all(m)
         \/ m.type = "2ONE" /\ server_handle_2one(m),
         spc' = "reply",
         UNCHANGED <<g_should_stop, is_stopping, clientVars, clientQueue, sigints>>
  PROVE  IInv'
<1>1. TypeOK /\ UNCHANGED <<cpc, client_id, should_stop, unsent, commands>>
  BY DEF IInv, clientVars
<1>2. m.type \notin {"INIT", "STOP"} /\ UNCHANGED <<clients, n_clients>>
  BY DEF server_handle_list, server_handle_2all, server_handle_2one
<1>3. /\ m.id \in Ids /\ m.by \in Clients /\ clients[m.id] \in {Nobody, m.by}
      /\ m.type = "2ONE" => m.to \in Ids
  BY <1>2 DEF IInv, Origins, RequestsAreTheHolders, IsRead
<1> DEFINE Outgoing == [to : Clients \cup {Nobody}, msg : Messages]
<1>4. /\ outbox' \in Seq(Outgoing)
      /\ \A o \in InQueue(outbox') :
           o.msg.type # "INIT" /\ (o.msg.type = "LIST" => o.to \in {Nobody, o.msg.by})
  <2>1. /\ \A k \in Places : IdAt(k) \in Ids
        /\ \A i \in Ids : clients[i] \in Clients \cup {Nobody}
    BY <1>1, BoundsAssumption DEF Places, IdAt, Ids, TypeOK
  <2>2. CASE m.type = "LIST" /\ server_handle_list(m)
    <3> DEFINE F(k) == To(IF IdAt(k) \in Used THEN clients[m.id] ELSE Nobody, Msg("LIST", m.by, IdAt(k)))
    <3>1. outbox' = [k \in Places |-> F(k)] BY <2>2 DEF server_handle_list
    <3>2. ASSUME NEW k \in Places
          PROVE  /\ F(k) \in Outgoing /\ F(k).msg.type = "LIST" /\ F(k).msg.by = m.by
                 /\ F(k).to \in {Nobody, m.by}
      <4> DEFINE c == IF IdAt(k) \in Used THEN clients[m.id] ELSE Nobody
      <4>1. c \in Clients \cup {Nobody} /\ c \in {Nobody, m.by} /\ IdAt(k) \in Ids BY <1>3, <2>1
      <4>2. "LIST" \in MsgTypes BY DEF MsgTypes
      <4> HIDE DEF c
      <4>3. /\ To(c, Msg("LIST", m.by, IdAt(k))) \in Outgoing
            /\ To(c, Msg("LIST", m.by, IdAt(k))).to = c
            /\ To(c, Msg("LIST", m.by, IdAt(k))).msg.type = "LIST"
            /\ To(c, Msg("LIST", m.by, IdAt(k))).msg.by = m.by
        <5>1. m.by \in Clients \cup {Nobody} BY <1>3
        <5> QED BY <4>1, <4>2, <5>1, ToTypes
      <4>4. F(k) = To(c, Msg("LIST", m.by, IdAt(k))) BY DEF c
      <4> HIDE DEF F
      <4> QED BY <4>1, <4>3, <4>4
    <3> HIDE DEF F, Outgoing
    <3>3. outbox' \in Seq(Outgoing) BY <3>1, <3>2, BoundsAssumption, IsASeq DEF Places
    <3>4. \A o \in InQueue(outbox') : \E k \in Places : o = F(k) BY <3>1 DEF InQueue
    <3> QED BY <3>2, <3>3, <3>4
  <2>3. CASE m.type = "2ALL" /\ server_handle_2all(m)
    <3> DEFINE F(k) == To(clients[IdAt(k)], Msg("2ONE", m.by, m.id))
    <3>1. outbox' = [k \in Places |-> F(k)] BY <2>3 DEF server_handle_2all
    <3>2. ASSUME NEW k \in Places PROVE F(k) \in Outgoing /\ F(k).msg.type = "2ONE"
      <4>1. clients[IdAt(k)] \in Clients \cup {Nobody} /\ "2ONE" \in MsgTypes BY <2>1 DEF MsgTypes
      <4> QED BY <1>3, <4>1, ToTypes
    <3> HIDE DEF F, Outgoing
    <3>3. outbox' \in Seq(Outgoing) BY <3>1, <3>2, BoundsAssumption, IsASeq DEF Places
    <3>4. \A o \in InQueue(outbox') : \E k \in Places : o = F(k) BY <3>1 DEF InQueue
    <3> QED BY <3>2, <3>3, <3>4
  <2>4. CASE m.type = "2ONE" /\ server_handle_2one(m)
    <3> DEFINE o == To(clients[m.to], Msg("2ONE", m.by, m.id))
    <3>1. outbox' = <<o>> BY <2>4 DEF server_handle_2one
    <3>2. o \in Outgoing /\ o.msg.type = "2ONE"
      <4>1. clients[m.to] \in Clients \cup {Nobody} /\ "2ONE" \in MsgTypes
        BY <1>3, <2>1, <2>4 DEF MsgTypes
      <4> QED BY <1>3, <4>1, ToTypes
    <3> HIDE DEF o, Outgoing
    <3>3. outbox' \in Seq(Outgoing) /\ InQueue(outbox') = {o} BY <3>1, <3>2 DEF InQueue
    <3> QED BY <3>2, <3>3
  <2> QED BY <2>2, <2>3, <2>4
<1>5. TypeOK' BY <1>1, <1>2, <1>4 DEF TypeOK, IsRead
<1>6. InQueue(serverQueue') \subseteq InQueue(serverQueue)
      /\ \A n \in InQueue(serverQueue) : n.type = "STOP" => n \in InQueue(serverQueue')
  BY <1>2 DEF IsRead
<1>7. IdIsMine'
  <2>1. Used' = Used /\ \A d \in Clients : HasQueue(d)' = HasQueue(d) BY <1>1, <1>2 DEF Used, HasQueue
  <2> QED BY <1>1, <1>2, <1>6, <2>1 DEF IInv, IdIsMine
<1>8. RequestsAreTheHolders' BY <1>2, <1>6 DEF IInv, RequestsAreTheHolders
<1>9. Quiet' /\ OneEach' BY DEF Quiet, IsRead
<1>10. Origins' BY <1>6 DEF IInv, Origins
<1>11. OneId' BY <1>2, Untouched
<1>12. Strangers'
  <2>1. \A d \in Clients : Waiting(d)' = Waiting(d) BY <1>2, InitsStay
  <2> QED BY <1>1, <1>2, <2>1 DEF IInv, Strangers
<1>13. LastWords' BY <1>1, <1>2, <1>6 DEF IInv, LastWords
<1>14. Askers' BY <1>1, Untouched
<1>15. Replies' BY <1>4 DEF IInv, Replies
<1> QED BY <1>5, <1>7, <1>8, <1>9, <1>10, <1>11, <1>12, <1>13, <1>14, <1>15 DEF IInv

LEMMA ReceiveStep ==
  ASSUME IInv, ServerReceives
  PROVE  IInv'
<1>1. outbox = <<>> BY DEF IInv, Quiet, ServerReceives
<1>2. spc' = "reply" /\ UNCHANGED <<g_should_stop, is_stopping, clientVars, clientQueue, sigints>>
  BY DEF ServerReceives
<1>3. PICK m \in InQueue(serverQueue) :
        /\ IsRead(m)
        /\ \/ m.type = "INIT" /\ server_handle_init(m)
           \/ m.type = "STOP" /\ server_handle_stop(m)
           \/ m.type = "LIST" /\ server_handle_list(m)
           \/ m.type = "2ALL" /\ server_handle_2all(m)
           \/ m.type = "2ONE" /\ server_handle_2one(m)
  BY MessageRead
<1>4. CASE m.type = "INIT" /\ server_handle_init(m) BY <1>1, <1>2, <1>3, <1>4, InitHandled
<1>5. CASE m.type = "STOP" /\ server_handle_stop(m) BY <1>1, <1>2, <1>3, <1>5, StopHandled
<1>6. CASE \/ m.type = "LIST" /\ server_handle_list(m)
           \/ m.type = "2ALL" /\ server_handle_2all(m)
           \/ m.type = "2ONE" /\ server_handle_2one(m)
  BY <1>2, <1>3, <1>6, RequestHandled
<1> QED BY <1>3, <1>4, <1>5, <1>6

-----------------------------------------------------------------------------
LEMMA Initially == Init => IInv
<1> SUFFICES ASSUME Init PROVE IInv OBVIOUS
<1>1. InQueue(serverQueue) = {} /\ InQueue(outbox) = {}
      /\ \A c \in Clients : InQueue(clientQueue[c]) = {}
  BY DEF Init, InQueue
<1>2. Used = {} BY DEF Init, Used
<1>3. Len(<<>>) = 0 /\ (\A S : <<>> \in Seq(S)) OBVIOUS
<1>4. TypeOK
  <2>1. \A c \in Clients : clientQueue[c] = <<>> BY DEF Init
  <2>2. clientQueue \in [Clients -> Seq(Messages)] BY <1>3 DEF Init
  <2>3. unsent \in [Clients -> Messages \cup {NoMsg}] BY DEF Init
  <2>4. cpc \in [Clients -> {"off", "init", "loop", "send", "recv", "leave", "left", "vanished"}]
        /\ client_id \in [Clients -> Ids \cup {-1}] /\ should_stop \in [Clients -> BOOLEAN]
    BY DEF Init
  <2>8. commands \in [Clients -> 0 .. MaxCommands] BY BoundsAssumption DEF Init
  <2>5. clients \in [Ids -> Clients \cup {Nobody}] BY DEF Init
  <2>6. serverQueue \in Seq(Messages) /\ Len(serverQueue) <= QueueSize
        /\ outbox \in Seq([to : Clients \cup {Nobody}, msg : Messages])
    BY <1>3, BoundsAssumption DEF Init
  <2>7. \A c \in Clients : Len(clientQueue[c]) <= QueueSize BY <1>3, <2>1, BoundsAssumption
  <2>9. /\ spc \in {"test", "check", "recv", "stop", "reply", "gone"} /\ g_should_stop \in BOOLEAN
        /\ is_stopping \in BOOLEAN /\ n_clients \in 0 .. SERVER_MAX_CLIENTS /\ sigints \in 0 .. MaxSigints
    <3>1. spc = "test" /\ g_should_stop = FALSE /\ is_stopping = FALSE /\ n_clients = 0 /\ sigints = 0
      BY DEF Init
    <3>2. 0 \in 0 .. SERVER_MAX_CLIENTS /\ 0 \in 0 .. MaxSigints BY BoundsAssumption
    <3> QED BY <3>1, <3>2
  <2> QED BY <2>2, <2>3, <2>4, <2>5, <2>6, <2>7, <2>8, <2>9 DEF TypeOK
<1>5. IdIsMine
  <2>1. Cardinality(Used) = 0 BY <1>2, FS_EmptySet
  <2> QED BY <1>1, <1>2, <2>1 DEF Init, IdIsMine
<1>6. RequestsAreTheHolders /\ Origins /\ LastWords
  BY <1>1 DEF RequestsAreTheHolders, Origins, LastWords
<1>7. Quiet /\ OneEach /\ OneId /\ Askers BY <1>2 DEF Init, Quiet, OneEach, OneId, Askers
<1>8. Strangers BY <1>1, BoundsAssumption DEF Init, Strangers, Waiting
<1>9. Replies BY <1>1 DEF Replies
<1> QED BY <1>4, <1>5, <1>6, <1>7, <1>8, <1>9 DEF IInv

LEMMA Step == IInv /\ [Next]_vars => IInv'
<1> SUFFICES ASSUME IInv, [Next]_vars PROVE IInv' OBVIOUS
<1>1. CASE ServerTests BY <1>1, ServerTestsStep
<1>2. CASE server_stop BY <1>2, StopStep
<1>3. CASE ServerReceives BY <1>3, ReceiveStep
<1>4. CASE ServerSends BY <1>4, SendStep
<1>5. CASE ServerSigint BY <1>5, ServerSigintStep
<1>6. CASE \E c \in Clients : Start(c) \/ ClientStep(c) \/ ClientSigint(c)
  <2> SUFFICES ASSUME NEW c \in Clients, Start(c) \/ ClientStep(c) \/ ClientSigint(c)
               PROVE  IInv'
    BY <1>6
  <2>1. CASE Start(c) BY <2>1, StartStep
  <2>2. CASE client_send_init(c) BY <2>2, SendInitStep
  <2>3. CASE Looks(c) BY <2>3, LooksStep
  <2>4. CASE Sends(c) BY <2>4, SendsStep
  <2>5. CASE Receives(c) BY <2>5, ReceivesStep
  <2>6. CASE Leaves(c) BY <2>6, LeavesStep
  <2>7. CASE ClientSigint(c) BY <2>7, ClientSigintStep
  <2> QED BY <2>1, <2>2, <2>3, <2>4, <2>5, <2>6, <2>7 DEF ClientStep
<1>7. CASE UNCHANGED vars
  <2>1. UNCHANGED <<spc, g_should_stop, is_stopping, clients, n_clients, outbox, cpc, client_id,
                    should_stop, unsent, commands, serverQueue, clientQueue, sigints>>
    BY <1>7 DEF vars, serverVars, clientVars
  <2>2. TypeOK' BY <2>1 DEF IInv, TypeOK
  <2> QED BY <2>1, <2>2, Untouched DEF IInv
<1> QED BY <1>1, <1>2, <1>3, <1>4, <1>5, <1>6, <1>7 DEF Next, ServerStep

\* The invariant of the server and its clients.
THEOREM Invariant == Spec => []IInv
BY Initially, Step, PTL DEF Spec

\* Types, and queues within their limit.
THEOREM TypeCorrect == Spec => []TypeOK
<1>1. IInv => TypeOK BY DEF IInv
<1> QED BY <1>1, Invariant, PTL

\* An id has one holder: a client that knows its id, or will read it, holds the slot,
\* n_clients counts the slots, and who told the server it leaves will be forgotten.
THEOREM IdsAreKept == Spec => []IdIsMine
<1>1. IInv => IdIsMine BY DEF IInv
<1> QED BY <1>1, Invariant, PTL

\* A request whose id is in use is from the client that holds it, and a list goes to the
\* client that asked for it: the order in which msgrcv takes messages is what keeps it so.
THEOREM RequestsSpeakForTheirSenders == Spec => []RequestsAreTheHolders
<1>1. IInv => RequestsAreTheHolders BY DEF IInv
<1> QED BY <1>1, Invariant, PTL
=============================================================================
