------------------------------- MODULE ChatMq -------------------------------
(***************************************************************************)
(* The chat of cw06/.../zad2: the server and the clients of zad1 (Chat)    *)
(* over POSIX message queues (server.c, client.c).                         *)
(*                                                                         *)
(* A POSIX queue lives as long as somebody has it open, not as long as its *)
(* name.  The server keeps the queue of a client open until it reads the   *)
(* client's STOP, and a client keeps that of the server: a message to      *)
(* somebody who is gone is stored, and once the queue is full the sender   *)
(* waits for ever.  The queue of a server that was killed keeps its name,  *)
(* and the next server opens it with all that is in it.                    *)
(*                                                                         *)
(* mq_receive takes the oldest message of the highest priority, and the    *)
(* type is the priority.  Bodies and the log are left out; "by" is the     *)
(* client a message comes from (in the program, its queue's uid in an INIT *)
(* and nothing in the others).                                             *)
(***************************************************************************)
EXTENDS Integers, SequencesExt

CONSTANTS
  Clients,
  Nobody,        \* -1 in clients[]
  SERVER_MAX_CLIENTS,
  mq_maxmsg,     \* messages a queue holds before mq_send blocks
  Commands,      \* what users type besides STOP: "LIST", "2ALL", "2ONE"
  MaxCommands,   \* bound: commands of one user
  MaxSigints,    \* bound: SIGINTs sent to the server and the clients
  MaxKills       \* bound: times the server is killed

ASSUME MqAssumption ==
  /\ SERVER_MAX_CLIENTS \in Nat \ {0} /\ mq_maxmsg \in Nat \ {0}
  /\ MaxCommands \in Nat /\ MaxSigints \in Nat /\ MaxKills \in Nat
  /\ Nobody \notin Clients
  /\ Commands \subseteq {"LIST", "2ALL", "2ONE"}

Ids == 0 .. SERVER_MAX_CLIENTS - 1

VARIABLES
  spc,            \* the server: "test", "check", "recv", "stop", "reply", "gone" after it
                  \* unlinked its queue, "down" after it was killed
  g_should_stop, is_stopping, clients, n_clients,
  outbox,         \* what server_stop or the handler has still to send
  serverQueue,
  cpc,            \* each client: "off", "init", "loop", "send", "recv", "leave", and after
                  \* it "left" when it told the server, "vanished" when it did not
  client_id, should_stop,
  unsent,         \* the command it is sending
  ready,          \* the poll that saw the command saw a message too
  commands,       \* how many its user has typed
  clientQueue,
  sigints, kills

serverVars == <<spc, g_should_stop, is_stopping, clients, n_clients, outbox>>
clientVars == <<cpc, client_id, should_stop, unsent, ready, commands>>
vars == <<serverVars, clientVars, serverQueue, clientQueue, sigints, kills>>

Msg(type, by, id) == [type |-> type, by |-> by, id |-> id, to |-> -1]
NoMsg == Msg("none", Nobody, -1)

Init ==
  /\ spc = "test" /\ g_should_stop = FALSE /\ is_stopping = FALSE
  /\ clients = [i \in Ids |-> Nobody] /\ n_clients = 0
  /\ outbox = <<>> /\ serverQueue = <<>>
  /\ cpc = [c \in Clients |-> "off"]
  /\ client_id = [c \in Clients |-> -1]
  /\ should_stop = [c \in Clients |-> FALSE]
  /\ unsent = [c \in Clients |-> NoMsg]
  /\ ready = [c \in Clients |-> FALSE]
  /\ commands = [c \in Clients |-> 0]
  /\ clientQueue = [c \in Clients |-> <<>>]
  /\ sigints = 0 /\ kills = 0

-----------------------------------------------------------------------------
(* The queues.                                                             *)

\* enum message_type_t, the priority each message is sent with
Priority(type) ==
  CASE type = "INIT" -> 0 [] type = "2ONE" -> 1 [] type = "2ALL" -> 2
    [] type = "LIST" -> 3 [] type = "STOP" -> 4

Full(q) == Len(q) >= mq_maxmsg

\* where mq_receive finds its message
Next_in(q) ==
  CHOOSE k \in DOMAIN q :
    \A l \in DOMAIN q : Priority(q[k].type) > Priority(q[l].type)
                        \/ (Priority(q[k].type) = Priority(q[l].type) /\ k <= l)

\* the client's queue has its name
Linked(c) == cpc[c] \notin {"off", "left", "vanished"}

Used == {i \in Ids : clients[i] # Nobody}

\* the queues once the server has the descriptors "open" left: one that has no name
\* and that nobody has open is gone
Kept(open) == [c \in Clients |-> IF Linked(c) \/ c \in open THEN clientQueue[c] ELSE <<>>]

-----------------------------------------------------------------------------
(* The server.                                                             *)

\* where in a loop over clients[] each id is; nothing goes to Nobody, the ids not in use
Places == 1 .. SERVER_MAX_CLIENTS
IdAt(k) == k - 1

To(c, m) == [to |-> c, msg |-> m]

\* while (!g_should_stop || server->n_clients > 0), and server_delete_queue
ServerTests ==
  /\ spc = "test"
  /\ spc' = IF g_should_stop /\ n_clients = 0 THEN "gone" ELSE "check"
  /\ clientQueue' = IF spc' = "gone" THEN Kept({}) ELSE clientQueue
  /\ UNCHANGED <<g_should_stop, is_stopping, clients, n_clients, outbox, clientVars,
                 serverQueue, sigints, kills>>

server_stop ==
  /\ spc = "check"
  /\ IF g_should_stop /\ ~is_stopping
     THEN /\ spc' = "stop" /\ is_stopping' = TRUE
          /\ outbox' = [k \in Places |-> To(clients[IdAt(k)], Msg("STOP", Nobody, IdAt(k)))]
     ELSE spc' = "recv" /\ UNCHANGED <<is_stopping, outbox>>
  /\ UNCHANGED <<g_should_stop, clients, n_clients, clientVars, serverQueue, clientQueue,
                 sigints, kills>>

\* mutant: the client is counted before its queue is opened
server_handle_init_Early(m) ==
  /\ IF Used # Ids
     THEN LET i == Min(Ids \ Used) IN
          /\ n_clients' = n_clients + 1
          /\ IF Linked(m.by) THEN /\ clients' = [clients EXCEPT ![i] = m.by]
                                  /\ outbox' = <<To(m.by, Msg("INIT", Nobody, i))>>
                             ELSE UNCHANGED <<clients, outbox>>
     ELSE UNCHANGED <<clients, n_clients, outbox>>
  /\ UNCHANGED clientQueue

\* a full array, or a client that has unlinked its queue by now: nothing happens
server_handle_init(m) ==
  /\ IF Used # Ids /\ Linked(m.by)
     THEN LET i == Min(Ids \ Used) IN
          /\ clients' = [clients EXCEPT ![i] = m.by]
          /\ n_clients' = n_clients + 1
          /\ outbox' = <<To(m.by, Msg("INIT", Nobody, i))>>
     ELSE UNCHANGED <<clients, n_clients, outbox>>
  /\ UNCHANGED clientQueue

server_handle_stop(m) ==
  /\ IF clients[m.id] # Nobody
     THEN /\ clients' = [clients EXCEPT ![m.id] = Nobody]
          /\ n_clients' = n_clients - 1
          /\ clientQueue' = Kept({clients[i] : i \in Used \ {m.id}})
     ELSE UNCHANGED <<clients, n_clients, clientQueue>>
  /\ UNCHANGED outbox

server_handle_list(m) ==
  /\ outbox' = [k \in Places |->
                 To(IF IdAt(k) \in Used THEN clients[m.id] ELSE Nobody, Msg("LIST", m.by, IdAt(k)))]
  /\ UNCHANGED <<clients, n_clients, clientQueue>>

server_handle_2all(m) ==
  /\ outbox' = [k \in Places |-> To(clients[IdAt(k)], Msg("2ONE", m.by, m.id))]
  /\ UNCHANGED <<clients, n_clients, clientQueue>>

server_handle_2one(m) ==
  /\ outbox' = <<To(clients[m.to], Msg("2ONE", m.by, m.id))>>
  /\ UNCHANGED <<clients, n_clients, clientQueue>>

ServerReceives ==
  /\ spc = "recv" /\ serverQueue # <<>>
  /\ LET k == Next_in(serverQueue)
         m == serverQueue[k]
     IN  /\ serverQueue' = RemoveAt(serverQueue, k)
         /\ CASE m.type = "INIT" -> server_handle_init(m)
              [] m.type = "STOP" -> server_handle_stop(m)
              [] m.type = "LIST" -> server_handle_list(m)
              [] m.type = "2ALL" -> server_handle_2all(m)
              [] m.type = "2ONE" -> server_handle_2one(m)
  /\ spc' = IF outbox' = <<>> THEN "test" ELSE "reply"
  /\ UNCHANGED <<g_should_stop, is_stopping, clientVars, sigints, kills>>

\* the call returned: on to the next message, or out of server_stop or the handler
Sent ==
  /\ outbox' = Tail(outbox)
  /\ spc' = IF Len(outbox) > 1 THEN spc ELSE IF spc = "stop" THEN "recv" ELSE "test"

\* one mq_send of server_stop or of a handler; to Nobody it is skipped, or fails on the
\* descriptor -1, and the error is passed over
ServerSends ==
  /\ spc \in {"stop", "reply"}
  /\ LET c == Head(outbox).to IN
     /\ IF c # Nobody
        THEN ~Full(clientQueue[c])
             /\ clientQueue' = [clientQueue EXCEPT ![c] = Append(@, Head(outbox).msg)]
        ELSE UNCHANGED clientQueue
     /\ Sent
  /\ UNCHANGED <<g_should_stop, is_stopping, clients, n_clients, clientVars, serverQueue,
                 sigints, kills>>

ServerBlocked ==
  spc \in {"stop", "reply"}
  /\ Head(outbox).to # Nobody /\ Full(clientQueue[Head(outbox).to])

\* SIGINT interrupts mq_receive and a blocked mq_send, unless it came just before
ServerSigint ==
  /\ spc \notin {"gone", "down"} /\ sigints < MaxSigints /\ sigints' = sigints + 1
  /\ g_should_stop' = TRUE
  /\ \/ UNCHANGED <<spc, outbox>>
     \/ spc = "recv" /\ spc' = "test" /\ UNCHANGED outbox
     \/ ServerBlocked /\ Sent
  /\ UNCHANGED <<is_stopping, clients, n_clients, clientVars, serverQueue, clientQueue, kills>>

\* SIGKILL closes the descriptors but unlinks nothing; server_init starts from nothing
ServerKilled ==
  /\ spc \notin {"gone", "down"} /\ kills < MaxKills /\ kills' = kills + 1
  /\ spc' = "down" /\ g_should_stop' = FALSE /\ is_stopping' = FALSE
  /\ clients' = [i \in Ids |-> Nobody] /\ n_clients' = 0 /\ outbox' = <<>>
  /\ clientQueue' = Kept({})
  /\ UNCHANGED <<clientVars, serverQueue, sigints>>

\* server_create_queue: O_CREAT without O_EXCL opens the queue that is still there
ServerRestarts ==
  /\ spc = "down" /\ spc' = "test"
  /\ UNCHANGED <<g_should_stop, is_stopping, clients, n_clients, outbox, clientVars,
                 serverQueue, clientQueue, sigints, kills>>

ServerStep == ServerTests \/ server_stop \/ ServerReceives \/ ServerSends

-----------------------------------------------------------------------------
(* The clients.                                                            *)

Goto(c, where) == cpc' = [cpc EXCEPT ![c] = where]

\* mq_send to the server: nobody may be there to read it
Post(m) == ~Full(serverQueue) /\ serverQueue' = Append(serverQueue, m)

\* mq_close and mq_unlink of its own queue
client_delete_queue(c) ==
  clientQueue' = IF \E i \in Ids : clients[i] = c THEN clientQueue
                                                  ELSE [clientQueue EXCEPT ![c] = <<>>]

\* client_create_queue, client_open_server
Start(c) ==
  /\ cpc[c] = "off"
  /\ Goto(c, IF spc # "gone" THEN "init" ELSE "vanished")
  /\ UNCHANGED <<serverVars, client_id, should_stop, unsent, ready, commands, serverQueue,
                 clientQueue, sigints, kills>>

client_send_init(c) ==
  /\ cpc[c] = "init"
  /\ Post(Msg("INIT", c, -1))
  /\ Goto(c, "loop")
  /\ UNCHANGED <<serverVars, client_id, should_stop, unsent, ready, commands, clientQueue,
                 sigints, kills>>

Polled(c) == clientQueue[c] # <<>>

\* mutant: once it has its id the client waits for its user before it looks at its queue
Looks_UserFirst(c) ==
  /\ cpc[c] = "loop"
  /\ \/ should_stop[c] /\ Goto(c, "leave")
     \/ ~should_stop[c] /\ Polled(c) /\ client_id[c] = -1 /\ Goto(c, "recv")
  /\ UNCHANGED <<serverVars, client_id, should_stop, unsent, ready, commands, serverQueue,
                 clientQueue, sigints, kills>>

\* the loop test, and a poll that sees nothing typed
Looks(c) ==
  /\ cpc[c] = "loop"
  /\ \/ should_stop[c] /\ Goto(c, "leave")
     \/ ~should_stop[c] /\ Polled(c) /\ Goto(c, "recv")
  /\ UNCHANGED <<serverVars, client_id, should_stop, unsent, ready, commands, serverQueue,
                 clientQueue, sigints, kills>>

\* what the user of c can ask for
Requests(c) ==
  {Msg(type, c, client_id[c]) : type \in Commands \ {"2ONE"}}
    \cup {[Msg("2ONE", c, client_id[c]) EXCEPT !.to = i] : i \in IF "2ONE" \in Commands THEN Ids ELSE {}}

\* the loop test, and a poll that sees STOP, or a command; one without an id is refused
Types(c) ==
  /\ cpc[c] = "loop" /\ ~should_stop[c]
  /\ \/ /\ should_stop' = [should_stop EXCEPT ![c] = TRUE]
        /\ Goto(c, IF Polled(c) THEN "recv" ELSE "loop")
        /\ UNCHANGED <<unsent, ready, commands>>
     \/ /\ client_id[c] # -1 /\ commands[c] < MaxCommands
        /\ Goto(c, "send")
        /\ \E m \in Requests(c) : unsent' = [unsent EXCEPT ![c] = m]
        /\ ready' = [ready EXCEPT ![c] = Polled(c)]
        /\ commands' = [commands EXCEPT ![c] = @ + 1]
        /\ UNCHANGED should_stop
  /\ UNCHANGED <<serverVars, client_id, serverQueue, clientQueue, sigints, kills>>

\* on to the second half of the round
Turns(c) ==
  /\ Goto(c, IF ready[c] THEN "recv" ELSE "loop")
  /\ ready' = [ready EXCEPT ![c] = FALSE]
  /\ unsent' = [unsent EXCEPT ![c] = NoMsg]

\* client_send_list, client_send_2all, client_send_2one
Sends(c) ==
  /\ cpc[c] = "send"
  /\ Post(unsent[c]) /\ Turns(c)
  /\ UNCHANGED <<serverVars, client_id, should_stop, commands, clientQueue, sigints, kills>>

\* mq_receive and the handler: the poll saw a message, and nobody else takes one
Receives(c) ==
  /\ cpc[c] = "recv"
  /\ Goto(c, "loop")
  /\ LET k == Next_in(clientQueue[c])
         m == clientQueue[c][k]
     IN  /\ clientQueue' = [clientQueue EXCEPT ![c] = RemoveAt(@, k)]
         /\ client_id' = IF m.type = "INIT" THEN [client_id EXCEPT ![c] = m.id] ELSE client_id
         /\ should_stop' = IF m.type = "STOP" THEN [should_stop EXCEPT ![c] = TRUE]
                                              ELSE should_stop
  /\ UNCHANGED <<serverVars, unsent, ready, commands, serverQueue, sigints, kills>>

\* mutant: the STOP is not sent
Leaves_Silent(c) ==
  /\ cpc[c] = "leave"
  /\ Goto(c, IF client_id[c] = -1 THEN "vanished" ELSE "left")
  /\ client_delete_queue(c)
  /\ UNCHANGED <<serverVars, client_id, should_stop, unsent, ready, commands, serverQueue,
                 sigints, kills>>

\* client_send_stop and client_delete_queue: without an id the server is not told
Leaves(c) ==
  /\ cpc[c] = "leave"
  /\ IF client_id[c] = -1
     THEN Goto(c, "vanished") /\ UNCHANGED <<serverQueue, client_id>>
     ELSE /\ Post(Msg("STOP", c, client_id[c]))
          /\ Goto(c, "left") /\ client_id' = [client_id EXCEPT ![c] = -1]
  /\ client_delete_queue(c)
  /\ UNCHANGED <<serverVars, should_stop, unsent, ready, commands, sigints, kills>>

ClientBlocked(c) ==
  /\ Full(serverQueue)
  /\ cpc[c] \in {"init", "send"} \/ (cpc[c] = "leave" /\ client_id[c] # -1)

\* a SIGINT may interrupt a blocked mq_send: the message is given up
ClientSigint(c) ==
  /\ Linked(c) /\ sigints < MaxSigints /\ sigints' = sigints + 1
  /\ should_stop' = [should_stop EXCEPT ![c] = TRUE]
  /\ \/ UNCHANGED <<cpc, unsent, ready, clientQueue>>
     \/ /\ ClientBlocked(c)
        /\ \/ cpc[c] = "init" /\ Goto(c, "leave") /\ UNCHANGED <<unsent, ready, clientQueue>>
           \/ cpc[c] = "send" /\ Turns(c) /\ UNCHANGED clientQueue
           \/ /\ cpc[c] = "leave" /\ Goto(c, "vanished") /\ client_delete_queue(c)
              /\ UNCHANGED <<unsent, ready>>
  /\ UNCHANGED <<serverVars, client_id, commands, serverQueue, kills>>

ClientStep(c) == client_send_init(c) \/ Looks(c) \/ Sends(c) \/ Receives(c) \/ Leaves(c)

-----------------------------------------------------------------------------
Next ==
  \/ ServerStep \/ ServerSigint \/ ServerKilled \/ ServerRestarts
  \/ \E c \in Clients : Start(c) \/ ClientStep(c) \/ Types(c) \/ ClientSigint(c)

Spec == Init /\ [][Next]_vars

(* The scheduler runs every process that can go on.  No user has to type,  *)
(* and nobody has to start a client, to send a signal or to start a server *)
(* again.                                                                  *)
FairSpec ==
  /\ Spec
  /\ WF_vars(ServerStep)
  /\ \A c \in Clients : WF_vars(ClientStep(c))

-----------------------------------------------------------------------------
MsgTypes == {"STOP", "LIST", "2ALL", "2ONE", "INIT"}
Messages == [type : MsgTypes, by : Clients \cup {Nobody}, id : Ids \cup {-1}, to : Ids \cup {-1}]
InQueue(q) == {q[k] : k \in DOMAIN q}

\* types, and queues within their limit; a client about to receive has a message to receive
TypeOK ==
  /\ spc \in {"test", "check", "recv", "stop", "reply", "gone", "down"}
  /\ g_should_stop \in BOOLEAN /\ is_stopping \in BOOLEAN
  /\ clients \in [Ids -> Clients \cup {Nobody}] /\ n_clients \in 0 .. SERVER_MAX_CLIENTS
  /\ outbox \in Seq([to : Clients \cup {Nobody}, msg : Messages])
  /\ serverQueue \in Seq(Messages) /\ Len(serverQueue) <= mq_maxmsg
  /\ cpc \in [Clients -> {"off", "init", "loop", "send", "recv", "leave", "left", "vanished"}]
  /\ client_id \in [Clients -> Ids \cup {-1}]
  /\ should_stop \in [Clients -> BOOLEAN] /\ ready \in [Clients -> BOOLEAN]
  /\ unsent \in [Clients -> Messages \cup {NoMsg}]
  /\ clientQueue \in [Clients -> Seq(Messages)]
  /\ \A c \in Clients : /\ Len(clientQueue[c]) <= mq_maxmsg
                        /\ cpc[c] = "recv" \/ ready[c] => clientQueue[c] # <<>>
  /\ commands \in [Clients -> 0 .. MaxCommands]
  /\ sigints \in 0 .. MaxSigints /\ kills \in 0 .. MaxKills

\* however many servers were killed over the same queue: the count on which the
\* server's end depends is that of the open descriptors, and no client has two
DescriptorsCounted ==
  /\ n_clients = Cardinality(Used)
  /\ \A i, j \in Used : clients[i] = clients[j] => i = j

\* Until a server is killed a client that has its id, or whose id is on the way to it,
\* holds that slot, and one that told the server it leaves is forgotten when the
\* message is read.  (A server that is started again knows nobody, but the old
\* clients' messages name the ids it gives to new ones.)  Whatever is killed, the
\* server's count stays that of its open descriptors, a full queue is not written to, and
\* no client waits in mq_receive, where it would not see its user or its SIGINT.
IdIsMine ==
  /\ TypeOK /\ DescriptorsCounted
  /\ kills = 0 =>
       /\ \A c \in Clients : Linked(c) =>
            /\ client_id[c] # -1 => clients[client_id[c]] = c
            /\ \A m \in InQueue(clientQueue[c]) : m.type = "INIT" => clients[m.id] = c
       /\ \A i \in Used : cpc[clients[i]] = "left" =>
            \E m \in InQueue(serverQueue) : m.type = "STOP" /\ m.id = i /\ m.by = clients[i]

\* What can put off the server's end for ever: a client that went without telling it;
\* one registered after the STOPs were sent and that nobody stops; a SIGINT between the
\* loop test and mq_receive, with no message to wake it.
Ghost == \E i \in Used : cpc[clients[i]] = "vanished"
Untold ==
  is_stopping /\ \E i \in Used :
    LET c == clients[i] IN
    /\ Linked(c) /\ ~should_stop[c]
    /\ \A m \in InQueue(clientQueue[c]) : m.type # "STOP"
    /\ \A o \in InQueue(outbox) : ~(o.to = c /\ o.msg.type = "STOP")
MissedSignal ==
  g_should_stop /\ spc = "recv" /\ serverQueue = <<>> /\ (is_stopping => n_clients = 0)

\* What can hold it up in the middle of a handler: server and client, each in mq_send
\* on the other's full queue, and the full queue of a client that is gone, even of one
\* that said so, as its STOP is behind what the server is doing.
MutualBlock == ServerBlocked /\ ClientBlocked(Head(outbox).to)
DeadLetters == ServerBlocked /\ ~Linked(Head(outbox).to)

\* After SIGINT the server ends, unless one of those lasts.
ServerEnds ==
  \/ []<>(g_should_stop => spc = "gone")
  \/ <>[]Ghost \/ <>[]Untold \/ <>[]MissedSignal \/ <>[]MutualBlock \/ <>[]DeadLetters

\* A handler, or server_stop, sends all its messages in the end, except in that embrace
\* and to a client that is gone: a slow client is waited for.
RepliesEnd == []<>(spc \notin {"stop", "reply"}) \/ <>[]MutualBlock \/ <>[]DeadLetters
=============================================================================
