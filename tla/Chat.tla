-------------------------------- MODULE Chat --------------------------------
(***************************************************************************)
(* The chat of cw06/.../zad1: a server and its clients over System V       *)
(* message queues, one for the server and one for each client (server.c,   *)
(* client.c).                                                              *)
(*                                                                         *)
(* Every msgrcv asks for the lowest type first, so a queue is not first in *)
(* first out: a STOP overtakes all that was sent before it, an INIT waits  *)
(* for all that is there.  msgsnd blocks while a queue is full and fails   *)
(* on one that was deleted; a SIGINT interrupts a blocked call, whose      *)
(* message is then not sent.                                               *)
(*                                                                         *)
(* Message bodies and the log are left out.  The field "by" of a message   *)
(* is the client it comes from; the program has it in an INIT only, the    *)
(* others carry just the id.                                               *)
(***************************************************************************)
EXTENDS Integers, SequencesExt

CONSTANTS
  Clients,
  Nobody,        \* -1 in clients[]
  SERVER_MAX_CLIENTS,
  QueueSize,     \* messages a queue holds before msgsnd blocks
  Commands,      \* what users type besides STOP: "LIST", "2ALL", "2ONE"
  MaxCommands,   \* bound: commands of one user
  MaxSigints     \* bound: SIGINTs sent to the server and the clients

ASSUME BoundsAssumption ==
  /\ SERVER_MAX_CLIENTS \in Nat \ {0} /\ QueueSize \in Nat \ {0}
  /\ MaxCommands \in Nat /\ MaxSigints \in Nat
  /\ Nobody \notin Clients
  /\ Commands \subseteq {"LIST", "2ALL", "2ONE"}

Ids == 0 .. SERVER_MAX_CLIENTS - 1

VARIABLES
  spc,            \* the server: "test", "check", "recv", "stop", "reply" or "gone"
  g_should_stop,  \* the server's
  is_stopping,
  clients,        \* the queue, that is the client, of each id
  n_clients,
  outbox,         \* what server_stop or the handler has still to send
  serverQueue,
  cpc,            \* each client: "off", "init", "loop", "send", "recv", "leave", and after
                  \* it "left" when it told the server, "vanished" when it did not
  client_id,      \* -1 until its INIT is read
  should_stop,    \* the client's g_should_stop
  unsent,         \* the command it is sending
  commands,       \* how many its user has typed
  clientQueue,
  sigints

serverVars == <<spc, g_should_stop, is_stopping, clients, n_clients, outbox>>
clientVars == <<cpc, client_id, should_stop, unsent, commands>>
vars == <<serverVars, clientVars, serverQueue, clientQueue, sigints>>

\* to: the recipient's id, in a 2ONE to the server
Msg(type, by, id) == [type |-> type, by |-> by, id |-> id, to |-> -1]
NoMsg == Msg("none", Nobody, -1)

Init ==
  /\ spc = "test" /\ g_should_stop = FALSE /\ is_stopping = FALSE
  /\ clients = [i \in Ids |-> Nobody] /\ n_clients = 0
  /\ outbox = <<>> /\ serverQueue = <<>>
  /\ cpc = [c \in Clients |-> "off"]
  /\ client_id = [c \in Clients |-> -1]
  /\ should_stop = [c \in Clients |-> FALSE]
  /\ unsent = [c \in Clients |-> NoMsg]
  /\ commands = [c \in Clients |-> 0]
  /\ clientQueue = [c \in Clients |-> <<>>]
  /\ sigints = 0

-----------------------------------------------------------------------------
(* The queues.                                                             *)

\* mutant: the enumeration lists INIT right after STOP
Rank_InitSecond(type) ==
  CASE type = "STOP" -> 1 [] type = "INIT" -> 2 [] type = "LIST" -> 3
    [] type = "2ALL" -> 4 [] type = "2ONE" -> 5

\* enum message_type_t
Rank(type) ==
  CASE type = "STOP" -> 1 [] type = "LIST" -> 2 [] type = "2ALL" -> 3
    [] type = "2ONE" -> 4 [] type = "INIT" -> 5

Full(q) == Len(q) >= QueueSize

\* where msgrcv(..., -MESSAGE_MAX) finds its message: the first of the lowest type
Next_in(q) ==
  CHOOSE k \in DOMAIN q :
    \A l \in DOMAIN q : Rank(q[k].type) < Rank(q[l].type)
                        \/ (Rank(q[k].type) = Rank(q[l].type) /\ k <= l)

\* mutant: a client does not delete its queue
HasQueue_Leaked(c) == cpc[c] # "off"

HasQueue(c) == cpc[c] \notin {"off", "left", "vanished"}
Used == {i \in Ids : clients[i] # Nobody}

-----------------------------------------------------------------------------
(* The server.                                                             *)

\* where in a loop over clients[] each id is; nothing goes to Nobody, the ids not in use
Places == 1 .. SERVER_MAX_CLIENTS
IdAt(k) == k - 1

To(c, m) == [to |-> c, msg |-> m]

\* while (!g_should_stop || server->n_clients > 0)
ServerTests ==
  /\ spc = "test"
  /\ IF g_should_stop /\ n_clients = 0
     THEN spc' = "gone" /\ serverQueue' = <<>>
     ELSE spc' = "check" /\ UNCHANGED serverQueue
  /\ UNCHANGED <<g_should_stop, is_stopping, clients, n_clients, outbox, clientVars,
                 clientQueue, sigints>>

server_stop ==
  /\ spc = "check"
  /\ IF g_should_stop /\ ~is_stopping
     THEN /\ spc' = "stop" /\ is_stopping' = TRUE
          /\ outbox' = [k \in Places |-> To(clients[IdAt(k)], Msg("STOP", Nobody, IdAt(k)))]
     ELSE spc' = "recv" /\ UNCHANGED <<is_stopping, outbox>>
  /\ UNCHANGED <<g_should_stop, clients, n_clients, clientVars, serverQueue, clientQueue, sigints>>

\* mutant: the next id is the number of clients
server_handle_init_Count(m) ==
  /\ IF Used # Ids
     THEN /\ clients' = [clients EXCEPT ![n_clients] = m.by]
          /\ n_clients' = n_clients + 1
          /\ outbox' = <<To(m.by, Msg("INIT", Nobody, n_clients))>>
     ELSE UNCHANGED <<clients, n_clients, outbox>>

server_handle_init(m) ==
  /\ IF Used # Ids
     THEN LET i == Min(Ids \ Used) IN
          /\ clients' = [clients EXCEPT ![i] = m.by]
          /\ n_clients' = n_clients + 1
          /\ outbox' = <<To(m.by, Msg("INIT", Nobody, i))>>
     ELSE UNCHANGED <<clients, n_clients, outbox>>

\* mutant: n_clients is not counted down
server_handle_stop_Uncounted(m) ==
  /\ UNCHANGED outbox
  /\ clients' = [clients EXCEPT ![m.id] = Nobody]
  /\ UNCHANGED n_clients

server_handle_stop(m) ==
  /\ UNCHANGED outbox
  /\ IF clients[m.id] # Nobody
     THEN clients' = [clients EXCEPT ![m.id] = Nobody] /\ n_clients' = n_clients - 1
     ELSE UNCHANGED <<clients, n_clients>>

server_handle_list(m) ==
  /\ outbox' = [k \in Places |->
                 To(IF IdAt(k) \in Used THEN clients[m.id] ELSE Nobody, Msg("LIST", m.by, IdAt(k)))]
  /\ UNCHANGED <<clients, n_clients>>

server_handle_2all(m) ==
  /\ outbox' = [k \in Places |-> To(clients[IdAt(k)], Msg("2ONE", m.by, m.id))]
  /\ UNCHANGED <<clients, n_clients>>

server_handle_2one(m) ==
  /\ outbox' = <<To(clients[m.to], Msg("2ONE", m.by, m.id))>>
  /\ UNCHANGED <<clients, n_clients>>

ServerReceives ==
  /\ spc = "recv" /\ serverQueue # <<>>
  /\ LET k == Next_in(serverQueue)
         m == serverQueue[k]
     IN  /\ serverQueue' = RemoveAt(serverQueue, k)
         /\ CASE m.type = "INIT" -> server_handle_init(m)
              [] m.type = "STOP" -> server_handle_stop(m)
              [] m.type = "LIST" -> server_handle_list(m)
              [] m.type = "2ALL" -> server_handle_2all(m)
              [] m.type = "2ONE" -> server_handle_2one(m)
  /\ spc' = "reply"
  /\ UNCHANGED <<g_should_stop, is_stopping, clientVars, clientQueue, sigints>>

\* one msgsnd of server_stop or of a handler: an error is printed and passed over
ServerSends ==
  /\ spc \in {"stop", "reply"}
  /\ IF outbox = <<>>
     THEN /\ spc' = IF spc = "stop" THEN "recv" ELSE "test"
          /\ UNCHANGED <<outbox, clientQueue>>
     ELSE LET c == Head(outbox).to IN
          /\ outbox' = Tail(outbox)
          /\ IF c # Nobody /\ HasQueue(c)
             THEN ~Full(clientQueue[c])
                  /\ clientQueue' = [clientQueue EXCEPT ![c] = Append(@, Head(outbox).msg)]
             ELSE UNCHANGED clientQueue
          /\ UNCHANGED spc
  /\ UNCHANGED <<g_should_stop, is_stopping, clients, n_clients, clientVars, serverQueue, sigints>>

\* SIGINT.  A msgrcv or a blocked msgsnd is interrupted, unless the signal came just
\* before the call.
ServerBlocked ==
  spc \in {"stop", "reply"} /\ outbox # <<>>
  /\ LET c == Head(outbox).to IN c # Nobody /\ HasQueue(c) /\ Full(clientQueue[c])

ServerSigint ==
  /\ spc # "gone" /\ sigints < MaxSigints /\ sigints' = sigints + 1
  /\ g_should_stop' = TRUE
  /\ \/ UNCHANGED <<spc, outbox>>
     \/ spc = "recv" /\ spc' = "test" /\ UNCHANGED outbox
     \/ ServerBlocked /\ outbox' = Tail(outbox) /\ UNCHANGED spc
  /\ UNCHANGED <<is_stopping, clients, n_clients, clientVars, serverQueue, clientQueue>>

ServerStep == ServerTests \/ server_stop \/ ServerReceives \/ ServerSends

-----------------------------------------------------------------------------
(* The clients.                                                            *)

ServerUp == spc # "gone"

Goto(c, where) == cpc' = [cpc EXCEPT ![c] = where]

\* msgsnd to the server: fails when the queue is deleted, blocks while it is full
Post(m) ==
  IF ServerUp THEN ~Full(serverQueue) /\ serverQueue' = Append(serverQueue, m)
              ELSE UNCHANGED serverQueue

\* client_create_queue, client_open_server
Start(c) ==
  /\ cpc[c] = "off"
  /\ Goto(c, IF ServerUp THEN "init" ELSE "vanished")
  /\ UNCHANGED <<serverVars, client_id, should_stop, unsent, commands, serverQueue,
                 clientQueue, sigints>>

client_send_init(c) ==
  /\ cpc[c] = "init"
  /\ Post(Msg("INIT", c, -1))
  /\ Goto(c, IF ServerUp THEN "loop" ELSE "leave")
  /\ UNCHANGED <<serverVars, client_id, should_stop, unsent, commands, clientQueue, sigints>>

\* what the user of c can ask for
Requests(c) ==
  {Msg(type, c, client_id[c]) : type \in Commands \ {"2ONE"}}
    \cup {[Msg("2ONE", c, client_id[c]) EXCEPT !.to = i] : i \in IF "2ONE" \in Commands THEN Ids ELSE {}}

\* the loop test and the poll of stdin: nothing typed, STOP, or a command; a command
\* without an id is refused
Looks(c) ==
  /\ cpc[c] = "loop"
  /\ \/ /\ should_stop[c]
        /\ Goto(c, "leave")
        /\ UNCHANGED <<should_stop, unsent, commands>>
     \/ /\ ~should_stop[c]
        /\ Goto(c, "recv")
        /\ \/ UNCHANGED should_stop
           \/ should_stop' = [should_stop EXCEPT ![c] = TRUE]
        /\ UNCHANGED <<unsent, commands>>
     \/ /\ ~should_stop[c] /\ client_id[c] # -1 /\ commands[c] < MaxCommands
        /\ Goto(c, "send")
        /\ \E m \in Requests(c) : unsent' = [unsent EXCEPT ![c] = m]
        /\ commands' = [commands EXCEPT ![c] = @ + 1]
        /\ UNCHANGED should_stop
  /\ UNCHANGED <<serverVars, client_id, serverQueue, clientQueue, sigints>>

\* client_send_list, client_send_2all, client_send_2one
Sends(c) ==
  /\ cpc[c] = "send"
  /\ Post(unsent[c])
  /\ Goto(c, "recv") /\ unsent' = [unsent EXCEPT ![c] = NoMsg]
  /\ UNCHANGED <<serverVars, client_id, should_stop, commands, clientQueue, sigints>>

\* msgrcv with IPC_NOWAIT, and the handler
Receives(c) ==
  /\ cpc[c] = "recv"
  /\ Goto(c, "loop")
  /\ IF clientQueue[c] = <<>>
     THEN UNCHANGED <<clientQueue, client_id, should_stop>>
     ELSE LET k == Next_in(clientQueue[c])
              m == clientQueue[c][k]
          IN  /\ clientQueue' = [clientQueue EXCEPT ![c] = RemoveAt(@, k)]
              /\ client_id' = IF m.type = "INIT" THEN [client_id EXCEPT ![c] = m.id] ELSE client_id
              /\ should_stop' = IF m.type = "STOP" THEN [should_stop EXCEPT ![c] = TRUE]
                                                   ELSE should_stop
  /\ UNCHANGED <<serverVars, unsent, commands, serverQueue, sigints>>

\* client_send_stop and client_delete_queue: without an id the server is not told
Leaves(c) ==
  /\ cpc[c] = "leave"
  /\ IF client_id[c] = -1
     THEN Goto(c, "vanished") /\ UNCHANGED <<serverQueue, client_id>>
     ELSE /\ Post(Msg("STOP", c, client_id[c]))
          /\ IF ServerUp THEN Goto(c, "left") /\ client_id' = [client_id EXCEPT ![c] = -1]
                         ELSE Goto(c, "vanished") /\ UNCHANGED client_id
  /\ clientQueue' = [clientQueue EXCEPT ![c] = <<>>]
  /\ UNCHANGED <<serverVars, should_stop, unsent, commands, sigints>>

\* a SIGINT may interrupt a blocked msgsnd: the message is given up
ClientSigint(c) ==
  /\ HasQueue(c) /\ sigints < MaxSigints /\ sigints' = sigints + 1
  /\ should_stop' = [should_stop EXCEPT ![c] = TRUE]
  /\ \/ UNCHANGED <<cpc, unsent, clientQueue>>
     \/ /\ ServerUp /\ Full(serverQueue)
        /\ \/ cpc[c] = "init" /\ Goto(c, "leave") /\ UNCHANGED <<unsent, clientQueue>>
           \/ /\ cpc[c] = "send" /\ Goto(c, "recv")
              /\ unsent' = [unsent EXCEPT ![c] = NoMsg] /\ UNCHANGED clientQueue
           \/ /\ cpc[c] = "leave" /\ client_id[c] # -1 /\ Goto(c, "vanished")
              /\ clientQueue' = [clientQueue EXCEPT ![c] = <<>>] /\ UNCHANGED unsent
  /\ UNCHANGED <<serverVars, client_id, commands, serverQueue>>

ClientStep(c) ==
  client_send_init(c) \/ Looks(c) \/ Sends(c) \/ Receives(c) \/ Leaves(c)

-----------------------------------------------------------------------------
Next ==
  \/ ServerStep
  \/ ServerSigint
  \/ \E c \in Clients : Start(c) \/ ClientStep(c) \/ ClientSigint(c)

Spec == Init /\ [][Next]_vars

(* The scheduler runs every process that can go on.  No client has to be   *)
(* started, no user has to type and nobody has to send a signal.           *)
FairSpec ==
  /\ Spec
  /\ WF_vars(ServerStep)
  /\ \A c \in Clients : WF_vars(ClientStep(c))

-----------------------------------------------------------------------------
MsgTypes == {"STOP", "LIST", "2ALL", "2ONE", "INIT"}
Messages == [type : MsgTypes, by : Clients \cup {Nobody}, id : Ids \cup {-1}, to : Ids \cup {-1}]
InQueue(q) == {q[k] : k \in DOMAIN q}

\* Types, and queues within their limit.
TypeOK ==
  /\ spc \in {"test", "check", "recv", "stop", "reply", "gone"}
  /\ g_should_stop \in BOOLEAN /\ is_stopping \in BOOLEAN
  /\ clients \in [Ids -> Clients \cup {Nobody}] /\ n_clients \in 0 .. SERVER_MAX_CLIENTS
  /\ outbox \in Seq([to : Clients \cup {Nobody}, msg : Messages])
  /\ serverQueue \in Seq(Messages) /\ Len(serverQueue) <= QueueSize
  /\ cpc \in [Clients -> {"off", "init", "loop", "send", "recv", "leave", "left", "vanished"}]
  /\ client_id \in [Clients -> Ids \cup {-1}]
  /\ should_stop \in [Clients -> BOOLEAN]
  /\ unsent \in [Clients -> Messages \cup {NoMsg}]
  /\ clientQueue \in [Clients -> Seq(Messages)]
  /\ \A c \in Clients : Len(clientQueue[c]) <= QueueSize
  /\ commands \in [Clients -> 0 .. MaxCommands] /\ sigints \in 0 .. MaxSigints

\* A client that has its id, or whose id is on the way to it, holds that slot of
\* clients[]: no other client was given the id, and nobody freed it.  One that told the
\* server it leaves is forgotten when the message is read, and the count on which the
\* server's end depends is that of the used slots.
IdIsMine ==
  /\ \A c \in Clients : HasQueue(c) =>
       /\ client_id[c] # -1 => clients[client_id[c]] = c
       /\ \A m \in InQueue(clientQueue[c]) : m.type = "INIT" => clients[m.id] = c
  /\ n_clients = Cardinality(Used)
  /\ \A i \in Used : cpc[clients[i]] = "left" =>
       \E m \in InQueue(serverQueue) : m.type = "STOP" /\ m.id = i /\ m.by = clients[i]

\* No request outlives the client that sent it by so much that its id names another
\* client: a STOP may free an id while older requests of that client still wait, but
\* an INIT, which could give the id away, is received only after those.  So no answer
\* to LIST reaches a client that did not ask.
RequestsAreTheHolders ==
  /\ \A m \in InQueue(serverQueue) :
       m.type # "INIT" /\ clients[m.id] # Nobody => clients[m.id] = m.by
  /\ \A c \in Clients : \A m \in InQueue(clientQueue[c]) : m.type = "LIST" => m.by = c

\* The three ways the server's end can be put off for ever: a client that went
\* without telling it, a client registered after the STOPs were sent and that nobody
\* stops, a SIGINT that came after the loop test and before msgrcv, with no message to
\* wake it (before the test of is_stopping it is noticed, but of no use without clients).
Ghost == \E i \in Used : cpc[clients[i]] = "vanished"
Untold ==
  is_stopping /\ \E i \in Used :
    LET c == clients[i] IN
    /\ HasQueue(c) /\ ~should_stop[c]
    /\ \A m \in InQueue(clientQueue[c]) : m.type # "STOP"
    /\ \A o \in InQueue(outbox) : ~(o.to = c /\ o.msg.type = "STOP")
MissedSignal ==
  g_should_stop /\ spc = "recv" /\ serverQueue = <<>> /\ (is_stopping => n_clients = 0)

\* Server and client, each in msgsnd on the other's full queue.
MutualBlock ==
  ServerBlocked /\ Full(serverQueue) /\ cpc[Head(outbox).to] \in {"init", "send", "leave"}

\* After SIGINT the server ends, unless one of those three lasts or server and client
\* block each other.
ServerEnds ==
  \/ []<>(g_should_stop => spc = "gone")
  \/ <>[]Ghost \/ <>[]Untold \/ <>[]MissedSignal \/ <>[]MutualBlock

\* A handler, or server_stop, sends all its messages in the end: a client that is
\* slow, has stopped reading or is gone holds up the server only in that embrace.
RepliesEnd == []<>(spc \notin {"stop", "reply"}) \/ <>[]MutualBlock
=============================================================================
