------------------------------ MODULE FifoLines ------------------------------
(***************************************************************************)
(* Producers and consumers of cw05/.../zad3 on one FIFO.  A producer sends *)
(* its input in chunks, each with the number of the producer's line; a     *)
(* consumer inserts each chunk at the end of that line of the output file, *)
(* which it reads to a temporary file and writes back.                     *)
(*                                                                         *)
(* All processes use one burst size N.  A record, the number of the line   *)
(* and N bytes, is written in one piece only when it is not larger than    *)
(* PIPE_BUF, which no program checks: a larger one may go in parts, with   *)
(* records of others between them, and be read in parts.  A part has the   *)
(* number 0.  What is read then is no longer a record, and the line it     *)
(* goes to whatever four bytes of it say; where that is is not followed.   *)
(*                                                                         *)
(* The input has no newlines, and no line number is INT_MAX, for which     *)
(* append_to_line would add newlines for ever.  A file is a sequence of    *)
(* chunks and newlines.  It is read at once and written at once: the       *)
(* program does both byte by byte, but as soon as two consumers do it      *)
(* together nothing is promised of the output anyway (spoiled).            *)
(***************************************************************************)
EXTENDS Naturals, SequencesExt

CONSTANTS
  Producers, Consumers,
  LineOf,       \* LINE of each producer
  ChunksOf,     \* how many chunks its INPUT has
  PipeSize      \* records the FIFO holds

VARIABLES
  fits,      \* N + sizeof(int) <= PIPE_BUF
  pc,        \* "off", "opening", "running", "done", "killed"; a producer also "midway" in a
             \* write, a consumer "truncate", "copy", "write"
  sent,      \* chunks of each producer written to the FIFO
  fifo, output,
  record,    \* what each consumer holds: <<>> or one record
  tmp,       \* its temporary file
  torn,      \* a record was written in parts
  spoiled    \* two consumers held records at once, one truncated the other's output, or
             \* tmpfile failed

vars == <<fits, pc, sent, fifo, output, record, tmp, torn, spoiled>>

Procs == Producers \cup Consumers
OtherEnd(p) == IF p \in Producers THEN Consumers ELSE Producers
HasOpen(p) == pc[p] \in {"truncate", "running", "midway", "copy", "write"}

Init ==
  /\ pc = [p \in Procs |-> "off"]
  /\ sent = [p \in Producers |-> 0]
  /\ fifo = <<>> /\ output = <<>>
  /\ record = [c \in Consumers |-> <<>>] /\ tmp = [c \in Consumers |-> <<>>]
  /\ fits \in BOOLEAN /\ torn = FALSE /\ spoiled = FALSE

NewLine == <<>>

\* open of the FIFO waits for the other end, and releases all that wait there
Opens(p) ==
  /\ pc[p] = "off"
  /\ LET waiting == {q \in OtherEnd(p) : pc[q] = "opening"} IN
     pc' = IF waiting = {} /\ \A q \in OtherEnd(p) : ~HasOpen(q)
           THEN [pc EXCEPT ![p] = "opening"]
           ELSE [q \in Procs |-> CASE q \notin {p} \cup waiting -> pc[q]
                                   [] q \in {p} \cup waiting /\ q \in Producers -> "running"
                                   [] OTHER -> "truncate"]
  /\ UNCHANGED <<fits, sent, fifo, output, record, tmp, torn, spoiled>>

\* the consumer opens its output with O_TRUNC
Truncates(c) ==
  /\ pc[c] = "truncate" /\ pc' = [pc EXCEPT ![c] = "running"]
  /\ spoiled' = (spoiled \/ output # <<>> \/ \E d \in Consumers : record[d] # <<>>)
  /\ output' = <<>>
  /\ UNCHANGED <<fits, sent, fifo, record, tmp, torn>>

Part(p) == <<p, 0>>
IsWhole(chunk) == chunk[2] # 0

\* a write, in one piece or in two, waits while the FIFO is full
Puts(p) ==
  /\ Len(fifo) < PipeSize
  /\ \/ /\ pc[p] = "running" /\ sent' = [sent EXCEPT ![p] = @ + 1]
        /\ fifo' = Append(fifo, <<p, sent'[p]>>)
        /\ UNCHANGED <<pc, torn>>
     \/ /\ ~fits /\ fifo' = Append(fifo, Part(p)) /\ torn' = TRUE
        /\ \/ /\ pc[p] = "running" /\ pc' = [pc EXCEPT ![p] = "midway"]
              /\ UNCHANGED sent
           \/ /\ pc[p] = "midway" /\ pc' = [pc EXCEPT ![p] = "running"]
              /\ sent' = [sent EXCEPT ![p] = @ + 1]

\* send_data: the end of the input, or the next chunk, and SIGPIPE when nobody can read it
Sends(p) ==
  /\ pc[p] \in {"running", "midway"}
  /\ IF sent[p] = ChunksOf[p]
     THEN pc' = [pc EXCEPT ![p] = "done"] /\ UNCHANGED <<sent, fifo, torn>>
     ELSE IF \A c \in Consumers : ~HasOpen(c)
     THEN pc' = [pc EXCEPT ![p] = "killed"] /\ UNCHANGED <<sent, fifo, torn>>
     ELSE Puts(p)
  /\ UNCHANGED <<fits, output, record, tmp, spoiled>>

\* what a read takes and leaves: the first record, or once there are parts, bytes up to the end
\* of a record or into it
Behind(k) == SubSeq(fifo, k + 1, Len(fifo))
Reads ==
  IF ~torn THEN {<<Head(fifo), Tail(fifo)>>}
  ELSE {Part(Head(fifo)[1])} \X
         ({Behind(k) : k \in DOMAIN fifo} \cup
          {<<Part(fifo[k][1])>> \o Behind(k) : k \in {k \in DOMAIN fifo : IsWhole(fifo[k])}})

\* receive: a read, which may be too short to hold a line number, or the end of the file when
\* every producer has closed
Receives(c) ==
  /\ pc[c] = "running"
  /\ \/ /\ fifo # <<>>
        /\ \E read \in Reads : record' = [record EXCEPT ![c] = <<read[1]>>] /\ fifo' = read[2]
        /\ spoiled' = (spoiled \/ \E d \in Consumers \ {c} : record[d] # <<>>)
        /\ pc' = [pc EXCEPT ![c] = "copy"]
     \/ /\ \/ fifo # <<>> /\ torn /\ \E read \in Reads : fifo' = read[2]
           \/ fifo = <<>> /\ (\A p \in Producers : ~HasOpen(p)) /\ UNCHANGED fifo
        /\ pc' = [pc EXCEPT ![c] = "done"]
        /\ UNCHANGED <<record, spoiled>>
  /\ UNCHANGED <<fits, sent, output, tmp, torn>>

NewLines(file) == {k \in DOMAIN file : file[k] = NewLine}

\* the newlines append_to_line adds so that the file has the line
Padded(file, line) ==
  file \o [k \in 1 .. (IF Cardinality(NewLines(file)) <= line
                       THEN line + 1 - Cardinality(NewLines(file)) ELSE 0) |-> NewLine]

\* the line a place is in, and where a line ends
LineAt(file, k) == Cardinality({j \in NewLines(file) : j < k})
EndOf(file, line) == CHOOSE k \in NewLines(file) : LineAt(file, k) = line

\* mutant: the newline is copied before it is looked at
WithChunk_After(file, chunk) ==
  LET whole == Padded(file, LineOf[chunk[1]])
  IN  IF IsWhole(chunk) THEN InsertAt(whole, EndOf(whole, LineOf[chunk[1]]) + 1, chunk) ELSE file

WithChunk(file, chunk) ==
  LET whole == Padded(file, LineOf[chunk[1]])
  IN  IF IsWhole(chunk) THEN InsertAt(whole, EndOf(whole, LineOf[chunk[1]]), chunk) ELSE file

\* the first loop of append_to_line; without a temporary file the consumer ends
Copies(c) ==
  /\ pc[c] = "copy"
  /\ \/ /\ tmp' = [tmp EXCEPT ![c] = WithChunk(output, record[c][1])]
        /\ pc' = [pc EXCEPT ![c] = "write"] /\ UNCHANGED <<record, spoiled>>
     \/ /\ pc' = [pc EXCEPT ![c] = "done"] /\ record' = [record EXCEPT ![c] = <<>>]
        /\ spoiled' = TRUE /\ UNCHANGED tmp
  /\ UNCHANGED <<fits, sent, fifo, output, torn>>

\* the second: written over the old contents, of which a longer tail would stay
Writes(c) ==
  /\ pc[c] = "write" /\ pc' = [pc EXCEPT ![c] = "running"]
  /\ output' = tmp[c] \o SubSeq(output, Len(tmp[c]) + 1, Len(output))
  /\ record' = [record EXCEPT ![c] = <<>>] /\ tmp' = [tmp EXCEPT ![c] = <<>>]
  /\ UNCHANGED <<fits, sent, fifo, torn, spoiled>>

Consumes(c) == Truncates(c) \/ Receives(c) \/ Copies(c) \/ Writes(c)

Next ==
  \/ \E p \in Procs : Opens(p)
  \/ \E p \in Producers : Sends(p)
  \/ \E c \in Consumers : Consumes(c)

Spec == Init /\ [][Next]_vars

-----------------------------------------------------------------------------
PlacesOf(p, seq) == {k \in DOMAIN seq : seq[k] # NewLine /\ seq[k][1] = p}

\* the chunks of p in the sequence are those from first to last, in this order
InOrder(p, seq, first, last) ==
  /\ {seq[k][2] : k \in PlacesOf(p, seq)} = first .. last
  /\ \A j, k \in PlacesOf(p, seq) : j < k => seq[j][2] < seq[k][2]

Holders(p) == {c \in Consumers : PlacesOf(p, record[c]) # {}}

\* Of p's chunks, those after the first taken are in the FIFO, in order, and one that a consumer
\* still holds is an earlier one that no other consumer holds, too.
HandedOn(p, taken) ==
  /\ InOrder(p, fifo, taken + 1, sent[p])
  /\ \A c \in Holders(p) : record[c][1][2] \in 1 .. taken
  /\ \A c, d \in Holders(p) : record[c] = record[d] => c = d

\* As long as no record went in parts, and none does if a record is at most PIPE_BUF, the FIFO
\* hands on each chunk to one consumer, in order, whatever the consumers do.  And as long as the
\* consumers have not got in each other's way either, the chunks of a producer are all there,
\* once and in order: first those in the output, then the one a consumer holds, then those in
\* the FIFO; and each chunk in the output is in the line of its producer.
LinesAreWhole ==
  /\ fits => ~torn
  /\ ~torn => \A p \in Producers : \E taken \in 0 .. sent[p] : HandedOn(p, taken)
  /\ ~torn /\ ~spoiled =>
       /\ \A k \in DOMAIN output : output[k] # NewLine =>
            output[k][1] \in Producers /\ LineAt(output, k) = LineOf[output[k][1]]
       /\ \A p \in Producers : \E written, taken \in 0 .. sent[p] :
            /\ InOrder(p, output, 1, written)
            /\ IF taken = written THEN Holders(p) = {}
               ELSE /\ taken = written + 1
                    /\ \E c \in Consumers : Holders(p) = {c} /\ record[c] = <<<<p, taken>>>>
            /\ InOrder(p, fifo, taken + 1, sent[p])

\* Whoever had opened the FIFO has ended.
Closed == \A p \in Procs : ~HasOpen(p)
=============================================================================
