------------------------------ MODULE Programs ------------------------------
(***************************************************************************)
(* The small programs, which share nothing: in a behaviour of this module  *)
(* one of them runs, chosen at the start, and the variables of the others  *)
(* stay as they were.  Each keeps its own module, properties and bounds.   *)
(***************************************************************************)
EXTENDS Integers, FiniteSets, Sequences

CONSTANTS
  MaxSignals,                                                    \* SignalCount
  Producers, Consumers, LineOf, ChunksOf, PipeSize,              \* FifoLines
  PARSER_MAX_SYMBOL_SIZE, PARSER_MAX_SYMBOLS, PARSER_MAX_COMMAND_SIZE,
  PARSER_MAX_COMMANDS, PARSER_MAX_ASSIGN_EXPRS, MaxLine,         \* PipelineParser
  Dirs, Top, TextFiles, Entries, MaxDepth,                       \* ForkSearch
  Runs, MaxCalculations,                                         \* Calculator
  Files, MaxThreads, MaxInversions                               \* Inversion

ASSUME ProgramsAssumption ==
  /\ {MaxSignals, MaxCalculations, MaxInversions} \subseteq Nat
  /\ LineOf \in [Producers -> Nat] /\ ChunksOf \in [Producers -> Nat]
  /\ Producers \cap Consumers = {}
  /\ {PipeSize, MaxThreads, MaxLine, PARSER_MAX_SYMBOL_SIZE, PARSER_MAX_SYMBOLS,
      PARSER_MAX_COMMAND_SIZE, PARSER_MAX_COMMANDS, PARSER_MAX_ASSIGN_EXPRS}
       \subseteq Nat \ {0}
  /\ Runs \subseteq (Nat \ {0}) \X Nat
  /\ Files \subseteq [words : Seq({"P2", "number", "junk"} \X Nat), closed : BOOLEAN]
  /\ Top \in Dirs /\ MaxDepth \in Nat /\ TextFiles \cap Dirs = {}      \* Dirs is a tree
  /\ \A d \in Dirs : Top \notin Entries[d] /\ \A e \in Dirs \ {d} : Entries[d] \cap Entries[e] = {}

VARIABLES
  program,
  confirmed, mode, to_send, pc_s, asleep, pending, g_usr1_count, g_usr2_count, sent_s,
  fits, pc_f, sent_f, fifo, output, record, tmp, torn, spoiled,
  state, comment_active, symbols, commands, assign_exprs, line,
  left, args, pc_c, wid, worker, file_c, err, num_completed, sums, printed,
  file_i, runs, nthr, order, pc_i, img, created, done, noMemory, inputs,
  tty, pc_d, depth, todo, err_d, buffer, out, faults, missed

signalVars ==
  <<confirmed, mode, to_send, pc_s, asleep, pending, g_usr1_count, g_usr2_count, sent_s>>
linesVars == <<fits, pc_f, sent_f, fifo, output, record, tmp, torn, spoiled>>
parserVars == <<state, comment_active, symbols, commands, assign_exprs, line>>
calcVars == <<left, args, pc_c, wid, worker, file_c, err, num_completed, sums, printed>>
imageVars == <<file_i, runs, nthr, order, pc_i, img, created, done, noMemory, inputs>>
searchVars == <<tty, pc_d, depth, todo, err_d, buffer, out, faults, missed>>

vars == <<program, signalVars, linesVars, parserVars, calcVars, imageVars, searchVars>>

Signal == INSTANCE SignalCount WITH pc <- pc_s, sent <- sent_s
Lines == INSTANCE FifoLines WITH pc <- pc_f, sent <- sent_f
Parser == INSTANCE PipelineParser
Calc == INSTANCE Calculator WITH pc <- pc_c, file <- file_c, MaxRuns <- MaxCalculations
Image == INSTANCE Inversion WITH pc <- pc_i, file <- file_i, mode <- order, MaxRuns <- MaxInversions
Search == INSTANCE ForkSearch WITH pc <- pc_d, err <- err_d

Init ==
  /\ program \in {"signal", "lines", "parser", "calc", "image", "search"}
  /\ Signal!Init /\ Parser!Init /\ Calc!Init
  /\ Lines!Init /\ (program # "lines" => fits)
  /\ Image!Init /\ (program # "image" => file_i = CHOOSE f \in Files : TRUE)
  /\ Search!Init /\ (program # "search" => tty /\ depth[Top] = 0)

\* the others keep still
Only(name) ==
  /\ program = name /\ UNCHANGED program
  /\ IF name = "signal" THEN TRUE ELSE UNCHANGED signalVars
  /\ IF name = "lines" THEN TRUE ELSE UNCHANGED linesVars
  /\ IF name = "parser" THEN TRUE ELSE UNCHANGED parserVars
  /\ IF name = "calc" THEN TRUE ELSE UNCHANGED calcVars
  /\ IF name = "image" THEN TRUE ELSE UNCHANGED imageVars
  /\ IF name = "search" THEN TRUE ELSE UNCHANGED searchVars

SignalStep(p) == Only("signal") /\ Signal!Step(p)
ProducerStep(p) == Only("lines") /\ Lines!Sends(p)
ConsumerStep(c) == Only("lines") /\ Lines!Consumes(c)
ParentStep == Only("calc") /\ Calc!Parent
WorkerStep(w) == Only("calc") /\ Calc!worker_task(w)
MainStep == Only("image") /\ Image!Main
ThreadStep(t) == Only("image") /\ Image!invert_task(t)
SearchStep(d) == Only("search") /\ Search!Step(d)

Next ==
  \/ \E p \in Signal!Procs : SignalStep(p)
  \/ Only("lines") /\ Lines!Next
  \/ Only("parser") /\ Parser!Next
  \/ Only("calc") /\ Calc!Next
  \/ Only("image") /\ Image!Next
  \/ \E d \in Dirs : SearchStep(d)

\* The scheduler runs every process and thread that is not waiting; nobody has to start a
\* program, to signal it, to type, or to interrupt it.
Spec ==
  /\ Init /\ [][Next]_vars
  /\ \A p \in Signal!Procs : WF_vars(SignalStep(p))
  /\ \A p \in Producers : WF_vars(ProducerStep(p))
  /\ \A c \in Consumers : WF_vars(ConsumerStep(c))
  /\ WF_vars(ParentStep) /\ \A w \in Calc!Wids : WF_vars(WorkerStep(w))
  /\ WF_vars(MainStep) /\ \A t \in Image!Threads : WF_vars(ThreadStep(t))
  /\ \A d \in Dirs : WF_vars(SearchStep(d))

-----------------------------------------------------------------------------
\* Nobody counts a signal that was not sent, and the final counts are right wherever no
\* signals can merge: sender.c and catcher.c of zad3a and zad3b.
CountsAgree == Signal!CountsAgree

\* A producer's chunks are all in its line, in order, or still on their way, unless records were
\* written in parts or consumers got in each other's way; and these lose none before they have
\* it, either: producer/main.c, send_data, and consumer/main.c, receive and append_to_line.
LinesAreWhole == Lines!LinesAreWhole

\* A line executed or assigned without an error means what is written on it: parser.c.
LinesMeanWhatTheySay == Parser!LinesMeanWhatTheySay

\* A printed result adds every cell of its own run once, whatever failed and whatever files
\* earlier runs left: calculator.c.
ResultIsWhole == Calc!ResultIsWhole

\* A saved image is the inverse of its input, pixel by pixel, and inverted twice is the
\* input: pgm.c, invert_1.c, invert_2.c.
SavedIsInverted == Image!SavedIsInverted

\* Before it ends a search prints every file that matches and no other, or tells of a failure,
\* or took one for an answer: fork_search.c.
EachMatchOnce == Search!EachMatchOnce

\* Every program ends once started: neither process sleeps through the signal it waits for,
\* every open FIFO is closed again, every calculation and search is over and every image
\* saved or refused, no child or thread waited for in vain.
ProgramsEnd ==
  []<>(CASE program = "signal" -> Signal!BothEnded
         [] program = "lines" -> Lines!Closed
         [] program = "calc" -> pc_c = "idle"
         [] program = "image" -> pc_i \in {"idle", "failed"}
         [] program = "search" -> Search!Ended
         [] OTHER -> TRUE)
=============================================================================
