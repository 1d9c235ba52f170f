--------------------------- MODULE PipelineParser ---------------------------
(***************************************************************************)
(* The parser of cw05/.../zad1, fed one character at a time.  A line       *)
(* either assigns a chain of shell commands to a symbol or executes a      *)
(* chain of symbols.                                                       *)
(*                                                                         *)
(* A character is its class, and "symbol" the one character of its class:  *)
(* names differ in length.  What was collected is forgotten at the end of  *)
(* a line (the program forgets it at the start of the next).  The commands *)
(* themselves, which /bin/sh runs, are not modelled: program_execute       *)
(* always succeeds.                                                        *)
(***************************************************************************)
EXTENDS Naturals, SequencesExt

CONSTANTS
  PARSER_MAX_SYMBOL_SIZE, PARSER_MAX_SYMBOLS,
  PARSER_MAX_COMMAND_SIZE, PARSER_MAX_COMMANDS,
  PARSER_MAX_ASSIGN_EXPRS,
  MaxLine                   \* bound on the characters of a line

VARIABLES
  state,            \* PARSER_S_...
  comment_active,
  symbols, commands,
  assign_exprs,     \* symbol and commands of each
  line              \* history: the characters since the last newline, without comments

vars == <<state, comment_active, symbols, commands, assign_exprs, line>>

Command == {"symbol", "space", "assign", "other"}
Char == Command \cup {"pipe", "newline", "hash"}

Init ==
  /\ state = "INIT" /\ comment_active = FALSE
  /\ symbols = <<>> /\ commands = <<>> /\ assign_exprs = <<>> /\ line = <<>>

-----------------------------------------------------------------------------
(* The states the switch of parser_feed goes through, without the ends of  *)
(* lines.                                                                  *)

Chain ==
  {<<"INIT", "space", "INIT">>, <<"INIT", "newline", "INIT">>, <<"INIT", "symbol", "SYM1">>,
   <<"SYM1", "symbol", "SYM1">>, <<"SYM1", "space", "SYM1_WS">>,
   <<"SYM1", "assign", "ASSIGN_WS">>, <<"SYM1", "pipe", "PIPE_WS">>,
   <<"SYM1_WS", "space", "SYM1_WS">>, <<"SYM1_WS", "assign", "ASSIGN_WS">>,
   <<"SYM1_WS", "pipe", "PIPE_WS">>,
   <<"PIPE_WS", "space", "PIPE_WS">>, <<"PIPE_WS", "symbol", "PIPE_SYM">>,
   <<"PIPE_SYM", "symbol", "PIPE_SYM">>, <<"PIPE_SYM", "space", "PIPE_SYM_WS">>,
   <<"PIPE_SYM_WS", "space", "PIPE_SYM_WS">>, <<"PIPE_SYM_WS", "pipe", "PIPE_WS">>,
   <<"ASSIGN_WS", "space", "ASSIGN_WS">>, <<"ASSIGN_CMD", "pipe", "ASSIGN_CMD_PIPE_WS">>}
  \cup {<<"ASSIGN_WS", c, "ASSIGN_CMD">> : c \in Command \ {"space"}}
  \cup {<<s, c, "ASSIGN_CMD">> : s \in {"ASSIGN_CMD", "ASSIGN_CMD_PIPE_WS"}, c \in Command}

States == {move[1] : move \in Chain} \cup {"ERR"}

Successors(c) == {move[3] : move \in {m \in Chain : m[1] = state /\ m[2] = c}}

Fails == state' = "ERR" /\ UNCHANGED <<symbols, commands, assign_exprs>>

\* parser_new_symbol and parser_new_command: over the limit they set PARSER_S_ERR, but their
\* caller sets the next state, and the characters that follow go to the last item
NewItem(items, c, limit) == IF Len(items) >= limit THEN items ELSE Append(items, <<c>>)

\* mutant: the character that is one too many is dropped silently
Pushed_Truncates(items, c, limit) ==
  IF Len(Last(items)) >= limit
  THEN [ok |-> TRUE, items |-> items]
  ELSE [ok |-> TRUE, items |-> [items EXCEPT ![Len(items)] = Append(@, c)]]

\* parser_push_symbol and parser_push_command
Pushed(items, c, limit) ==
  IF Len(Last(items)) >= limit
  THEN [ok |-> FALSE, items |-> items]
  ELSE [ok |-> TRUE, items |-> [items EXCEPT ![Len(items)] = Append(@, c)]]

\* a character that belongs to a symbol
TakesSymbol(c) ==
  /\ c = "symbol" /\ UNCHANGED <<commands, assign_exprs>>
  /\ \/ /\ state \in {"INIT", "PIPE_WS"}
        /\ symbols' = NewItem(symbols, c, PARSER_MAX_SYMBOLS)
        /\ state' \in Successors(c)
     \/ /\ state \in {"SYM1", "PIPE_SYM"}
        /\ LET pushed == Pushed(symbols, c, PARSER_MAX_SYMBOL_SIZE) IN
           symbols' = pushed.items /\ state' = IF pushed.ok THEN state ELSE "ERR"

\* a character that belongs to a command
TakesCommand(c) ==
  /\ c \in Command /\ UNCHANGED <<symbols, assign_exprs>>
  /\ \/ /\ state \in {"ASSIGN_CMD_PIPE_WS", "ASSIGN_WS"}
        /\ state = "ASSIGN_WS" => c # "space"
        /\ commands' = NewItem(commands, c, PARSER_MAX_COMMANDS)
        /\ state' \in Successors(c)
     \/ /\ state = "ASSIGN_CMD"
        /\ LET pushed == Pushed(commands, c, PARSER_MAX_COMMAND_SIZE) IN
           commands' = pushed.items /\ state' = IF pushed.ok THEN state ELSE "ERR"

\* a space or a sign between them
Separates(c) ==
  /\ c \in {"space", "assign", "pipe"} /\ state \notin {"ASSIGN_CMD_PIPE_WS", "ERR"}
  /\ state = "ASSIGN_CMD" => c = "pipe"
  /\ state = "ASSIGN_WS" => c # "assign"
  /\ Successors(c) # {} /\ state' \in Successors(c)
  /\ UNCHANGED <<symbols, commands, assign_exprs>>

Defined(symbol) == Quantify(DOMAIN assign_exprs, LAMBDA k : assign_exprs[k].symbol = symbol) = 1

Executes == state \in {"SYM1", "SYM1_WS", "PIPE_SYM", "PIPE_SYM_WS"}

\* parser_execute, parser_assign, or an empty line
EndsLine(c) ==
  /\ c = "newline"
  /\ CASE state = "INIT" -> UNCHANGED <<state, assign_exprs>>
       [] Executes /\ \A k \in DOMAIN symbols : Defined(symbols[k]) ->
            state' = "INIT" /\ UNCHANGED assign_exprs
       [] state = "ASSIGN_CMD" /\ Len(assign_exprs) < PARSER_MAX_ASSIGN_EXPRS ->
            /\ state' = "INIT"
            /\ assign_exprs' = Append(assign_exprs, [symbol |-> symbols[1], commands |-> commands])
       [] OTHER -> state' = "ERR" /\ UNCHANGED assign_exprs
  /\ symbols' = <<>> /\ commands' = <<>>

\* anything else is an error
Rejects(c) ==
  /\ c \notin {"newline", "hash"} /\ Successors(c) = {} /\ state # "ERR"
  /\ Fails

\* parser_feed, until main stops at an error
parser_feed(c) ==
  /\ state # "ERR"
  /\ \/ /\ IF comment_active THEN c # "newline" ELSE c = "hash"
        /\ comment_active' = TRUE /\ UNCHANGED <<state, symbols, commands, assign_exprs, line>>
     \/ /\ IF comment_active THEN c = "newline" ELSE c # "hash"
        /\ comment_active' = FALSE
        /\ TakesSymbol(c) \/ TakesCommand(c) \/ Separates(c) \/ EndsLine(c) \/ Rejects(c)
        /\ line' = IF c = "newline" THEN <<>> ELSE Append(line, c)

Next == \E c \in Char : (Len(line) < MaxLine \/ c = "newline") /\ parser_feed(c)

Spec == Init /\ [][Next]_vars

-----------------------------------------------------------------------------
\* where the longest stretches of characters of a set begin, and which of them, counted from
\* the left, begins at a place
Starts(seq, set) == {k \in DOMAIN seq : seq[k] \in set /\ (k = 1 \/ seq[k - 1] \notin set)}
Rank(seq, set, k) == Cardinality({l \in Starts(seq, set) : l <= k})

AreStretches(items, seq, set) ==
  /\ Len(items) = Cardinality(Starts(seq, set))
  /\ \A i \in Starts(seq, set) : \A j \in i .. Len(seq) :
       (\A k \in i .. j : seq[k] \in set) /\ (j < Len(seq) => seq[j + 1] \notin set) =>
         items[Rank(seq, set, i)] = SubSeq(seq, i, j)

\* the sides of an assignment, the right one without the spaces before it
Sign(seq) == Min({k \in DOMAIN seq : seq[k] = "assign"})
LeftSide(seq) == SubSeq(seq, 1, Sign(seq) - 1)
RightSide(seq) ==
  SubSeq(seq, Min({k \in DOMAIN seq : k > Sign(seq) /\ seq[k] # "space"}), Len(seq))

DefinedOnce(symbol) ==
  \E d \in DOMAIN assign_exprs :
    assign_exprs[d].symbol = symbol
    /\ \A e \in DOMAIN assign_exprs : assign_exprs[e].symbol = symbol => e = d

\* A line that is executed or assigned without an error means what is written on it: the
\* symbols executed are those of the line, each defined once, and the commands assigned are
\* what stands between the pipes, to the symbol on the left.  (With more of them than the
\* limits the program goes on with a wrong last one.)
LinesMeanWhatTheySay ==
  [][line' = <<>> /\ line # <<>> /\ state' = "INIT" =>
       /\ Executes /\ Cardinality(Starts(line, {"symbol"})) <= PARSER_MAX_SYMBOLS =>
            AreStretches(symbols, line, {"symbol"}) /\ \A k \in DOMAIN symbols : DefinedOnce(symbols[k])
       /\ state = "ASSIGN_CMD"
          /\ Cardinality(Starts(RightSide(line), Command)) <= PARSER_MAX_COMMANDS =>
            LET new == Last(assign_exprs') IN
            /\ AreStretches(<<new.symbol>>, LeftSide(line), {"symbol"})
            /\ AreStretches(new.commands, RightSide(line), Command)]_vars
=============================================================================
