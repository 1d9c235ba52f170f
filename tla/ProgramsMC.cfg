SPECIFICATION Spec
CONSTANTS
  MaxSignals = 4
  Producers = {p1, p2}
  Consumers = {c1, c2}
  LineOf <- MCLineOf
  ChunksOf <- MCChunksOf
  PipeSize = 2
  PARSER_MAX_SYMBOL_SIZE = 2
  PARSER_MAX_SYMBOLS = 2
  PARSER_MAX_COMMAND_SIZE = 1
  PARSER_MAX_COMMANDS = 2
  PARSER_MAX_ASSIGN_EXPRS = 2
  MaxLine = 5
  Runs <- MCRuns
  MaxCalculations = 2
  Dirs <- MCDirs
  Top <- MCTop
  TextFiles <- MCTextFiles
  Entries <- MCEntries
  MaxDepth = 3
  Files <- MCFiles
  MaxThreads = 3
  MaxInversions = 2
INVARIANTS
  CountsAgree
  LinesAreWhole
  ResultIsWhole
  SavedIsInverted
  EachMatchOnce
PROPERTIES
  LinesMeanWhatTheySay
  ProgramsEnd
\* a program may be over
CHECK_DEADLOCK FALSE
