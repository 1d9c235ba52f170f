SPECIFICATION FairSpec
CONSTANTS
  Clients = {c1, c2}
  Nobody = Nobody
  SERVER_MAX_CLIENTS = 2
  QueueSize = 1
  Commands = {"2ALL"}
  MaxCommands = 1
  MaxSigints = 2
\* the program ends
CHECK_DEADLOCK FALSE
PROPERTIES
  ServerEnds
  RepliesEnd
