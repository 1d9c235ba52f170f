SPECIFICATION Spec
CONSTANTS
  Clients = {c1, c2, c3}
  Nobody = Nobody
  SERVER_MAX_CLIENTS = 2
  QueueSize = 2
  Commands = {"LIST", "2ONE"}
  MaxCommands = 1
  MaxSigints = 1
SYMMETRY Symmetry
\* the program ends
CHECK_DEADLOCK FALSE
INVARIANT TypeOK
INVARIANT IdIsMine
INVARIANT RequestsAreTheHolders
