SPECIFICATION FairSpec
CONSTANTS
  Clients = {c1, c2}
  Nobody = Nobody
  SERVER_MAX_CLIENTS = 2
  mq_maxmsg = 2
  Commands = {"LIST", "2ALL", "2ONE"}
  MaxCommands = 1
  MaxSigints = 1
  MaxKills = 1
\* the program ends
CHECK_DEADLOCK FALSE
INVARIANTS
  IdIsMine
PROPERTIES
  ServerEnds
  RepliesEnd
