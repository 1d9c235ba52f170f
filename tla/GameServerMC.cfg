CONSTANTS
  c1 = c1  c2 = c2  c3 = c3
  Clients = {c1, c2, c3}  Nobody = Nobody
  NameOf <- MCNameOf  Positions <- MCPositions  Lines <- MCLines
  SERVER_MAX_CONNECTIONS = 2  GMAN_MAX_PLAYERS = 2  GMAN_MAX_SESSIONS = 1
  MaxEvents = 1
SPECIFICATION FairSpec
INVARIANTS TypeOK RegistryConsistent MovesAreLegal
CHECK_DEADLOCK FALSE
PROPERTIES OpponentIsReleased LoginIsAnswered
