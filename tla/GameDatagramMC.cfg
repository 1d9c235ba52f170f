CONSTANTS
  c1 = c1  c2 = c2  c3 = c3  u1 = u1  u2 = u2  p1 = p1
  Clients = {c1, c2, c3}  Nobody = Nobody  OnUnix = {c1, c3}
  Paths = {u1, u2}  Ports = {p1}
  NameOf <- MCNameOf  Positions <- MCOneMove  Lines <- MCLines
  SERVER_MAX_CONNECTIONS = 2  GMAN_MAX_PLAYERS = 3  GMAN_MAX_SESSIONS = 1
  MaxEvents = 1
SPECIFICATION FairSpec
INVARIANT AddressesConsistent
PROPERTIES GoneAreForgotten SigintEnds
CHECK_DEADLOCK FALSE
