SPECIFICATION FairSpec
CONSTANTS
  Santa = Santa
  Elves = {e1, e2, e3, e4, e5}
  Reindeer = {r1, r2, r3}
  Group = 3
  Years = 3
INVARIANTS
  TypeOK
  CountersCountThreads
  WholeTeamDelivers
  NoLostWakeup
  NobodyOwedWhenSantaStops
PROPERTIES
  GroupIsServed
  ShutdownEnds
\* the program ends
CHECK_DEADLOCK FALSE
