SPECIFICATION FairSpec
CONSTANTS
  Santa = Santa
  Elves = {e1, e2, e3}
  Reindeer = {r1, r2}
  Group = 2
  Years = 2
PROPERTY AllThreadsJoined
CHECK_DEADLOCK FALSE
