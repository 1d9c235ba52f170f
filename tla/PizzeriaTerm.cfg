\* The violation run: workers go on after a SIGTERM to the master.
SPECIFICATION Spec
CONSTANTS
  Cooks = {c1, c2}
  Janusze = {j1}
  Pizzas = {z1, z2, z3}
  NoPizza = NoPizza
  FURNACE_SIZE = 2
  TABLE_SIZE = 2
  Signals = {"SIGTERM"}
  Strays = 4
INVARIANT GetLock
CHECK_DEADLOCK FALSE
