SPECIFICATION FairSpec
CONSTANTS
  Cooks = {c1, c2}
  Janusze = {j1}
  Pizzas = {z1, z2, z3, z4}
  NoPizza = NoPizza
  FURNACE_SIZE = 1
  TABLE_SIZE = 2
  Signals = {"SIGINT"}
  Strays = 2
INVARIANTS
  EveryPizzaOnce
  OnePizzaPerBakingCook
  SigintKeepsLocks
PROPERTY DeliveriesGoOn
\* the program stops after a signal
CHECK_DEADLOCK FALSE
