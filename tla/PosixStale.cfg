\* The violation run: an element is promised that the ring does not hold.
SPECIFICATION RestartSpec
CONSTANTS
  Workers = {w1, w2}
  Pizzas = {z1}
  NoPizza = NoPizza
  Size = 2
  MaxTorn = 0
INVARIANT ElementReserved
