SPECIFICATION RingsSpec
CONSTANTS
  Workers = {a1, a2, a3}
  Workers2 = {w1, w2}
  Size = 2
  Pizzas = {z1, z2}
  NoPizza = NoPizza
  MaxTorn = 1
INVARIANTS
  TypeOK
  LockExcludes
  SemaphoresCount
  CapacityNeverGrows
PROPERTIES
  IsFifo
  FreshRunsAreFifo
SYMMETRY MCSymmetry
