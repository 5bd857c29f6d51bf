SPECIFICATION AllocSpec
CONSTANTS
  c1 = c1
  c2 = c2
  b1 = b1
  Conns = {c1, c2}
  Binds = {b1}
  Modulus = 12
INVARIANTS IdsUsable UniqueUnlessRaced
