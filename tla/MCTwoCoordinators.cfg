SPECIFICATION Spec
CONSTANTS
  Gid = {g1, g2}
  g1 = g1
  g2 = g2
  Coord = {c1, c2}
  NoCoord = NoCoord
  Item = {i1}
  PoolMax = 1
  Stock = 2
  Faults = {}
  ItemOf <- MCItemOf
  Qty <- MCQty
  InitStock <- MCInitStock
INVARIANT
  Atomicity
