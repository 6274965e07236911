SPECIFICATION FairSpec
CONSTANTS
  Gid = {g1, g2}
  g1 = g1
  g2 = g2
  Coord = {c1}
  NoCoord = NoCoord
  Item = {i1}
  PoolMax = 2
  Stock = 2
  Faults = {"kill"}
  ItemOf <- MCItemOf
  Qty <- MCQty
  InitStock <- MCInitStock
PROPERTIES
  EveryOrderEnds
  RestartsResolve
