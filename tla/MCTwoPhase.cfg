SPECIFICATION Spec
CONSTANTS
  Gid = {g1, g2}
  g1 = g1
  g2 = g2
  Coord = {c1}
  NoCoord = NoCoord
  Item = {i1}
  PoolMax = 1
  Stock = 2
  Faults = {"net", "db", "demo", "items", "kill"}
  ItemOf <- MCItemOf
  Qty <- MCQty
  InitStock <- MCInitStock
INVARIANTS
  Atomicity
  CreatedStands
  ResolvedIsSettled
  StockNeverNegative
  StockMatchesOrders
PROPERTIES
  DeferredDelete
  Refines
