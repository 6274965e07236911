SPECIFICATION FairSpec
CONSTANTS
  Gid = {g1, g2}
  g1 = g1
  Qty <- MCQty
  InitStock = 2
  Run = {t1, t2}
  Timely = TRUE
  Faults = {"net", "db", "demo", "kill"}
INVARIANTS
  CreatedStands
  StockAccounted
PROPERTIES
  CompensatedReleased
  NoneStaysReserved
  RefinesStore
CHECK_DEADLOCK FALSE
