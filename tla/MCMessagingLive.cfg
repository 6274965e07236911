SPECIFICATION FairSpec
CONSTANTS
  Order = {1, 2}
  Qty <- MCQty
  InitStock = 2
  Run = {t1}
  Limit = 1
  Faults = {"net", "db", "demo", "kill"}
PROPERTIES
  OrderSettles
CHECK_DEADLOCK FALSE
