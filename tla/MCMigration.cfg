SPECIFICATION Spec
CONSTANTS
  Order = {o1, o2, o3}
  o1 = o1
  Qty <- MCQty
  InitStock = 3
  Quiet = TRUE
  Pinned = TRUE
  Faults = {"net", "db", "demo", "kill"}
INVARIANTS
  NoSilentDrift
  StockConserved
PROPERTY
  RefinesStore
CHECK_DEADLOCK FALSE
