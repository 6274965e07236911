SPECIFICATION Spec
CONSTANTS
  Order = {1, 2}
  Qty <- MCQty
  InitStock = 2
  Run = {t1, t2}
  Limit = 1
  Faults = {"net", "db", "demo", "kill"}
SYMMETRY MCSymmetry
INVARIANTS
  DeliveredIsProcessed
  VerdictAgreement
  StockConserved
PROPERTIES
  RefinesDesk
CHECK_DEADLOCK FALSE
