SPECIFICATION Spec
CONSTANTS
  Order = {o1, o2, o3}
  o1 = o1
  Qty <- MCQty
  InitStock = 3
  Quiet = FALSE
  Pinned = TRUE
  Faults = {}
INVARIANT
  NoSilentDrift
CHECK_DEADLOCK FALSE
