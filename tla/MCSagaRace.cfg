SPECIFICATION Spec
CONSTANTS
  Gid = {g1, g2}
  g1 = g1
  Qty <- MCQty
  InitStock = 2
  Run = {t1, t2}
  Timely = FALSE
  Faults = {}
INVARIANT
  CreatedStands
CHECK_DEADLOCK FALSE
