\* A demonstration, with a counterexample: the late reserve (README, Observations).
SPECIFICATION Spec
CONSTANTS
  Gid = {g1}
  g1 = g1
  Qty <- MCQty
  InitStock = 2
  Run = {t1}
  Timely = TRUE
  Faults = {"kill"}
INVARIANT
  NothingKept
CHECK_DEADLOCK FALSE
