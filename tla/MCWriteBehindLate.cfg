\* A demonstration, with a counterexample: a write before the group exists; with
\* group first and Faults = {"redis"} it is a failed XDEL in a pipeline (README,
\* Observations).
SPECIFICATION Spec
CONSTANTS
  Entry = {e1, e2}
  Consumer = {k1}
  QueueMax = 2
  InFlight = 1
  Count = 2
  Timely = TRUE
  Faults = {}
INVARIANT
  NoneStranded
CHECK_DEADLOCK FALSE
