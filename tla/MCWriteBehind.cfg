SPECIFICATION FairSpec
CONSTANTS
  Entry = {e1, e2, e3}
  Consumer = {k1}
  QueueMax = 1
  InFlight = 2
  Count = 2
  Timely = TRUE
  Faults = {"db", "redis", "kill"}
INVARIANTS
  AcceptedIsKept
  Backpressure
  OneOwner
PROPERTIES
  DepthInvariant
  Drains
  RefinesBuffer
CHECK_DEADLOCK FALSE
