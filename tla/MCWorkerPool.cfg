SPECIFICATION FairSpec
CONSTANTS
  Worker = {w1, w2}
  Job = {j1, j2, j3, j4}
  NoJob = NoJob
  QueueMax = 1
  Faults = {"throw", "exit"}
INVARIANTS
  SlotsMatchPending
  WorkConserving
PROPERTIES
  RejectedByItsOwnDeath
  EveryJobSettles
  RefinesQueue
CHECK_DEADLOCK FALSE
