SPECIFICATION FairSpec
CONSTANTS
  Api = {a1, a2}
  Post = {p1}
  NoApi = NoApi
  MaxAttempts = 2
  Faults = {"db", "redis", "kill"}
INVARIANTS
  ShowsThePast
  SeededOnce
  ServesVisible
  SequentialReads
PROPERTIES
  StartEnds
  Converges
CHECK_DEADLOCK FALSE
