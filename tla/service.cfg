SPECIFICATION FairSpec
CONSTANTS
  a1 = a1
  a2 = a2
  w1 = w1
  r1 = r1
  r2 = r2
  Nobody = Nobody
  Procs = {a1, a2, w1}
  Apis = {a1, a2}
  Requests = {r1, r2}
  Buckets <- Bounds
  Durations <- Times
  MaxFaults = 2
INVARIANTS
  StartInv
  RaceIsLostOnce
  MetricsMatchAnswers
PROPERTIES
  AllServe
CHECK_DEADLOCK FALSE
