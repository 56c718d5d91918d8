SPECIFICATION Spec
CONSTANTS
  a1 = a1
  r1 = r1
  Nobody = Nobody
  Procs = {a1}
  Apis = {a1}
  Requests = {r1}
  Buckets <- Bounds
  Durations <- Times
  MaxFaults = 0
INVARIANTS
  ErrorsAreCounted
CHECK_DEADLOCK FALSE
