SPECIFICATION Spec
CONSTANTS
  Docs = {d1}
  Workers = {w1}
  Apis = {a1}
  d1 = d1
  w1 = w1
  a1 = a1
  NoDoc = NoDoc
  NoHost = NoHost
  Backend = "s3"
  FaultKinds = {}
  MaxFaults = 0
INVARIANTS
  StoredFileIsFound
