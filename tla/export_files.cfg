SPECIFICATION Spec
CONSTANTS
  Docs = {d1, d2, d3}
  Names = {n1, n2}
  NameOf <- Names12
  Apis = {a1}
  Gets = {g1}
  d1 = d1
  d2 = d2
  d3 = d3
  n1 = n1
  n2 = n2
  g1 = g1
  a1 = a1
  NoDoc = NoDoc
  Free = Free
  FaultKinds = {}
  MaxFaults = 0
INVARIANTS
  DownloadIsOwn
