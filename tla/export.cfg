SPECIFICATION Spec
CONSTANTS
  Docs = {d1, d2, d3}
  Names = {n1, n2}
  NameOf <- Names12
  Apis = {a1, a2}
  Gets = {g1}
  d1 = d1
  d2 = d2
  d3 = d3
  n1 = n1
  n2 = n2
  g1 = g1
  a1 = a1
  a2 = a2
  NoDoc = NoDoc
  Free = Free
  FaultKinds = {"write", "crash"}
  MaxFaults = 2
INVARIANTS
  ExportInv
  AcknowledgedIsThere
  BreakageHasCause
  OwnNameOwnDownload
