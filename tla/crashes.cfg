SPECIFICATION Spec
CONSTANTS
  Docs = {d1,d2}
  Workers = {w1,w2}
  Apis = {a1,a2}
  d1 = d1
  d2 = d2
  w1 = w1
  w2 = w2
  a1 = a1
  a2 = a2
  NoDoc = NoDoc
  NoHost = NoHost
  Backend = "local"
  FaultKinds = {"save", "db", "db_reply", "lpush", "lpush_reply", "brpop", "brpop_reply", "no_redis", "signal", "worker_crash", "api_crash", "redis_loss"}
  MaxFaults = 2
SYMMETRY Symmetry
INVARIANTS
  FaultInv
  RowHasFile
  JobHasRow
  SingleOwner
  ResultMatchesStatus
  RowsAreTracked
  LossBoundedByFaults
  CompletedHasRecords
  GaugeMatchesActive
  CountersMatchDocs
PROPERTIES
  RefinesLifecycle
