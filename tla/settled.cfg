SPECIFICATION FairSpec
CONSTANTS
  Docs = {d1,d2}
  Workers = {w1,w2,w3}
  Apis = {a1}
  d1 = d1
  d2 = d2
  w1 = w1
  w2 = w2
  w3 = w3
  a1 = a1
  NoDoc = NoDoc
  NoHost = NoHost
  Backend = "local"
  FaultKinds = {"save", "lpush", "brpop", "no_redis", "signal"}
  MaxFaults = 2
PROPERTIES
  AcceptedIsSettled
