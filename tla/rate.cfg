SPECIFICATION Spec
CONSTANTS
  Clients = {c1}
  Apis = {a1,a2}
  c1 = c1
  a1 = a1
  a2 = a2
  Conns = 1
  Limit = 2
  Window = 3
  FaultKinds = {"incr", "incr_reply", "expire", "expire_reply", "crash", "redis_loss"}
  MaxFaults = 2
SYMMETRY Symmetry
INVARIANTS
  RateInv
  RetryAfterHonest
  AdmissionInv
  GrantsBounded
  AdmissionsBounded
