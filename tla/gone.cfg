\* A client that loses answers, gives up and tries again, while the clock may be
\* set back.
CONSTANTS
  LeaseId = {l1, l2}
  Resource = {r1}
  Holder = {c1}
  NoLease = NoLease
  NoResource = NoResource
  MaxInt64 = 100
  TTL = {1}
  Token = {}
  MaxTime = 2
  MaxAudit = 3
  MaxOwed = 1
  BackwardClock = TRUE
  Op = {"acquire", "renew", "ttl_update", "heartbeat", "release", "transfer"}
  MaxFaults = 1
  MaxAdmin = 1
  Lockable = {r1}
SPECIFICATION ClientsSpec
SYMMETRY Symmetry
\* Nobody need send a request, and the bounds stop the run.
CHECK_DEADLOCK FALSE
PROPERTIES
  GoneIsFinal
