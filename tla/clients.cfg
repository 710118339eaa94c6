\* Two clients that lose answers, give up and try again.
CONSTANTS
  LeaseId = {l1, l2}
  Resource = {r1}
  Holder = {c1, c2}
  NoLease = NoLease
  NoResource = NoResource
  MaxInt64 = 100
  TTL = {1, 2}
  Token = {}
  MaxTime = 2
  MaxAudit = 3
  MaxOwed = 1
  BackwardClock = FALSE
  Op = {"acquire", "renew", "ttl_update", "heartbeat", "release", "transfer"}
  MaxFaults = 1
  MaxAdmin = 2
  Lockable = {}
SPECIFICATION ClientsSpec
SYMMETRY Symmetry
\* Nobody need send a request, and the bounds stop the run.
CHECK_DEADLOCK FALSE
INVARIANTS
  HolderIsProtected
