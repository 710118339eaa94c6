\* now + ttl_seconds beyond the largest int64, here 3.
CONSTANTS
  LeaseId = {l1, l2}
  Resource = {r1}
  Holder = {h1}
  NoLease = NoLease
  NoResource = NoResource
  MaxInt64 = 3
  TTL = {1, 3}
  Token = {1, 2, 3}
  MaxTime = 2
  MaxAudit = 4
  MaxOwed = 1
  BackwardClock = FALSE
SPECIFICATION Spec
SYMMETRY Symmetry
\* Nobody need send a request, and the bounds stop the run.
CHECK_DEADLOCK FALSE
INVARIANTS
  DeadlineFromLastExtension
