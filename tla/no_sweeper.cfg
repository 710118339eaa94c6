\* Nothing in the running process sweeps by itself.
CONSTANTS
  LeaseId = {l1, l2}
  Resource = {r1}
  Holder = {h1}
  NoLease = NoLease
  NoResource = NoResource
  MaxInt64 = 100
  TTL = {1, 2}
  Token = {1, 2, 3}
  MaxTime = 2
  MaxAudit = 4
  MaxOwed = 1
  BackwardClock = FALSE
SPECIFICATION FairSpec
\* Nobody need send a request, and the bounds stop the run.
CHECK_DEADLOCK FALSE
PROPERTIES
  StaleEventuallyRetired
