\* Two clients that lose answers and try again, while administrators lock and
\* unlock the resource and the process is killed at any moment, under the fairness
\* of main's own recovery.  What a client could do with a lease is left out: one
\* property ends when a client has got it, the other is about one that nobody
\* ends.  The log has room for an acquire whatever comes before.  No symmetry:
\* both are liveness properties.
CONSTANTS
  LeaseId = {l1, l2, l3}
  Resource = {r1}
  Holder = {c1, c2}
  NoLease = NoLease
  NoResource = NoResource
  MaxInt64 = 100
  TTL = {1}
  Token = {}
  MaxTime = 1
  MaxAudit = 7
  MaxOwed = 1
  BackwardClock = FALSE
  Op = {"acquire"}
  MaxFaults = 1
  MaxAdmin = 2
  Lockable = {r1}
SPECIFICATION ClientsFairSpec
\* Nobody need send a request, and the bounds stop the run.
CHECK_DEADLOCK FALSE
PROPERTIES
  RetryIsGranted
  StaleRetiredAtRestart
