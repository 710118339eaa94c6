\* Requests that wait for one resource, with timeouts and intervals below and
\* above each other, among other clients, restarts and a clock that is set.  A
\* timeout of 98 wraps the deadline of a request that arrives at second 3.  No
\* symmetry: two properties are liveness properties.
CONSTANTS
  LeaseId = {l1, l2}
  Resource = {r1}
  Holder = {w1, h1}
  NoLease = NoLease
  NoResource = NoResource
  MaxInt64 = 100
  TTL = {0, 2}
  Token = {1}
  MaxTime = 3
  MaxAudit = 100
  MaxOwed = 1
  BackwardClock = TRUE
  Waiter = {w1}
  TimeoutSecs = {0, 1, 98}
  PollInterval = {0, 2}
  DefaultTimeout = 2
  Second = 1
  OthersAudit = 2
SPECIFICATION WaitFairSpec
\* Nobody need send a request, and the bounds stop the run.
CHECK_DEADLOCK FALSE
INVARIANTS
  WaitTypeOK
  WaitAcquiresOnce
  AnsweredInTime
PROPERTIES
  WaitReturns
  AbandonedNeverAcquires
