\* A request sleeps on for a client that has closed the connection.
CONSTANTS
  LeaseId = {l1, l2, l3}
  Resource = {r1}
  Holder = {w1, h1}
  NoLease = NoLease
  NoResource = NoResource
  MaxInt64 = 100
  TTL = {2}
  Token = {1}
  MaxTime = 4
  MaxAudit = 100
  MaxOwed = 1
  BackwardClock = FALSE
  Waiter = {w1}
  TimeoutSecs = {0, 1}
  PollInterval = {0, 2}
  DefaultTimeout = 3
  Second = 1
  OthersAudit = 2
SPECIFICATION WaitSpec
SYMMETRY Symmetry
\* Nobody need send a request, and the bounds stop the run.
CHECK_DEADLOCK FALSE
PROPERTIES
  NoSleepingPollLeft
