\* A power loss at any moment: the tables go back to an earlier commit together.
CONSTANTS
  LeaseId = {l1, l2, l3}
  Resource = {r1}
  Holder = {h1}
  NoLease = NoLease
  NoResource = NoResource
  MaxInt64 = 100
  TTL = {1}
  Token = {1, 2, 3}
  MaxTime = 1
  MaxAudit = 5
  MaxOwed = 1
  BackwardClock = FALSE
SPECIFICATION DurabilitySpec
SYMMETRY Symmetry
\* Nobody need send a request, and the bounds stop the run.
CHECK_DEADLOCK FALSE
PROPERTIES
  DiskTokensNotReissued
