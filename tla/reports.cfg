\* Reports that are read while other requests go on.
CONSTANTS
  LeaseId = {l1, l2}
  Resource = {r1, r2}
  Holder = {h1, h2}
  NoLease = NoLease
  NoResource = NoResource
  MaxInt64 = 100
  TTL = {2}
  Token = {1, 2}
  MaxTime = 2
  MaxAudit = 3
  MaxOwed = 1
  BackwardClock = FALSE
SPECIFICATION ReportsSpec
SYMMETRY Symmetry
\* Nobody need send a request, and the bounds stop the run.
CHECK_DEADLOCK FALSE
INVARIANTS
  StatsAddUp
  NewestFirst
PROPERTIES
  AdviceMirrorsRenew
  BundleLagsOnly
  HolderReportBetween
