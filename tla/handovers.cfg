\* Two resources and up to three leases, five rows besides sweeps and recoveries,
\* with less choice of times: histories long enough to lock, pass on, lose and
\* unlock, and sweeps that retire leases of both while what is done to one must
\* leave the other alone.
CONSTANTS
  LeaseId = {l1, l2, l3}
  Resource = {r1, r2}
  Holder = {h1}
  NoLease = NoLease
  NoResource = NoResource
  MaxInt64 = 100
  TTL = {1}
  Token = {0, 1, 2, 3}
  MaxTime = 1
  MaxAudit = 5
  MaxOwed = 1
  BackwardClock = TRUE
SPECIFICATION Spec
SYMMETRY Symmetry
\* Nobody need send a request, and the bounds stop the run.
CHECK_DEADLOCK FALSE
INVARIANTS
  CurrentLease
  TokenLedger
  AuditReplays
  GrantTokensIncrease
  LockGate
PROPERTIES
  HandOverRaisesCounter
  FencedSpec
