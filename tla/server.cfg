\* Methods as the statements they run, with an error or a crash after any of
\* them, two requests at a time and main's recovery, all of which compete for
\* the connection.  No symmetry: one property is a liveness property.
CONSTANTS
  LeaseId = {l1, l2}
  Resource = {r1, r2}
  Holder = {h1}
  NoLease = NoLease
  NoResource = NoResource
  MaxInt64 = 100
  TTL = {1}
  Token = {1}
  MaxTime = 1
  MaxAudit = 3
  MaxOwed = 2
  BackwardClock = FALSE
  Caller = {c1, c2}
  Main = Main
SPECIFICATION ServerFairSpec
\* Nobody need send a request, and the bounds stop the run.
CHECK_DEADLOCK FALSE
INVARIANTS
  ServerTypeOK
  AuditInClockOrder
PROPERTIES
  MethodsAreAtomic
  EveryCallEnds
