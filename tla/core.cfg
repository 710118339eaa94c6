\* One resource, three leases, two lengths of lease and one that is refused:
\* every order of acquiring, extending, losing and passing on a lease, with
\* restarts and a clock that may step back.
CONSTANTS
  LeaseId = {l1, l2, l3}
  Resource = {r1}
  Holder = {h1}
  NoLease = NoLease
  NoResource = NoResource
  MaxInt64 = 100
  TTL = {0, 1, 2}
  Token = {0, 1, 2, 3}
  MaxTime = 2
  MaxAudit = 4
  MaxOwed = 1
  BackwardClock = TRUE
SPECIFICATION Spec
SYMMETRY Symmetry
\* Nobody need send a request, and the bounds stop the run.
CHECK_DEADLOCK FALSE
INVARIANTS
  TypeOK
  LeaseInv
  DeadlineFromLastExtension
PROPERTIES
  TerminalRowsFrozen
  LiveLeaseSurvives
  StartupServesNothingStale
