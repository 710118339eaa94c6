--------------------------- MODULE LeaseOutcomes ---------------------------
(***************************************************************************)
(* What a call answers: the checks of each method of Manager in the order  *)
(* of the code, and the HTTP status that the API makes of the result.  An  *)
(* action of LeaseManager is the step of a call that answers "ok".         *)
(***************************************************************************)
EXTENDS LeaseManager

Err == {"ErrConflict", "ErrNotFound", "ErrFencingMismatch", "ErrLeaseExpired",
        "ErrRenewTooEarly", "ErrTerminal", "ErrResourceLocked", "ErrTimeout",
        "other"}     \* "other": an invalid request, a database or context error

Outcome == {"ok"} \cup Err

\* The first of the checks that fails; checks is a sequence of pairs
\* <<passed, error>>.
FirstFailure(checks) ==
  LET failed == {i \in DOMAIN checks : ~checks[i][1]} IN
  IF failed = {}
  THEN "ok"
  ELSE checks[CHOOSE i \in failed : \A j \in failed : i <= j][2]

AcquireOutcome(r, ttl) ==
  FirstFailure(
    << <<ValidTTL(ttl), "other">>,
       <<~GetResource(resources, r).locked, "ErrResourceLocked">>,
       <<\A id \in ActiveLeases(r) : Evictable(leases[id]), "ErrConflict">> >>)

\* The lease as the checks after ErrNotFound see it.
Found(id) == id \in DOMAIN leases

PresentedChecks(id, token) ==
  << <<Found(id), "ErrNotFound">>,
     <<Presented(id, token), "ErrFencingMismatch">> >>

UsableChecks(id, token) ==
  PresentedChecks(id, token) \o
  << <<Found(id) => ~IsTerminal(leases[id].status), "ErrTerminal">>,
     <<Found(id) => Unexpired(leases[id]), "ErrLeaseExpired">> >>

\* Heartbeat and Transfer; a new holder is never empty in the runs.
UseOutcome(id, token) == FirstFailure(UsableChecks(id, token))

UpdateTTLOutcome(id, token, ttl) ==
  FirstFailure(<< <<ValidTTL(ttl), "other">> >> \o UsableChecks(id, token))

RenewOutcome(id, token, ttl) ==
  FirstFailure(
    << <<ValidTTL(ttl), "other">> >> \o UsableChecks(id, token) \o
    << <<Found(id) => InRenewWindow(leases[id]), "ErrRenewTooEarly">> >>)

ReleaseOutcome(id, token) == FirstFailure(PresentedChecks(id, token))

ForceReleaseOutcome(id) == FirstFailure(<< <<Found(id), "ErrNotFound">> >>)

\* writeManagerError, and 200 for a nil error.
HttpStatus ==
  [o \in Outcome |->
     CASE o = "ok" -> 200
       [] o = "ErrConflict" -> 409
       [] o = "ErrNotFound" -> 404
       [] o = "ErrFencingMismatch" -> 403
       [] o = "ErrResourceLocked" -> 423
       [] o = "ErrRenewTooEarly" -> 425
       [] o \in {"ErrLeaseExpired", "ErrTerminal"} -> 410
       [] o = "ErrTimeout" -> 504
       [] OTHER -> 400]

=============================================================================
