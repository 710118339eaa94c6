---------------------------- MODULE LeaseManager ----------------------------
(***************************************************************************)
(* internal/lease: the mutating methods of Manager, their startup caller   *)
(* in main.go and the admin and system endpoints that reach them.          *)
(*                                                                         *)
(* A method is one action.  Store.Open keeps a single connection and every *)
(* BEGIN is BEGIN IMMEDIATE, so a method holds the database from its first *)
(* read to its commit and reads the clock in between; a method that        *)
(* returns an error rolls back and is a stuttering step.  Recover is the   *)
(* exception, two transactions, and is two actions.                        *)
(***************************************************************************)
EXTENDS LeaseStore

CONSTANTS
  TTL,            \* ttl_seconds values that requests carry, valid or not
  Token,          \* fencing_token values that requests carry
  MaxTime,        \* bound: the clock reads 0 .. MaxTime
  MaxAudit,       \* bound: client requests stop at this many audit rows
  MaxOwed,        \* bound: recovery passes under way at the same time
  BackwardClock   \* whether the wall clock may step back

Time == 0 .. MaxTime

ASSUME ManagerAssumption ==
  /\ TTL \subseteq Int64
  /\ Token \subseteq Nat
  /\ MaxTime \in 0 .. MaxInt64
  /\ MaxAudit \in Nat
  /\ MaxOwed \in Nat \ {0}
  /\ BackwardClock \in BOOLEAN

VARIABLES
  now,      \* what RealClock.Now returns
  phase,    \* "starting" until main's Recover returns, then "serving"
  owed      \* Recover calls whose sweep expired rows and committed, and whose
            \* auditRecover has not been tried yet

process == <<phase, owed>>

vars == <<tables, now, process>>

Init ==
  /\ EmptyStore
  /\ now \in Time
  /\ phase = "starting"
  /\ owed = 0

-----------------------------------------------------------------------------
(* What the handlers share *)

\* The listener is up, and the run has room for one more audit row.
Accepting == phase = "serving" /\ Len(audit) < MaxAudit

Log(rows) == audit' = audit \o rows

\* Faulty variants: the counter goes down; it stands still.
NextTokenDown(r) == GetResource(resources, r).fencing_token - 1

NextTokenSame(r) == GetResource(resources, r).fencing_token

\* res.FencingToken + 1, on the row read in the same transaction.
NextToken(r) == GetResource(resources, r).fencing_token + 1

\* The check on ttl_seconds of Acquire, Renew and UpdateTTL.
ValidTTL(ttl) == ttl > 0

\* Faulty variant: what has expired is left to a sweeper.
EvictableBySweeper(l) == FALSE

\* existing.ExpiresAt > now is the refusal: at its last second a lease is
\* already free for the next Acquire, and for Sweep.
Evictable(l) == l.expires_at <= now

\* now > l.ExpiresAt is the refusal: a lease is usable at its last second.
Unexpired(l) == now <= l.expires_at

\* The checks that every token-authenticated method makes first.
Presented(id, token) ==
  /\ id \in DOMAIN leases
  /\ leases[id].fencing_token = token

\* Faulty variants: no check of the deadline; no IsTerminal check.
UsableWhenExpired(id, token) ==
  Presented(id, token) /\ ~IsTerminal(leases[id].status)

UsableWhenTerminal(id, token) == Presented(id, token) /\ Unexpired(leases[id])

Usable(id, token) ==
  /\ Presented(id, token)
  /\ ~IsTerminal(leases[id].status)
  /\ Unexpired(leases[id])

\* int64(float64(ttl) * RenewWindowFraction), exact below 2^53.
RenewThreshold(l) == l.ttl_seconds \div 2

InRenewWindow(l) == l.expires_at - now <= RenewThreshold(l)

Extend(id, ttl, action) ==
  /\ ValidTTL(ttl)
  /\ leases' = UpdateLeaseExpiry(leases, id, ttl, Add64(now, ttl), now)
  /\ Log(<<LeaseEntry(action, id, leases[id], now, "")>>)
  /\ UNCHANGED <<resources, now, process>>

\* Faulty variants, for mutation runs: the UPDATE forgets the + 1; it forgets
\* to clear current_lease_id.
FreeResourceSameToken(r) ==
  UpsertResourceFencing(resources, r, GetResource(resources, r).fencing_token, NoLease)

FreeResourceKeepsLease(r) ==
  UpsertResourceFencing(resources, r, NextToken(r),
                        GetResource(resources, r).current_lease_id)

\* The resource row of a retired lease: counter + 1, no current lease.
FreeResource(r) == UpsertResourceFencing(resources, r, NextToken(r), NoLease)

\* active -> released, and one audit row with the token that it had.
Retire(id, action) ==
  /\ leases' = SetLeaseStatus(leases, {id}, "active", "released")
  /\ resources' = FreeResource(leases[id].resource)
  /\ Log(<<LeaseEntry(action, id, leases[id], now, "")>>)
  /\ UNCHANGED <<now, process>>

\* The orders in which ORDER BY expires_at may list the leases of ids.
SweepOrders(ids) ==
  {s \in SetToSeqs(ids) :
     \A i, j \in DOMAIN s :
       i < j => leases[s[i]].expires_at <= leases[s[j]].expires_at}

\* Faulty variant: the InsertAudit of an eviction or a sweep is missing.
NoSweepRows(order) == <<>>

\* Their audit rows, which carry the lease as it was read.
SweepRows(order) ==
  [i \in DOMAIN order |->
     LeaseEntry("sweep", order[i], leases[order[i]], now, "")]

-----------------------------------------------------------------------------
(* Client requests *)

Acquire(r, h, ttl, id) ==
  LET lease == [resource |-> r, holder |-> h, fencing_token |-> NextToken(r),
                acquired_at |-> now, ttl_seconds |-> ttl,
                expires_at |-> Add64(now, ttl), last_heartbeat |-> now,
                status |-> "active"]
  IN
  /\ Accepting
  /\ ValidTTL(ttl)
  /\ ~GetResource(resources, r).locked
  /\ id \notin DOMAIN leases
  /\ \E existing \in GetActiveLeaseByResource(r) :
     \E order \in SweepOrders(existing) :
       /\ \A old \in existing : Evictable(leases[old])
       /\ leases' = InsertLease(
            SetLeaseStatus(leases, existing, "active", "expired"), id, lease)
       /\ Log(SweepRows(order) \o <<LeaseEntry("acquire", id, lease, now, "")>>)
  /\ resources' = UpsertResourceFencing(resources, r, NextToken(r), id)
  /\ UNCHANGED <<now, process>>

Renew(id, token, ttl) ==
  /\ Accepting
  /\ Usable(id, token)
  /\ InRenewWindow(leases[id])
  /\ Extend(id, ttl, "renew")

UpdateTTL(id, token, ttl) ==
  /\ Accepting
  /\ Usable(id, token)
  /\ Extend(id, ttl, "ttl_update")

Heartbeat(id, token) ==
  /\ Accepting
  /\ Usable(id, token)
  /\ leases' = UpdateLeaseHeartbeat(leases, id, now)
  /\ Log(<<LeaseEntry("heartbeat", id, leases[id], now, "")>>)
  /\ UNCHANGED <<resources, now, process>>

\* Idempotent: nothing changes on a terminal lease.
Release(id, token) ==
  /\ Accepting
  /\ Presented(id, token)
  /\ \/ IsTerminal(leases[id].status) /\ UNCHANGED vars
     \/ ~IsTerminal(leases[id].status) /\ Retire(id, "release")

\* The fresh lease keeps acquired_at, ttl_seconds and expires_at of the old.
Transfer(id, token, newHolder, newID) ==
  LET old == leases[id]
      fresh == [old EXCEPT !.holder = newHolder,
                           !.fencing_token = NextToken(old.resource),
                           !.last_heartbeat = now]
  IN
  /\ Accepting
  /\ Usable(id, token)
  /\ newID \notin DOMAIN leases
  /\ leases' = InsertLease(
       SetLeaseStatus(leases, {id}, "active", "released"), newID, fresh)
  /\ resources' = UpsertResourceFencing(
       resources, old.resource, NextToken(old.resource), newID)
  /\ Log(<<LeaseEntry("transfer", id, old, now, "to"),
           LeaseEntry("transfer", newID, fresh, now, "from")>>)
  /\ UNCHANGED <<now, process>>

-----------------------------------------------------------------------------
(* Admin requests *)

ForceRelease(id) ==
  /\ Accepting
  /\ id \in DOMAIN leases
  /\ \/ IsTerminal(leases[id].status) /\ UNCHANGED vars
     \/ ~IsTerminal(leases[id].status) /\ Retire(id, "force_release")

\* found && r.Locked, or found && !r.Locked: already as asked.
AlreadyLocked(r, locked) ==
  r \in DOMAIN resources /\ resources[r].locked = locked

SetLock(r, locked, action) ==
  /\ Accepting
  /\ \/ AlreadyLocked(r, locked) /\ UNCHANGED vars
     \/ /\ ~AlreadyLocked(r, locked)
        /\ resources' = SetResourceLocked(resources, r, locked)
        /\ Log(<<Entry(action, NoLease, r, 0, now, "")>>)
        /\ UNCHANGED <<leases, now, process>>

LockResource(r) == SetLock(r, TRUE, "lock")

UnlockResource(r) == SetLock(r, FALSE, "unlock")

-----------------------------------------------------------------------------
(* Sweep and recovery *)

\* The transaction of Sweep on the leases that ListExpiredActive returned.
SweepCommit(expired) ==
  LET on(r) == {id \in expired : leases[id].resource = r} IN
  /\ leases' = SetLeaseStatus(leases, expired, "active", "expired")
  /\ resources' =
       [r \in DOMAIN resources \cup {leases[id].resource : id \in expired} |->
          IF on(r) = {}
          THEN resources[r]
          ELSE [GetResource(resources, r) EXCEPT
                  !.fencing_token = @ + Cardinality(on(r)),
                  !.current_lease_id = NoLease]]
  /\ \E order \in SweepOrders(expired) : Log(SweepRows(order))
  /\ UNCHANGED now

Sweep ==
  /\ phase = "serving"
  /\ SweepCommit(ListExpiredActive(now))
  /\ UNCHANGED process

\* main calls Recover once before it listens; POST /admin/recover calls it
\* while the server runs.  The first transaction is a Sweep; auditRecover is
\* owed only when something expired, else main goes on to listen.
Recover ==
  LET expired == ListExpiredActive(now) IN
  /\ owed < (IF phase = "starting" THEN 1 ELSE MaxOwed)
  /\ SweepCommit(expired)
  /\ IF expired = {}
     THEN phase' = "serving" /\ UNCHANGED owed
     ELSE owed' = owed + 1 /\ UNCHANGED phase

\* auditRecover's own transaction; Recover ignores the error if it fails.
AuditRecover ==
  /\ owed > 0
  /\ owed' = owed - 1
  /\ phase' = "serving"
  /\ \/ Log(<<Entry("recover", NoLease, NoResource, 0, now, "")>>)
     \/ UNCHANGED audit
  /\ UNCHANGED <<resources, leases, now>>

-----------------------------------------------------------------------------
(* The environment *)

\* The process dies or is stopped and main starts again on the same file: an
\* open transaction is rolled back, a committed one is kept.
Restart ==
  /\ phase' = "starting"
  /\ owed' = 0
  /\ UNCHANGED <<tables, now>>

\* time.Now().Unix() is the wall clock: it jumps, and steps back when it is set.
ClockForward == \E t \in Time : t > now /\ now' = t /\ UNCHANGED <<tables, process>>

ClockBack ==
  /\ BackwardClock
  /\ \E t \in Time : t < now /\ now' = t
  /\ UNCHANGED <<tables, process>>

-----------------------------------------------------------------------------

LeaseRequest ==
  \E id \in LeaseId, token \in Token :
    \/ \E ttl \in TTL : Renew(id, token, ttl) \/ UpdateTTL(id, token, ttl)
    \/ Heartbeat(id, token)
    \/ Release(id, token)
    \/ \E h \in Holder, newID \in LeaseId : Transfer(id, token, h, newID)

AcquireRequest ==
  \E r \in Resource, h \in Holder, ttl \in TTL, id \in LeaseId :
    Acquire(r, h, ttl, id)

AdminRequest ==
  \/ \E id \in LeaseId : ForceRelease(id)
  \/ \E r \in Resource : LockResource(r) \/ UnlockResource(r)

Next ==
  \/ AcquireRequest
  \/ LeaseRequest
  \/ AdminRequest
  \/ Sweep
  \/ Recover
  \/ AuditRecover
  \/ Restart
  \/ ClockForward
  \/ ClockBack

Spec == Init /\ [][Next]_vars

\* main runs Recover, both transactions of it, without anyone asking.  No
\* goroutine sweeps, renews or unlocks: nothing else is fair.
StartupRecover == phase = "starting" /\ (Recover \/ AuditRecover)

FairSpec == Spec /\ WF_vars(StartupRecover)

=============================================================================
