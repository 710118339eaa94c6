----------------------------- MODULE LeaseStore -----------------------------
(***************************************************************************)
(* The three SQLite tables of the lease service and the statements that    *)
(* internal/store runs on them.  A table is a function from its primary    *)
(* key to its row; a statement is an operator that returns the new table.  *)
(* Strings that the service only stores and compares (lease ids, resource  *)
(* and holder names) are elements of constant sets; the empty strings      *)
(* written to current_lease_id and to the audit columns are NoLease and    *)
(* NoResource.                                                             *)
(***************************************************************************)
EXTENDS Integers, Sequences, FiniteSets, SequencesExt

CONSTANTS
  LeaseId,      \* the ids newLeaseID can draw
  Resource,     \* resource names
  Holder,       \* holder names
  NoLease,      \* current_lease_id = ''
  NoResource,   \* resource column of an audit row that concerns none
  MaxInt64      \* largest value of a Go int64 (small in some runs)

ASSUME StoreAssumption ==
  /\ IsFiniteSet(LeaseId)
  /\ NoLease \notin LeaseId
  /\ NoResource \notin Resource
  /\ MaxInt64 \in Nat \ {0}

VARIABLES
  resources,    \* table resources: name -> row
  leases,       \* table leases: lease_id -> row
  audit         \* table audit, in the order of its AUTOINCREMENT id

tables == <<resources, leases, audit>>

Int64 == -(MaxInt64 + 1) .. MaxInt64

\* Go's a + b on int64 for operands that are not negative.
Add64(a, b) ==
  IF a + b > MaxInt64 THEN a + b - 2 * (MaxInt64 + 1) ELSE a + b

Terminal == {"released", "expired"}

Status == {"active"} \cup Terminal

IsTerminal(status) == status \in Terminal

LeaseRow ==
  [resource : Resource, holder : Holder, fencing_token : Nat,
   acquired_at : Int64, ttl_seconds : Int64, expires_at : Int64,
   last_heartbeat : Int64, status : Status]

ResourceRow ==
  [fencing_token : Nat, current_lease_id : LeaseId \cup {NoLease},
   locked : BOOLEAN]

AuditAction ==
  {"acquire", "renew", "release", "heartbeat", "sweep", "transfer",
   "force_release", "ttl_update", "lock", "unlock", "recover"}

\* The details a property tells apart; every other text is "".
Detail == {"", "to", "from"}

AuditRow ==
  [action : AuditAction, lease_id : LeaseId \cup {NoLease},
   resource : Resource \cup {NoResource}, fencing_token : Nat,
   at : Int64, detail : Detail]

EmptyStore ==
  /\ resources = [r \in {} |-> 0]
  /\ leases = [id \in {} |-> 0]
  /\ audit = <<>>

-----------------------------------------------------------------------------
(* Table resources *)

\* A missing row reads as the zero value of model.Resource.
GetResource(tbl, r) ==
  IF r \in DOMAIN tbl
  THEN tbl[r]
  ELSE [fencing_token |-> 0, current_lease_id |-> NoLease, locked |-> FALSE]

PutResource(tbl, r, row) ==
  [x \in DOMAIN tbl \cup {r} |-> IF x = r THEN row ELSE tbl[x]]

\* Faulty variant: ON CONFLICT also sets locked=excluded.locked.
UpsertResourceFencingUnlocks(tbl, r, newToken, currentLeaseID) ==
  PutResource(tbl, r,
    [fencing_token |-> newToken, current_lease_id |-> currentLeaseID,
     locked |-> FALSE])

\* INSERT with locked = 0, ON CONFLICT update the token and the lease only.
UpsertResourceFencing(tbl, r, newToken, currentLeaseID) ==
  PutResource(tbl, r,
    [GetResource(tbl, r) EXCEPT !.fencing_token = newToken,
                                !.current_lease_id = currentLeaseID])

\* Faulty variant: ON CONFLICT replaces the row.
SetResourceLockedResets(tbl, r, locked) ==
  PutResource(tbl, r,
    [fencing_token |-> 0, current_lease_id |-> NoLease, locked |-> locked])

\* INSERT with token 0 and no lease, ON CONFLICT update the flag only.
SetResourceLocked(tbl, r, locked) ==
  PutResource(tbl, r, [GetResource(tbl, r) EXCEPT !.locked = locked])

-----------------------------------------------------------------------------
(* Table leases *)

InsertLease(tbl, id, row) ==
  [x \in DOMAIN tbl \cup {id} |-> IF x = id THEN row ELSE tbl[x]]

ActiveLeases(r) ==
  {id \in DOMAIN leases :
     leases[id].resource = r /\ leases[id].status = "active"}

\* Faulty variant: the WHERE clause misses resource=?.
GetAnyActiveLease(r) ==
  LET active == {id \in DOMAIN leases : leases[id].status = "active"} IN
  IF active = {} THEN {{}} ELSE {{id} : id \in active}

\* What SELECT ... LIMIT 1 may return: no row when there is none, otherwise
\* any one of the active rows of the resource.
GetActiveLeaseByResource(r) ==
  IF ActiveLeases(r) = {} THEN {{}} ELSE {{id} : id \in ActiveLeases(r)}

\* Faulty variants: one second early; < for <=.
ListExpiringNext(cutoff) ==
  {id \in DOMAIN leases :
     leases[id].status = "active" /\ leases[id].expires_at <= cutoff + 1}

ListExpiredBefore(cutoff) ==
  {id \in DOMAIN leases :
     leases[id].status = "active" /\ leases[id].expires_at < cutoff}

ListExpiredActive(cutoff) ==
  {id \in DOMAIN leases :
     leases[id].status = "active" /\ leases[id].expires_at <= cutoff}

\* Faulty variant: the WHERE clause misses lease_id=?.
SetEveryLeaseStatus(tbl, ids, expectedOld, newStatus) ==
  [id \in DOMAIN tbl |->
     IF ids # {} /\ tbl[id].status = expectedOld
     THEN [tbl[id] EXCEPT !.status = newStatus]
     ELSE tbl[id]]

\* One guarded UPDATE per id of ids.
SetLeaseStatus(tbl, ids, expectedOld, newStatus) ==
  [id \in DOMAIN tbl |->
     IF id \in ids /\ tbl[id].status = expectedOld
     THEN [tbl[id] EXCEPT !.status = newStatus]
     ELSE tbl[id]]

UpdateLeaseExpiry(tbl, id, ttlSeconds, expiresAt, lastHeartbeat) ==
  [tbl EXCEPT ![id].ttl_seconds = ttlSeconds,
              ![id].expires_at = expiresAt,
              ![id].last_heartbeat = lastHeartbeat]

\* Faulty variant: the heartbeat starts the ttl anew.
UpdateLeaseHeartbeatExtends(tbl, id, lastHeartbeat) ==
  [tbl EXCEPT ![id].last_heartbeat = lastHeartbeat,
              ![id].expires_at = lastHeartbeat + tbl[id].ttl_seconds]

UpdateLeaseHeartbeat(tbl, id, lastHeartbeat) ==
  [tbl EXCEPT ![id].last_heartbeat = lastHeartbeat]

-----------------------------------------------------------------------------
(* Table audit *)

Entry(action, id, r, token, at, detail) ==
  [action |-> action, lease_id |-> id, resource |-> r,
   fencing_token |-> token, at |-> at, detail |-> detail]

\* manager.audit: an entry that describes an operation on the lease l.
LeaseEntry(action, id, l, at, detail) ==
  Entry(action, id, l.resource, l.fencing_token, at, detail)

=============================================================================
