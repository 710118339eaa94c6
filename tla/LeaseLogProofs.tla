--------------------------- MODULE LeaseLogProofs ---------------------------
(***************************************************************************)
(* Theorems about the order of the audit log.  The log is compared with    *)
(* the counters: no row of a resource carries a larger token than its      *)
(* counter, and a grant carries the counter that its own step sets.        *)
(***************************************************************************)
EXTENDS LeaseManagerProofs

USE StoreAssumption, ManagerAssumption

-----------------------------------------------------------------------------
(* What a step appends *)

\* A row that grants nothing and whose token the counter has reached.
PlainRow ==
  {e \in AuditRow :
     /\ ~IsGrant(e)
     /\ e.resource \in Resource => e.fencing_token <= Counter(e.resource)}

GrantRow ==
  {e \in AuditRow :
     /\ IsGrant(e)
     /\ e.resource \in Resource
     /\ e.fencing_token = NextToken(e.resource)}

AppendsPlain == \E rows \in Seq(PlainRow) : Log(rows)

AppendsGrant(e) == \E rows \in Seq(PlainRow) : Log(rows \o <<e>>)

LEMMA LeaseToken ==
  ASSUME LeaseInv, NEW id \in DOMAIN leases
  PROVE  /\ id \in LeaseId
         /\ leases[id] \in LeaseRow
         /\ leases[id].resource \in Resource
         /\ leases[id].fencing_token \in Nat
         /\ leases[id].fencing_token <= Counter(leases[id].resource)
<1>1. /\ id \in LeaseId
      /\ leases[id] \in LeaseRow
      /\ leases[id].resource \in Resource
      /\ leases[id].fencing_token \in Nat
  BY DEF LeaseInv, TypeOK, LeaseRow
<1>2. /\ leases[id].resource \in DOMAIN resources
      /\ resources[leases[id].resource].fencing_token \in Nat
  BY DEF LeaseInv, TypeOK, LeaseHasRow, ResourceRow
<1>3. leases[id].fencing_token <= resources[leases[id].resource].fencing_token
  BY <1>1, <1>2 DEF LeaseInv, LeaseHasRow
<1> QED
  BY <1>1, <1>2, <1>3 DEF Counter, GetResource

\* The entry that describes an operation on a lease that keeps its token.
LEMMA LeaseEntryPlain ==
  ASSUME LeaseInv, NEW id \in DOMAIN leases, NEW action \in AuditAction,
         NEW detail \in Detail,
         action # "acquire", action = "transfer" => detail # "from"
  PROVE  LeaseEntry(action, id, leases[id], now, detail) \in PlainRow
<1> DEFINE e == LeaseEntry(action, id, leases[id], now, detail)
<1>1. /\ e.resource = leases[id].resource
      /\ e.fencing_token = leases[id].fencing_token
      /\ e.action = action
      /\ e.detail = detail
  BY DEF LeaseEntry, Entry
<1>2. e \in AuditRow
  BY LeaseToken, EntryType DEF LeaseInv, TypeOK
<1> HIDE DEF e
<1>3. ~IsGrant(e)
  BY <1>1 DEF IsGrant
<1>4. e.fencing_token <= Counter(e.resource)
  BY <1>1, LeaseToken
<1>5. e \in PlainRow
  BY <1>2, <1>3, <1>4 DEF PlainRow
<1> QED
  BY <1>5 DEF e

LEMMA SweepRowsPlain ==
  ASSUME LeaseInv, NEW ids \in SUBSET (DOMAIN leases),
         NEW order \in SweepOrders(ids)
  PROVE  SweepRows(order) \in Seq(PlainRow)
<1>1. order \in Seq(ids)
  BY OrderType DEF LeaseInv
<1>2. ASSUME NEW i \in DOMAIN order
      PROVE  LeaseEntry("sweep", order[i], leases[order[i]], now, "") \in PlainRow
  <2>1. order[i] \in DOMAIN leases
    BY <1>1
  <2> QED
    BY <2>1, LeaseEntryPlain DEF AuditAction, Detail
<1>3. PICK n \in Nat : DOMAIN order = 1 .. n
  BY <1>1
<1>4. SweepRows(order) \in [1 .. n -> PlainRow]
  BY <1>2, <1>3 DEF SweepRows
<1> QED
  BY <1>4

\* The row that AuditRecover and the lock methods write names no lease.
LEMMA OtherEntryPlain ==
  ASSUME LeaseInv, NEW r \in Resource \cup {NoResource},
         NEW action \in {"lock", "unlock", "recover"}
  PROVE  Entry(action, NoLease, r, 0, now, "") \in PlainRow
<1> DEFINE e == Entry(action, NoLease, r, 0, now, "")
<1>1. e \in AuditRow
  BY TimeType DEF LeaseInv, TypeOK, Entry, AuditRow, AuditAction, Detail
<1>2. e.resource = r /\ e.fencing_token = 0 /\ ~IsGrant(e)
  BY DEF Entry, IsGrant
<1>3. r \in Resource => Counter(r) \in Nat
  BY RowType DEF LeaseInv, Counter, ResourceRow
<1> HIDE DEF e
<1>4. e \in PlainRow
  BY <1>1, <1>2, <1>3 DEF PlainRow
<1> QED
  BY <1>4 DEF e

\* Acquire logs what it evicts, then its grant, and nothing else is granted.
LEMMA AcquireAppends ==
  ASSUME LeaseInv, NEW r \in Resource, NEW h \in Holder, NEW ttl \in TTL,
         NEW id \in LeaseId, Acquire(r, h, ttl, id)
  PROVE  /\ \E e \in GrantRow : /\ AppendsGrant(e)
                                /\ e.action = "acquire"
                                /\ e.lease_id = id
                                /\ e.resource = r
         /\ id \notin DOMAIN leases
         /\ id \in DOMAIN leases'
         /\ leases'[id].holder = h
<1> DEFINE lease == [resource |-> r, holder |-> h, fencing_token |-> NextToken(r),
                     acquired_at |-> now, ttl_seconds |-> ttl,
                     expires_at |-> Add64(now, ttl), last_heartbeat |-> now,
                     status |-> "active"]
           e == LeaseEntry("acquire", id, lease, now, "")
<1>1. lease \in LeaseRow
  <2>1. Add64(now, ttl) \in Int64 /\ ttl \in Int64 /\ now \in Int64
    BY DeadlineType, TimeType DEF Acquire, LeaseInv, TypeOK
  <2> QED
    BY <2>1, RowType DEF LeaseRow, Status, LeaseInv
<1>2. /\ e \in AuditRow
      /\ e.action = "acquire" /\ e.lease_id = id /\ e.resource = r
      /\ e.fencing_token = NextToken(r)
  BY <1>1, EntryType DEF LeaseInv, TypeOK, AuditAction, Detail, LeaseEntry, Entry
<1>3. PICK existing \in GetActiveLeaseByResource(r) :
        \E order \in SweepOrders(existing) :
          /\ leases' = InsertLease(
               SetLeaseStatus(leases, existing, "active", "expired"), id, lease)
          /\ Log(SweepRows(order) \o <<e>>)
  BY DEF Acquire
<1>4. PICK order \in SweepOrders(existing) :
        /\ leases' = InsertLease(
             SetLeaseStatus(leases, existing, "active", "expired"), id, lease)
        /\ Log(SweepRows(order) \o <<e>>)
  BY <1>3
<1>5. SweepRows(order) \in Seq(PlainRow)
  <2>1. existing \in SUBSET (DOMAIN leases)
    BY DEF GetActiveLeaseByResource, ActiveLeases
  <2> QED
    BY <2>1, SweepRowsPlain
<1>6. lease.holder = h /\ id \notin DOMAIN leases
  BY DEF Acquire
<1> HIDE DEF lease, e
<1>7. e \in GrantRow
  BY <1>2 DEF GrantRow, IsGrant
<1>8. AppendsGrant(e)
  BY <1>4, <1>5 DEF AppendsGrant
<1>9. id \in DOMAIN leases' /\ leases'[id] = lease
  BY <1>4 DEF InsertLease
<1> QED
  BY <1>2, <1>6, <1>7, <1>8, <1>9

LEMMA PairConcat ==
  ASSUME NEW S, NEW a \in S, NEW b \in S
  PROVE  <<a, b>> = <<a>> \o <<b>>
<1> DEFINE s == <<a>> \o <<b>>
<1>1. s \in Seq(S) /\ Len(s) = 2 /\ s[1] = a /\ s[2] = b
  OBVIOUS
<1> HIDE DEF s
<1>2. s = <<a, b>>
  <2> DEFINE t == <<a, b>>
  <2>1. t \in Seq(S) /\ Len(t) = 2 /\ t[1] = a /\ t[2] = b
    OBVIOUS
  <2> HIDE DEF t
  <2>2. s = t
    BY <1>1, <2>1
  <2> QED
    BY <2>2 DEF t
<1> QED
  BY <1>2 DEF s

\* Transfer logs the lease that it ends, then the one that it grants.
LEMMA TransferAppends ==
  ASSUME LeaseInv, NEW id \in LeaseId, NEW token, NEW newHolder \in Holder,
         NEW newID \in LeaseId, Transfer(id, token, newHolder, newID)
  PROVE  \E e \in GrantRow : /\ AppendsGrant(e)
                             /\ e.action = "transfer"
                             /\ e.lease_id = newID
                             /\ e.resource = leases[id].resource
<1> DEFINE old == leases[id]
           fresh == [old EXCEPT !.holder = newHolder,
                                !.fencing_token = NextToken(old.resource),
                                !.last_heartbeat = now]
           ended == LeaseEntry("transfer", id, old, now, "to")
           granted == LeaseEntry("transfer", newID, fresh, now, "from")
<1>1. id \in DOMAIN leases /\ old \in LeaseRow /\ old.resource \in Resource
  BY LeaseToken DEF Transfer, Usable, Presented
<1>2. NextToken(old.resource) \in Nat /\ now \in Int64
  BY <1>1, RowType, TimeType DEF LeaseInv, TypeOK
<1>3. /\ fresh \in LeaseRow
      /\ fresh.resource = old.resource
      /\ fresh.fencing_token = NextToken(old.resource)
  BY <1>1, <1>2 DEF LeaseRow
<1>4. Log(<<ended, granted>>)
  BY DEF Transfer
<1>5. ended \in PlainRow
  BY <1>1, LeaseEntryPlain DEF AuditAction, Detail
<1> HIDE DEF fresh
<1>6. /\ granted \in AuditRow
      /\ granted.action = "transfer" /\ granted.detail = "from"
      /\ granted.lease_id = newID
      /\ granted.resource = old.resource
      /\ granted.fencing_token = NextToken(old.resource)
  BY <1>3, EntryType DEF LeaseInv, TypeOK, AuditAction, Detail, LeaseEntry, Entry
<1> HIDE DEF ended, granted, old
<1>7. granted \in GrantRow
  BY <1>1, <1>6 DEF GrantRow, IsGrant
<1>8. <<ended>> \in Seq(PlainRow) /\ <<ended, granted>> = <<ended>> \o <<granted>>
  BY <1>5, <1>6, SeqType, PairConcat DEF PlainRow
<1>9. AppendsGrant(granted)
  BY <1>4, <1>8 DEF AppendsGrant
<1>10. /\ granted.action = "transfer" /\ granted.lease_id = newID
       /\ granted.resource = leases[id].resource
  BY <1>6 DEF old
<1> QED
  BY <1>7, <1>9, <1>10

\* No other step of the service logs an acquire; most grant nothing at all.
LogsGrant(action) ==
  \E e \in GrantRow : /\ AppendsGrant(e)
                      /\ e.action = action
                      /\ Counter(e.resource)' = e.fencing_token
                      /\ e.lease_id \notin DOMAIN leases
                      /\ DOMAIN leases' = DOMAIN leases \cup {e.lease_id}

GrantsNothing ==
  /\ UNCHANGED audit \/ AppendsPlain
  /\ DOMAIN leases' = DOMAIN leases

LEMMA GrantCounter ==
  ASSUME LeaseInv, NEW r \in Resource, NEW id,
         resources' = UpsertResourceFencing(resources, r, NextToken(r), id)
  PROVE  Counter(r)' = NextToken(r)
BY RowType DEF LeaseInv, UpsertResourceFencing, PutResource, Counter, GetResource,
               ResourceRow

LEMMA OneRowAppends ==
  ASSUME NEW e \in PlainRow, Log(<<e>>)
  PROVE  AppendsPlain
BY SeqType DEF AppendsPlain

LEMMA LeaseStepAppends ==
  ASSUME LeaseInv, AnyRequest
  PROVE  GrantsNothing \/ LogsGrant("transfer")
<1>0. PICK id \in LeaseId : \E token : RequestOf(id, token)
  BY DEF AnyRequest
<1>1. PICK token : RequestOf(id, token)
  BY <1>0
<1>2. id \in DOMAIN leases
  BY <1>1 DEF RequestOf, Renew, UpdateTTL, Heartbeat, Release, Transfer, Usable, Presented
<1>3. \A action \in {"renew", "ttl_update", "heartbeat", "release"} :
        LeaseEntry(action, id, leases[id], now, "") \in PlainRow
  BY <1>2, LeaseEntryPlain DEF AuditAction, Detail
<1>4. ASSUME NEW ttl \in TTL, Renew(id, token, ttl) \/ UpdateTTL(id, token, ttl)
      PROVE  GrantsNothing
  <2>1. AppendsPlain
    BY <1>3, <1>4, OneRowAppends DEF Renew, UpdateTTL, Extend
  <2>2. DOMAIN leases' = DOMAIN leases
    BY <1>4 DEF Renew, UpdateTTL, Extend, UpdateLeaseExpiry
  <2> QED
    BY <2>1, <2>2 DEF GrantsNothing
<1>5. CASE Heartbeat(id, token)
  <2>1. AppendsPlain
    BY <1>3, <1>5, OneRowAppends DEF Heartbeat
  <2>2. DOMAIN leases' = DOMAIN leases
    BY <1>5 DEF Heartbeat, UpdateLeaseHeartbeat
  <2> QED
    BY <2>1, <2>2 DEF GrantsNothing
<1>6. CASE Release(id, token)
  <2>1. UNCHANGED audit \/ AppendsPlain
    BY <1>3, <1>6, OneRowAppends DEF Release, Retire, vars, tables
  <2>2. DOMAIN leases' = DOMAIN leases
    BY <1>6 DEF Release, Retire, SetLeaseStatus, vars, tables
  <2> QED
    BY <2>1, <2>2 DEF GrantsNothing
<1>7. ASSUME NEW h \in Holder, NEW newID \in LeaseId, Transfer(id, token, h, newID)
      PROVE  LogsGrant("transfer")
  <2>1. PICK r \in Resource : r = leases[id].resource
    BY <1>2, LeaseToken
  <2>2. resources' = UpsertResourceFencing(resources, r, NextToken(r), newID)
    BY <1>7, <2>1 DEF Transfer
  <2>3. Counter(r)' = NextToken(r)
    BY <2>1, <2>2, GrantCounter
  <2>4. PICK e \in GrantRow :
          /\ AppendsGrant(e)
          /\ e.action = "transfer"
          /\ e.lease_id = newID
          /\ e.resource = leases[id].resource
    BY <1>7, TransferAppends
  <2>5. newID \notin DOMAIN leases /\ DOMAIN leases' = DOMAIN leases \cup {newID}
    BY <1>7 DEF Transfer, InsertLease, SetLeaseStatus
  <2> QED
    BY <2>1, <2>3, <2>4, <2>5 DEF LogsGrant, GrantRow
<1> QED
  BY <1>1, <1>4, <1>5, <1>6, <1>7 DEF RequestOf

LEMMA OtherStepAppends ==
  ASSUME LeaseInv,
         \/ AdminRequest \/ Sweep \/ Recover \/ AuditRecover
         \/ Restart \/ ClockForward \/ ClockBack \/ UNCHANGED vars
  PROVE  UNCHANGED audit \/ AppendsPlain
<1>1. CASE Restart \/ ClockForward \/ ClockBack \/ UNCHANGED vars
  BY <1>1 DEF Restart, ClockForward, ClockBack, vars, tables
<1>2. ASSUME NEW id \in LeaseId, ForceRelease(id)
      PROVE  UNCHANGED audit \/ AppendsPlain
  <2>1. LeaseEntry("force_release", id, leases[id], now, "") \in PlainRow
    BY <1>2, LeaseEntryPlain DEF ForceRelease, AuditAction, Detail
  <2> QED
    BY <1>2, <2>1, OneRowAppends DEF ForceRelease, Retire, vars, tables
<1>3. ASSUME NEW r \in Resource, LockResource(r) \/ UnlockResource(r)
      PROVE  UNCHANGED audit \/ AppendsPlain
  <2>1. \A action \in {"lock", "unlock"} :
          Entry(action, NoLease, r, 0, now, "") \in PlainRow
    BY OtherEntryPlain
  <2> QED
    BY <1>3, <2>1, OneRowAppends DEF LockResource, UnlockResource, SetLock, vars, tables
<1>4. CASE Sweep \/ Recover
  <2>1. SweepCommit(ListExpiredActive(now))
    BY <1>4 DEF Sweep, Recover
  <2>2. ListExpiredActive(now) \in SUBSET (DOMAIN leases)
    BY DEF ListExpiredActive
  <2>3. PICK order \in SweepOrders(ListExpiredActive(now)) : Log(SweepRows(order))
    BY <2>1 DEF SweepCommit
  <2>4. SweepRows(order) \in Seq(PlainRow)
    BY <2>2, SweepRowsPlain
  <2> QED
    BY <2>3, <2>4 DEF AppendsPlain
<1>5. CASE AuditRecover
  <2>1. Entry("recover", NoLease, NoResource, 0, now, "") \in PlainRow
    BY OtherEntryPlain
  <2> QED
    BY <1>5, <2>1, OneRowAppends DEF AuditRecover
<1> QED
  BY <1>1, <1>2, <1>3, <1>4, <1>5 DEF AdminRequest

LEMMA OtherGrantsNothing ==
  ASSUME LeaseInv,
         \/ AdminRequest \/ Sweep \/ Recover \/ AuditRecover
         \/ Restart \/ ClockForward \/ ClockBack \/ UNCHANGED vars
  PROVE  GrantsNothing
<1>1. DOMAIN leases' = DOMAIN leases
  <2>1. CASE AdminRequest
    BY <2>1 DEF AdminRequest, ForceRelease, LockResource, UnlockResource, SetLock, Retire,
                SetLeaseStatus, vars, tables
  <2>2. CASE Sweep \/ Recover
    BY <2>2 DEF Sweep, Recover, SweepCommit, SetLeaseStatus
  <2> QED
    BY <2>1, <2>2 DEF AuditRecover, Restart, ClockForward, ClockBack, vars, tables
<1> QED
  BY <1>1, OtherStepAppends DEF GrantsNothing

LEMMA AnyStepAppends ==
  ASSUME LeaseInv, [AnyNext]_vars
  PROVE  GrantsNothing \/ LogsGrant("transfer") \/ LogsGrant("acquire")
<1>1. ASSUME NEW r \in Resource, NEW h \in Holder, NEW ttl \in TTL, NEW id \in LeaseId,
             Acquire(r, h, ttl, id)
      PROVE  LogsGrant("acquire")
  <2>1. Counter(r)' = NextToken(r)
    BY <1>1, GrantCounter DEF Acquire
  <2>2. PICK e \in GrantRow : /\ AppendsGrant(e)
                              /\ e.action = "acquire"
                              /\ e.lease_id = id
                              /\ e.resource = r
    BY <1>1, AcquireAppends
  <2>3. id \notin DOMAIN leases /\ DOMAIN leases' = DOMAIN leases \cup {id}
    BY <1>1 DEF Acquire, InsertLease, SetLeaseStatus
  <2> QED
    BY <2>1, <2>2, <2>3 DEF LogsGrant, GrantRow
<1> QED
  BY <1>1, LeaseStepAppends, OtherGrantsNothing DEF AnyNext, AcquireRequest

-----------------------------------------------------------------------------
(* The counters bound the log *)

\* No row of a resource has a larger token than the counter of the resource
\* has now, and what is granted is a lease of some resource.
LogBelowCounters ==
  \A i \in DOMAIN audit :
    /\ audit[i].resource \in Resource =>
         audit[i].fencing_token <= Counter(audit[i].resource)
    /\ IsGrant(audit[i]) => audit[i].resource \in Resource

LogInv == LogBelowCounters /\ GrantTokensIncrease

LEMMA CountersMonotone ==
  ASSUME LeaseInv, [Next]_vars, NEW r \in Resource
  PROVE  Counter(r) \in Nat /\ Counter(r)' \in Nat /\ Counter(r) <= Counter(r)'
<1>1. Counter(r) \in Nat
  BY RowType DEF LeaseInv, Counter, ResourceRow
<1>2. Counter(r)' \in Nat
  <2>1. TypeOK'
    BY StepType DEF LeaseInv
  <2> QED
    BY <2>1 DEF TypeOK, Counter, GetResource, ResourceRow
<1>3. r \notin DOMAIN resources => Counter(r) = 0
  BY DEF Counter, GetResource
<1>4. CASE UNCHANGED resources
  BY <1>1, <1>4 DEF Counter
<1>5. CASE Keeps
  BY <1>1, <1>2, <1>5 DEF Keeps, Counter, GetResource
<1>6. ASSUME NEW gone, NEW status, Ends(gone, status)
      PROVE  Counter(r) <= Counter(r)'
  BY <1>1, <1>2, <1>6 DEF Ends, Counter, GetResource
<1>7. ASSUME NEW q \in Resource, NEW id, NEW row, NEW status, Grants(q, id, row, status)
      PROVE  Counter(r) <= Counter(r)'
  <2>1. resources' = UpsertResourceFencing(resources, q, NextToken(q), id)
    BY <1>7 DEF Grants
  <2>2. CASE q = r
    <3>1. Counter(r)' = NextToken(r)
      BY <2>1, <2>2, GrantCounter
    <3> QED
      BY <1>1, <3>1 DEF NextToken, Counter
  <2>3. CASE q # r
    BY <1>1, <2>1, <2>3 DEF UpsertResourceFencing, PutResource, Counter, GetResource
  <2> QED
    BY <2>2, <2>3
<1> QED
  BY <1>1, <1>2, <1>4, <1>5, <1>6, <1>7, StepShape DEF Shape, vars, tables

LEMMA LogFacts ==
  ASSUME LeaseInv, NEW rows \in Seq(AuditRow), Log(rows)
  PROVE  /\ audit' \in Seq(AuditRow)
         /\ Len(audit') = Len(audit) + Len(rows)
         /\ \A i \in DOMAIN audit : audit'[i] = audit[i]
         /\ \A i \in Len(audit) + 1 .. Len(audit') :
              /\ i - Len(audit) \in DOMAIN rows
              /\ audit'[i] = rows[i - Len(audit)]
<1>1. audit \in Seq(AuditRow) /\ audit' = audit \o rows
  BY DEF LeaseInv, TypeOK, Log
<1> QED
  BY <1>1

\* The log after a step: the old rows, new rows that grant nothing, and
\* possibly a grant as the very last.
LogGrows ==
  /\ audit' \in Seq(AuditRow)
  /\ Len(audit') >= Len(audit)
  /\ \A i \in DOMAIN audit : audit'[i] = audit[i]
  /\ \A i \in Len(audit) + 1 .. Len(audit') :
       \/ audit'[i] \in PlainRow
       \/ /\ i = Len(audit')
          /\ audit'[i] \in GrantRow
          /\ Counter(audit[i].resource)' = audit'[i].fencing_token

LEMMA PlainGrows ==
  ASSUME LeaseInv, AppendsPlain
  PROVE  LogGrows /\ \A i \in Len(audit) + 1 .. Len(audit') : audit'[i] \in PlainRow
<1>1. PICK rows \in Seq(PlainRow) : Log(rows)
  BY DEF AppendsPlain
<1>2. audit \in Seq(AuditRow) /\ rows \in Seq(AuditRow)
  BY <1>1 DEF LeaseInv, TypeOK, PlainRow
<1>3. /\ audit' \in Seq(AuditRow)
      /\ Len(audit') >= Len(audit)
      /\ \A i \in DOMAIN audit : audit'[i] = audit[i]
      /\ \A i \in Len(audit) + 1 .. Len(audit') :
           i - Len(audit) \in DOMAIN rows /\ audit'[i] = rows[i - Len(audit)]
  BY <1>1, <1>2, LogFacts
<1>4. \A i \in Len(audit) + 1 .. Len(audit') : audit'[i] \in PlainRow
  BY <1>1, <1>3
<1> QED
  BY <1>3, <1>4 DEF LogGrows

LEMMA GrantGrows ==
  ASSUME LeaseInv, NEW e \in GrantRow, AppendsGrant(e),
         Counter(e.resource)' = e.fencing_token
  PROVE  /\ LogGrows
         /\ Len(audit') > Len(audit)
         /\ audit'[Len(audit')] = e
         /\ \A i \in Len(audit) + 1 .. Len(audit') - 1 : audit'[i] \in PlainRow
<1>1. PICK rows \in Seq(PlainRow) : Log(rows \o <<e>>)
  BY DEF AppendsGrant
<1>2. audit \in Seq(AuditRow) /\ rows \in Seq(AuditRow) /\ <<e>> \in Seq(AuditRow)
  BY <1>1 DEF LeaseInv, TypeOK, PlainRow, GrantRow
<1> DEFINE new == rows \o <<e>>
<1>3. /\ new \in Seq(AuditRow)
      /\ Len(new) = Len(rows) + 1
      /\ \A i \in 1 .. Len(rows) : new[i] = rows[i]
      /\ new[Len(new)] = e
  BY <1>2
<1> HIDE DEF new
<1>4. Log(new)
  BY <1>1 DEF new
<1>5. /\ audit' \in Seq(AuditRow)
      /\ Len(audit') = Len(audit) + Len(new)
      /\ \A i \in DOMAIN audit : audit'[i] = audit[i]
      /\ \A i \in Len(audit) + 1 .. Len(audit') : audit'[i] = new[i - Len(audit)]
  BY <1>3, <1>4, LogFacts
<1>6. Len(audit) \in Nat /\ Len(rows) \in Nat /\ Len(new) \in Nat /\ Len(audit') \in Nat
  BY <1>2, <1>3, <1>5
<1>7. audit'[Len(audit')] = e /\ Len(audit') > Len(audit)
  BY <1>3, <1>5, <1>6
<1>8. ASSUME NEW i \in Len(audit) + 1 .. Len(audit') - 1
      PROVE  audit'[i] \in PlainRow
  <2>1. i - Len(audit) \in 1 .. Len(rows)
    BY <1>3, <1>5, <1>6
  <2>2. audit'[i] = rows[i - Len(audit)]
    BY <1>3, <1>5, <1>6, <2>1
  <2> QED
    BY <1>1, <2>1, <2>2
<1>9. \A i \in Len(audit) + 1 .. Len(audit') :
        i = Len(audit') \/ i \in Len(audit) + 1 .. Len(audit') - 1
  BY <1>6
<1>10. LogGrows
  BY <1>5, <1>7, <1>8, <1>9 DEF LogGrows
<1> QED
  BY <1>7, <1>8, <1>10

LEMMA AnyStepGrows ==
  ASSUME LeaseInv, [AnyNext]_vars
  PROVE  LogGrows
<1>1. CASE UNCHANGED audit
  BY <1>1 DEF LogGrows, LeaseInv, TypeOK
<1>2. CASE LogsGrant("transfer") \/ LogsGrant("acquire")
  BY <1>2, GrantGrows DEF LogsGrant
<1> QED
  BY <1>1, <1>2, PlainGrows, AnyStepAppends DEF GrantsNothing

LEMMA StepGrows ==
  ASSUME LeaseInv, [Next]_vars
  PROVE  LogGrows
BY AnyStepGrows, NextIsAny

LEMMA StepLog ==
  ASSUME LeaseInv, LogInv, [Next]_vars
  PROVE  LogInv'
<1>1. LogGrows
  BY StepGrows
<1>2. /\ audit \in Seq(AuditRow)
      /\ audit' \in Seq(AuditRow)
      /\ Len(audit) \in Nat /\ Len(audit') \in Nat
      /\ DOMAIN audit = 1 .. Len(audit)
      /\ DOMAIN audit' = 1 .. Len(audit')
  BY <1>1 DEF LogGrows, LeaseInv, TypeOK
<1>3. \A i \in DOMAIN audit' :
        \/ i \in DOMAIN audit /\ audit'[i] = audit[i]
        \/ i \in Len(audit) + 1 .. Len(audit')
  <2>1. \A i \in 1 .. Len(audit') :
          i \in 1 .. Len(audit) \/ i \in Len(audit) + 1 .. Len(audit')
    BY <1>2
  <2>2. \A i \in DOMAIN audit : audit'[i] = audit[i]
    BY <1>1 DEF LogGrows
  <2> QED
    BY <1>2, <2>1, <2>2, Zenon
<1>4. \A i \in DOMAIN audit' : audit'[i].fencing_token \in Nat
  <2>1. \A i \in DOMAIN audit' : audit'[i] \in AuditRow
    BY <1>2
  <2> QED
    BY <2>1 DEF AuditRow
<1>5. ASSUME NEW i \in DOMAIN audit'
      PROVE  /\ audit'[i].resource \in Resource =>
                  \/ audit'[i].fencing_token <= Counter(audit'[i].resource)
                  \/ i = Len(audit') /\ audit'[i] \in GrantRow
             /\ audit'[i].resource \in Resource =>
                  audit'[i].fencing_token <= Counter(audit[i].resource)'
             /\ IsGrant(audit'[i]) => audit'[i].resource \in Resource
  <2> DEFINE e == audit'[i]
  <2>1. ASSUME NEW r \in Resource, r = audit'[i].resource,
               audit'[i].fencing_token <= Counter(r)
        PROVE  audit'[i].fencing_token <= Counter(r)'
    BY <1>4, <2>1, CountersMonotone
  <2>2. CASE i \in DOMAIN audit /\ audit'[i] = audit[i]
    BY <2>1, <2>2 DEF LogInv, LogBelowCounters
  <2>3. CASE audit'[i] \in PlainRow
    BY <2>1, <2>3 DEF PlainRow
  <2>4. CASE /\ i = Len(audit')
             /\ audit'[i] \in GrantRow
             /\ Counter(audit[i].resource)' = audit'[i].fencing_token
    BY <1>4, <2>4 DEF GrantRow
  <2> QED
    BY <1>1, <1>3, <2>2, <2>3, <2>4 DEF LogGrows
<1>6. LogBelowCounters'
  BY <1>5 DEF LogBelowCounters
<1>7. ASSUME NEW i \in DOMAIN audit', NEW j \in DOMAIN audit', i < j,
             audit'[i].resource = audit'[j].resource, IsGrant(audit'[j])
      PROVE  audit'[i].fencing_token < audit'[j].fencing_token
  <2>1. CASE j \in DOMAIN audit
    <3>1. i \in DOMAIN audit
      BY <1>2, <1>7, <2>1
    <3>2. audit'[i] = audit[i] /\ audit'[j] = audit[j]
      BY <1>1, <2>1, <3>1 DEF LogGrows
    <3> QED
      BY <1>7, <2>1, <3>1, <3>2 DEF LogInv, GrantTokensIncrease
  <2>2. CASE j \in Len(audit) + 1 .. Len(audit')
    <3>1. j = Len(audit') /\ audit'[j] \in GrantRow
      BY <1>1, <1>7, <2>2 DEF LogGrows, PlainRow
    <3>2. PICK r \in Resource : r = audit'[j].resource
      BY <3>1 DEF GrantRow
    <3>3. audit'[j].fencing_token = Counter(r) + 1
      BY <3>1, <3>2 DEF GrantRow, NextToken, Counter
    <3>4. audit'[i].fencing_token <= Counter(r)
      BY <1>2, <1>5, <1>7, <3>1, <3>2
    <3>5. Counter(r) \in Nat
      BY CountersMonotone
    <3> QED
      BY <1>4, <3>3, <3>4, <3>5
  <2> QED
    BY <1>3, <2>1, <2>2
<1> QED
  BY <1>6, <1>7 DEF LogInv, GrantTokensIncrease

\* The tokens granted for a resource increase strictly along the log, and past
\* every row that was logged for the resource before.
THEOREM GrantsIncrease == Spec => []GrantTokensIncrease
<1>1. Init => LogInv
  BY DEF Init, EmptyStore, LogInv, LogBelowCounters, GrantTokensIncrease
<1>2. LeaseInv /\ LogInv /\ [Next]_vars => LogInv'
  BY StepLog
<1>3. LogInv => GrantTokensIncrease
  BY DEF LogInv
<1> QED
  BY <1>1, <1>2, <1>3, LeaseInvariant, PTL DEF Spec

=============================================================================
