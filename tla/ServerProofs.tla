---------------------------- MODULE ServerProofs ----------------------------
(***************************************************************************)
(* Theorems about LeaseServer: run statement by statement over the one     *)
(* connection, with errors, rollbacks and crashes anywhere in between, the *)
(* service still does what LeaseManager says it does in single steps, so   *)
(* that every theorem about Spec holds of it too.                          *)
(*                                                                         *)
(* The invariant says of an open transaction where it will end: Leads      *)
(* links its view of the tables, through the statements it has yet to run, *)
(* to the tables it will commit, and Goal says that these are what some    *)
(* method of LeaseManager makes of the committed ones.                     *)
(***************************************************************************)
EXTENDS LeaseServer, LeaseHistoryProofs

USE ServerAssumption

-----------------------------------------------------------------------------
(* Statements *)

DB(r, l, a) == [resources |-> r, leases |-> l, audit |-> a]

\* What each statement does to the three tables.
LEMMA RunStatus ==
  ASSUME NEW r, NEW l, NEW a, NEW id, NEW new
  PROVE  Run(DB(r, l, a), SetStatus(id, new)) =
           DB(r, SetLeaseStatus(l, {id}, "active", new), a)
BY DEF Run, DB, SetStatus

LEMMA RunInsert ==
  ASSUME NEW r, NEW l, NEW a, NEW id, NEW row
  PROVE  Run(DB(r, l, a), PutLease(id, row)) = DB(r, InsertLease(l, id, row), a)
BY DEF Run, DB, PutLease

LEMMA RunExpiry ==
  ASSUME NEW r, NEW l, NEW a, NEW id, NEW ttl
  PROVE  Run(DB(r, l, a), SetExpiry(id, ttl)) =
           DB(r, UpdateLeaseExpiry(l, id, ttl, Add64(now, ttl), now), a)
BY DEF Run, DB, SetExpiry

LEMMA RunBeat ==
  ASSUME NEW r, NEW l, NEW a, NEW id
  PROVE  Run(DB(r, l, a), Beat(id)) = DB(r, UpdateLeaseHeartbeat(l, id, now), a)
BY DEF Run, DB, Beat

LEMMA RunUpsert ==
  ASSUME NEW r, NEW l, NEW a, NEW name, NEW token, NEW id
  PROVE  Run(DB(r, l, a), Upsert(name, token, id)) =
           DB(UpsertResourceFencing(r, name, token, id), l, a)
BY DEF Run, DB, Upsert

LEMMA RunFree ==
  ASSUME NEW r, NEW l, NEW a, NEW name
  PROVE  Run(DB(r, l, a), FreeRow(name)) =
           DB(UpsertResourceFencing(r, name, GetResource(r, name).fencing_token + 1, NoLease),
              l, a)
BY DEF Run, DB, FreeRow

LEMMA RunFlag ==
  ASSUME NEW r, NEW l, NEW a, NEW name, NEW b
  PROVE  Run(DB(r, l, a), SetFlag(name, b)) = DB(SetResourceLocked(r, name, b), l, a)
BY DEF Run, DB, SetFlag

\* The log b is the log a and the row e.
Appended(a, e, b) == b = a \o <<e>> /\ \E S : a \in Seq(S)

LEMMA RunAudit ==
  ASSUME NEW r, NEW l, NEW a, NEW row, NEW b, Appended(a, row, b)
  PROVE  Run(DB(r, l, a), AddAudit(row)) = DB(r, l, b)
<1>1. Run(DB(r, l, a), AddAudit(row)) = DB(r, l, Append(a, row))
  BY DEF Run, DB, AddAudit
<1>2. Append(a, row) = b
  BY DEF Appended
<1> QED
  BY <1>1, <1>2

LEMMA LogAssociates ==
  ASSUME NEW S, NEW s \in Seq(S), NEW t \in Seq(S), NEW u \in Seq(S)
  PROVE  (s \o t) \o u = s \o (t \o u)
OBVIOUS

LEMMA TwoMore ==
  ASSUME NEW S, NEW s \in Seq(S), NEW e \in S, NEW f \in S
  PROVE  s \o <<e>> \in Seq(S) /\ s \o <<e, f>> = (s \o <<e>>) \o <<f>>
<1>1. s \o <<e>> \in Seq(S) /\ <<e>> \in Seq(S) /\ <<f>> \in Seq(S)
  OBVIOUS
<1>2. <<e, f>> = <<e>> \o <<f>>
  BY PairConcat
<1>3. (s \o <<e>>) \o <<f>> = s \o (<<e>> \o <<f>>)
  BY <1>1, LogAssociates
<1> QED
  BY <1>1, <1>2, <1>3

\* Two rows logged one after the other.
LEMMA Logged ==
  ASSUME TypeOK, NEW e, NEW f
  PROVE  /\ Appended(audit, e, audit \o <<e>>)
         /\ Appended(audit \o <<e>>, f, audit \o <<e, f>>)
<1> DEFINE S == AuditRow \cup {e, f}
<1>1. audit \in Seq(S) /\ e \in S /\ f \in S
  <2>1. audit \in Seq(AuditRow) /\ \A i \in 1 .. Len(audit) : audit[i] \in S
    BY DEF TypeOK
  <2>2. audit \in Seq(S)
    <3> HIDE DEF S
    <3> QED
      BY <2>1
  <2> QED
    BY <2>2
<1> HIDE DEF S
<1>2. audit \o <<e>> \in Seq(S) /\ audit \o <<e, f>> = (audit \o <<e>>) \o <<f>>
  BY <1>1, TwoMore
<1> QED
  BY <1>1, <1>2 DEF Appended

\* A statement does the same as long as the transaction's reading of the clock
\* stands.
LEMMA RunStable ==
  ASSUME UNCHANGED now
  PROVE  \A db, s : Run(db, s)' = Run(db, s)
BY DEF Run

-----------------------------------------------------------------------------
(* Where a transaction leads *)

\* The statements of todo take the view db of the tables to the view end; views
\* are those in between.
Leads(db, todo, end) ==
  \E S : /\ todo \in Seq(S)
         /\ \E views : /\ views[1] = db
                       /\ views[Len(todo) + 1] = end
                       /\ \A i \in 1 .. Len(todo) : views[i + 1] = Run(views[i], todo[i])

LEMMA LeadsDone ==
  ASSUME NEW db, NEW end, Leads(db, <<>>, end)
  PROVE  db = end
BY DEF Leads

LEMMA LeadsStep ==
  ASSUME NEW db, NEW todo, NEW end, Leads(db, todo, end), todo # <<>>
  PROVE  Leads(Run(db, Head(todo)), Tail(todo), end)
<1>1. PICK S : /\ todo \in Seq(S)
               /\ \E views : /\ views[1] = db
                             /\ views[Len(todo) + 1] = end
                             /\ \A i \in 1 .. Len(todo) : views[i + 1] = Run(views[i], todo[i])
  BY DEF Leads
<1>2. PICK views : /\ views[1] = db
                   /\ views[Len(todo) + 1] = end
                   /\ \A i \in 1 .. Len(todo) : views[i + 1] = Run(views[i], todo[i])
  BY <1>1
<1>3. /\ Len(todo) \in Nat \ {0}
      /\ Tail(todo) \in Seq(S)
      /\ Len(Tail(todo)) = Len(todo) - 1
      /\ Head(todo) = todo[1]
      /\ \A i \in 1 .. Len(Tail(todo)) : Tail(todo)[i] = todo[i + 1]
  BY <1>1
<1> DEFINE rest == Tail(todo)
           next == [i \in 1 .. Len(todo) |-> views[i + 1]]
<1>4. next[1] = Run(db, Head(todo))
  BY <1>2, <1>3
<1>5. next[Len(rest) + 1] = end
  BY <1>2, <1>3
<1>6. ASSUME NEW i \in 1 .. Len(rest)
      PROVE  next[i + 1] = Run(next[i], rest[i])
  <2>1. i + 1 \in 1 .. Len(todo) /\ i \in 1 .. Len(todo)
    BY <1>3
  <2>2. next[i + 1] = views[i + 1 + 1] /\ next[i] = views[i + 1]
    BY <2>1
  <2>3. views[i + 1 + 1] = Run(views[i + 1], todo[i + 1])
    BY <1>2, <2>1
  <2> QED
    BY <1>3, <2>2, <2>3
<1> HIDE DEF next
<1> QED
  BY <1>3, <1>4, <1>5, <1>6 DEF Leads

LEMMA LeadsStable ==
  ASSUME UNCHANGED now, NEW db, NEW todo, NEW end, Leads(db, todo, end)
  PROVE  Leads(db, todo, end)'
BY RunStable DEF Leads

-----------------------------------------------------------------------------
(* What a transaction may lead to *)

\* An acquire that has taken the leases of existing (one or none) for expired.
AcquireGoal(end, r, h, ttl, id, existing) ==
  LET lease == [resource |-> r, holder |-> h, fencing_token |-> NextToken(r),
                acquired_at |-> now, ttl_seconds |-> ttl,
                expires_at |-> Add64(now, ttl), last_heartbeat |-> now,
                status |-> "active"]
  IN
  /\ ~GetResource(resources, r).locked
  /\ ValidTTL(ttl)
  /\ id \notin DOMAIN leases
  /\ \A old \in existing : Evictable(leases[old])
  /\ \E order \in SweepOrders(existing) :
       end = DB(UpsertResourceFencing(resources, r, NextToken(r), id),
                InsertLease(SetLeaseStatus(leases, existing, "active", "expired"), id, lease),
                audit \o (SweepRows(order) \o <<LeaseEntry("acquire", id, lease, now, "")>>))

ExtendGoal(end, id, ttl, action) ==
  /\ ValidTTL(ttl)
  /\ action = "renew" => InRenewWindow(leases[id])
  /\ end = DB(resources, UpdateLeaseExpiry(leases, id, ttl, Add64(now, ttl), now),
              audit \o <<LeaseEntry(action, id, leases[id], now, "")>>)

HeartbeatGoal(end, id) ==
  end = DB(resources, UpdateLeaseHeartbeat(leases, id, now),
           audit \o <<LeaseEntry("heartbeat", id, leases[id], now, "")>>)

TransferGoal(end, id, newHolder, newID) ==
  LET old == leases[id]
      fresh == [old EXCEPT !.holder = newHolder,
                           !.fencing_token = NextToken(old.resource),
                           !.last_heartbeat = now]
  IN
  /\ newID \notin DOMAIN leases
  /\ end = DB(UpsertResourceFencing(resources, old.resource, NextToken(old.resource), newID),
              InsertLease(SetLeaseStatus(leases, {id}, "active", "released"), newID, fresh),
              audit \o <<LeaseEntry("transfer", id, old, now, "to"),
                         LeaseEntry("transfer", newID, fresh, now, "from")>>)

RetireGoal(end, id, action) ==
  \/ IsTerminal(leases[id].status) /\ end = Committed
  \/ /\ ~IsTerminal(leases[id].status)
     /\ end = DB(FreeResource(leases[id].resource),
                 SetLeaseStatus(leases, {id}, "active", "released"),
                 audit \o <<LeaseEntry(action, id, leases[id], now, "")>>)

SetLockGoal(end, r, locked, action) ==
  \/ AlreadyLocked(r, locked) /\ end = Committed
  \/ /\ ~AlreadyLocked(r, locked)
     /\ end = DB(SetResourceLocked(resources, r, locked), leases,
                 audit \o <<Entry(action, NoLease, r, 0, now, "")>>)

MethodGoal(end) ==
  \/ \E r \in Resource, h \in Holder, ttl \in TTL, id \in LeaseId :
       \E existing \in GetActiveLeaseByResource(r) :
         AcquireGoal(end, r, h, ttl, id, existing)
  \/ \E id \in LeaseId, token \in Token :
       /\ Usable(id, token)
       /\ \/ \E ttl \in TTL, action \in {"renew", "ttl_update"} :
               ExtendGoal(end, id, ttl, action)
          \/ HeartbeatGoal(end, id)
          \/ \E h \in Holder, newID \in LeaseId : TransferGoal(end, id, h, newID)
  \/ \E id \in LeaseId, token \in Token :
       Presented(id, token) /\ RetireGoal(end, id, "release")
  \/ \E id \in LeaseId : id \in DOMAIN leases /\ RetireGoal(end, id, "force_release")
  \/ \E r \in Resource : \/ SetLockGoal(end, r, TRUE, "lock")
                         \/ SetLockGoal(end, r, FALSE, "unlock")

\* The resource rows once the leases of ids are freed.
Freed(ids) ==
  LET on(r) == {id \in ids : leases[id].resource = r} IN
  [r \in DOMAIN resources \cup {leases[id].resource : id \in ids} |->
     IF on(r) = {}
     THEN resources[r]
     ELSE [GetResource(resources, r) EXCEPT
             !.fencing_token = @ + Cardinality(on(r)),
             !.current_lease_id = NoLease]]

SweepGoal(end) ==
  \E order \in SweepOrders(ListExpiredActive(now)) :
    end = DB(Freed(ListExpiredActive(now)),
             SetLeaseStatus(leases, ListExpiredActive(now), "active", "expired"),
             audit \o SweepRows(order))

RecordGoal(end) ==
  end = DB(resources, leases,
           audit \o <<Entry("recover", NoLease, NoResource, 0, now, "")>>)

-----------------------------------------------------------------------------
(* While a transaction is open nothing else changes the committed tables or *)
(* its reading of the clock: its goal stands                                *)

LEMMA SameEntries ==
  ASSUME UNCHANGED vars
  PROVE  /\ \A r : NextToken(r)' = NextToken(r) /\ FreeResource(r)' = FreeResource(r)
         /\ \A r : GetActiveLeaseByResource(r)' = GetActiveLeaseByResource(r)
         /\ ListExpiredActive(now)' = ListExpiredActive(now)
         /\ \A ids : SweepOrders(ids)' = SweepOrders(ids)
         /\ \A order : SweepRows(order)' = SweepRows(order)
         /\ \A ids : Freed(ids)' = Freed(ids)
         /\ \A id, token : Presented(id, token)' = Presented(id, token)
         /\ \A id, token : Usable(id, token)' = Usable(id, token)
         /\ \A l : Evictable(l)' = Evictable(l) /\ InRenewWindow(l)' = InRenewWindow(l)
         /\ \A r, locked : AlreadyLocked(r, locked)' = AlreadyLocked(r, locked)
         /\ Committed' = Committed
<1> USE DEF vars, tables, process
<1>1. \A r : NextToken(r)' = NextToken(r) /\ FreeResource(r)' = FreeResource(r)
  BY DEF NextToken, FreeResource
<1>2. \A r : GetActiveLeaseByResource(r)' = GetActiveLeaseByResource(r)
  BY DEF GetActiveLeaseByResource, ActiveLeases
<1>3. ListExpiredActive(now)' = ListExpiredActive(now)
  BY DEF ListExpiredActive
<1>4. \A ids : SweepOrders(ids)' = SweepOrders(ids)
  BY DEF SweepOrders
<1>5. \A order : SweepRows(order)' = SweepRows(order)
  BY DEF SweepRows
<1>6. \A ids : Freed(ids)' = Freed(ids)
  BY DEF Freed
<1>7. /\ \A id, token : Presented(id, token)' = Presented(id, token)
      /\ \A id, token : Usable(id, token)' = Usable(id, token)
  BY DEF Presented, Usable, Unexpired
<1>8. /\ \A l : Evictable(l)' = Evictable(l) /\ InRenewWindow(l)' = InRenewWindow(l)
      /\ \A r, locked : AlreadyLocked(r, locked)' = AlreadyLocked(r, locked)
      /\ Committed' = Committed
  BY DEF Evictable, InRenewWindow, AlreadyLocked, Committed
<1> QED
  BY <1>1, <1>2, <1>3, <1>4, <1>5, <1>6, <1>7, <1>8

LEMMA AcquireStands ==
  ASSUME UNCHANGED vars, NEW end, NEW r, NEW h, NEW ttl, NEW id, NEW existing,
         AcquireGoal(end, r, h, ttl, id, existing)
  PROVE  AcquireGoal(end, r, h, ttl, id, existing)'
BY SameEntries DEF AcquireGoal, vars, tables

LEMMA UseStands ==
  ASSUME UNCHANGED vars, NEW end, NEW id
  PROVE  /\ \A ttl, action : ExtendGoal(end, id, ttl, action) => ExtendGoal(end, id, ttl, action)'
         /\ HeartbeatGoal(end, id) => HeartbeatGoal(end, id)'
         /\ \A h, newID : TransferGoal(end, id, h, newID) => TransferGoal(end, id, h, newID)'
<1> USE SameEntries DEF vars, tables
<1>1. \A ttl, action : ExtendGoal(end, id, ttl, action) => ExtendGoal(end, id, ttl, action)'
  BY DEF ExtendGoal
<1>2. HeartbeatGoal(end, id) => HeartbeatGoal(end, id)'
  BY DEF HeartbeatGoal
<1>3. \A h, newID : TransferGoal(end, id, h, newID) => TransferGoal(end, id, h, newID)'
  BY DEF TransferGoal
<1> QED
  BY <1>1, <1>2, <1>3

LEMMA AdminStands ==
  ASSUME UNCHANGED vars, NEW end
  PROVE  /\ \A id, action : RetireGoal(end, id, action) => RetireGoal(end, id, action)'
         /\ \A r, locked, action :
              SetLockGoal(end, r, locked, action) => SetLockGoal(end, r, locked, action)'
         /\ SweepGoal(end) => SweepGoal(end)'
         /\ RecordGoal(end) => RecordGoal(end)'
<1> USE SameEntries DEF vars, tables
<1>1. \A id, action : RetireGoal(end, id, action) => RetireGoal(end, id, action)'
  BY DEF RetireGoal
<1>2. \A r, locked, action :
        SetLockGoal(end, r, locked, action) => SetLockGoal(end, r, locked, action)'
  BY DEF SetLockGoal
<1>3. SweepGoal(end) => SweepGoal(end)'
  BY DEF SweepGoal
<1>4. RecordGoal(end) => RecordGoal(end)'
  BY DEF RecordGoal
<1> QED
  BY <1>1, <1>2, <1>3, <1>4

LEMMA MethodStands ==
  ASSUME UNCHANGED vars, NEW end, MethodGoal(end)
  PROVE  MethodGoal(end)'
<1>1. ASSUME NEW r \in Resource, NEW h \in Holder, NEW ttl \in TTL, NEW id \in LeaseId,
             NEW existing \in GetActiveLeaseByResource(r),
             AcquireGoal(end, r, h, ttl, id, existing)
      PROVE  MethodGoal(end)'
  <2>1. existing \in GetActiveLeaseByResource(r)'
    BY <1>1, SameEntries
  <2>2. AcquireGoal(end, r, h, ttl, id, existing)'
    BY <1>1, AcquireStands
  <2> QED
    BY <2>1, <2>2 DEF MethodGoal
<1>2. ASSUME NEW id \in LeaseId, NEW token \in Token, Usable(id, token),
             \/ \E ttl \in TTL, action \in {"renew", "ttl_update"} :
                  ExtendGoal(end, id, ttl, action)
             \/ HeartbeatGoal(end, id)
             \/ \E h \in Holder, newID \in LeaseId : TransferGoal(end, id, h, newID)
      PROVE  MethodGoal(end)'
  BY <1>2, UseStands, SameEntries DEF MethodGoal
<1>3. ASSUME NEW id \in LeaseId, NEW token \in Token, Presented(id, token),
             RetireGoal(end, id, "release")
      PROVE  MethodGoal(end)'
  BY <1>3, AdminStands, SameEntries DEF MethodGoal
<1>4. ASSUME NEW id \in LeaseId, id \in DOMAIN leases, RetireGoal(end, id, "force_release")
      PROVE  MethodGoal(end)'
  BY <1>4, AdminStands DEF MethodGoal, vars, tables
<1>5. ASSUME NEW r \in Resource,
             SetLockGoal(end, r, TRUE, "lock") \/ SetLockGoal(end, r, FALSE, "unlock")
      PROVE  MethodGoal(end)'
  BY <1>5, AdminStands DEF MethodGoal
<1> QED
  BY <1>1, <1>2, <1>3, <1>4, <1>5 DEF MethodGoal

-----------------------------------------------------------------------------
(* A transaction that commits its goal is a step of LeaseManager *)

Commits(end) ==
  /\ resources' = end.resources
  /\ leases' = end.leases
  /\ audit' = end.audit

LEMMA CommitsDB ==
  ASSUME NEW r, NEW l, NEW a, Commits(DB(r, l, a))
  PROVE  resources' = r /\ leases' = l /\ audit' = a
BY DEF Commits, DB

LEMMA CommitsNothing ==
  ASSUME Commits(Committed), UNCHANGED <<now, process>>
  PROVE  UNCHANGED vars
BY DEF Commits, Committed, vars, tables

LEMMA AcquireCommits ==
  ASSUME Accepting, UNCHANGED <<now, process>>,
         NEW end, NEW r \in Resource, NEW h \in Holder, NEW ttl \in TTL, NEW id \in LeaseId,
         NEW existing \in GetActiveLeaseByResource(r),
         AcquireGoal(end, r, h, ttl, id, existing), Commits(end)
  PROVE  Acquire(r, h, ttl, id)
BY CommitsDB DEF AcquireGoal, Acquire, Log

LEMMA UseCommits ==
  ASSUME Accepting, UNCHANGED <<now, process>>,
         NEW end, Commits(end), NEW id, NEW token, Usable(id, token)
  PROVE  /\ \A ttl : ExtendGoal(end, id, ttl, "renew") => Renew(id, token, ttl)
         /\ \A ttl : ExtendGoal(end, id, ttl, "ttl_update") => UpdateTTL(id, token, ttl)
         /\ HeartbeatGoal(end, id) => Heartbeat(id, token)
         /\ \A h, newID : TransferGoal(end, id, h, newID) => Transfer(id, token, h, newID)
<1>1. \A ttl : ExtendGoal(end, id, ttl, "renew") => Renew(id, token, ttl)
  BY CommitsDB DEF ExtendGoal, Renew, Extend, Log
<1>2. \A ttl : ExtendGoal(end, id, ttl, "ttl_update") => UpdateTTL(id, token, ttl)
  BY CommitsDB DEF ExtendGoal, UpdateTTL, Extend, Log
<1>3. HeartbeatGoal(end, id) => Heartbeat(id, token)
  BY CommitsDB DEF HeartbeatGoal, Heartbeat, Log
<1>4. \A h, newID : TransferGoal(end, id, h, newID) => Transfer(id, token, h, newID)
  BY CommitsDB DEF TransferGoal, Transfer, Log
<1> QED
  BY <1>1, <1>2, <1>3, <1>4

LEMMA AdminCommits ==
  ASSUME Accepting, UNCHANGED <<now, process>>, NEW end, Commits(end)
  PROVE  /\ \A id, token : Presented(id, token) /\ RetireGoal(end, id, "release")
              => Release(id, token)
         /\ \A id : id \in DOMAIN leases /\ RetireGoal(end, id, "force_release")
              => ForceRelease(id)
         /\ \A r : SetLockGoal(end, r, TRUE, "lock") => LockResource(r)
         /\ \A r : SetLockGoal(end, r, FALSE, "unlock") => UnlockResource(r)
<1>1. ASSUME NEW id, NEW action, RetireGoal(end, id, action)
      PROVE  \/ IsTerminal(leases[id].status) /\ UNCHANGED vars
             \/ ~IsTerminal(leases[id].status) /\ Retire(id, action)
  BY <1>1, CommitsDB, CommitsNothing DEF RetireGoal, Retire, Log
<1>2. ASSUME NEW r, NEW locked, NEW action, SetLockGoal(end, r, locked, action)
      PROVE  SetLock(r, locked, action)
  BY <1>2, CommitsDB, CommitsNothing DEF SetLockGoal, SetLock, Log
<1> QED
  BY <1>1, <1>2 DEF Release, ForceRelease, LockResource, UnlockResource

LEMMA MethodCommits ==
  ASSUME Accepting, UNCHANGED <<now, process>>, NEW end, MethodGoal(end), Commits(end)
  PROVE  Next
<1>1. ASSUME NEW r \in Resource, NEW h \in Holder, NEW ttl \in TTL, NEW id \in LeaseId,
             NEW existing \in GetActiveLeaseByResource(r),
             AcquireGoal(end, r, h, ttl, id, existing)
      PROVE  Next
  BY <1>1, AcquireCommits DEF Next, AcquireRequest
<1>2. ASSUME NEW id \in LeaseId, NEW token \in Token, Usable(id, token),
             \/ \E ttl \in TTL, action \in {"renew", "ttl_update"} :
                  ExtendGoal(end, id, ttl, action)
             \/ HeartbeatGoal(end, id)
             \/ \E h \in Holder, newID \in LeaseId : TransferGoal(end, id, h, newID)
      PROVE  Next
  BY <1>2, UseCommits DEF Next, LeaseRequest
<1>3. ASSUME NEW id \in LeaseId, NEW token \in Token, Presented(id, token),
             RetireGoal(end, id, "release")
      PROVE  Next
  BY <1>3, AdminCommits DEF Next, LeaseRequest
<1>4. ASSUME NEW id \in LeaseId, id \in DOMAIN leases, RetireGoal(end, id, "force_release")
      PROVE  Next
  BY <1>4, AdminCommits DEF Next, AdminRequest
<1>5. ASSUME NEW r \in Resource,
             SetLockGoal(end, r, TRUE, "lock") \/ SetLockGoal(end, r, FALSE, "unlock")
      PROVE  Next
  BY <1>5, AdminCommits DEF Next, AdminRequest
<1> QED
  BY <1>1, <1>2, <1>3, <1>4, <1>5 DEF MethodGoal

LEMMA SweepCommits ==
  ASSUME NEW end, SweepGoal(end), Commits(end), UNCHANGED now
  PROVE  SweepCommit(ListExpiredActive(now))
<1> DEFINE Swept(ids) ==
             /\ leases' = SetLeaseStatus(leases, ids, "active", "expired")
             /\ resources' = Freed(ids)
             /\ \E order \in SweepOrders(ids) : audit' = audit \o SweepRows(order)
<1>1. Swept(ListExpiredActive(now))
  BY CommitsDB DEF SweepGoal
<1>2. ASSUME NEW ids, Swept(ids)
      PROVE  SweepCommit(ids)
  BY <1>2, Zenon DEF SweepCommit, Freed, Log
<1> HIDE DEF Swept
<1> QED
  BY <1>1, <1>2

-----------------------------------------------------------------------------
(* The scripts of the methods lead to their goals *)

LEMMA LeadsNowhere == ASSUME NEW db PROVE Leads(db, <<>>, db)
<1> DEFINE todo == <<>>
           views == <<db>>
<1>1. todo \in Seq({}) /\ Len(todo) = 0 /\ views[1] = db
  OBVIOUS
<1> HIDE DEF todo, views
<1>2. Leads(db, todo, db)
  BY <1>1 DEF Leads
<1> QED
  BY <1>2 DEF todo

LEMMA LeadsOne ==
  ASSUME NEW db, NEW s
  PROVE  Leads(db, <<s>>, Run(db, s))
<1> DEFINE todo == <<s>>
           views == <<db, Run(db, s)>>
<1>1. /\ todo \in Seq({s}) /\ Len(todo) = 1 /\ todo[1] = s
      /\ views[1] = db /\ views[2] = Run(db, s)
  OBVIOUS
<1> HIDE DEF todo, views
<1>2. Leads(db, todo, Run(db, s))
  BY <1>1 DEF Leads
<1> QED
  BY <1>2 DEF todo

LEMMA LeadsTwo ==
  ASSUME NEW s, NEW t, NEW d0, NEW d1, NEW d2, d1 = Run(d0, s), d2 = Run(d1, t)
  PROVE  Leads(d0, <<s, t>>, d2)
<1> DEFINE todo == <<s, t>>
           views == <<d0, d1, d2>>
<1>1. /\ todo \in Seq({s, t}) /\ Len(todo) = 2 /\ todo[1] = s /\ todo[2] = t
      /\ views[1] = d0 /\ views[2] = d1 /\ views[3] = d2
  OBVIOUS
<1> HIDE DEF todo, views
<1>2. \A i \in 1 .. Len(todo) : views[i + 1] = Run(views[i], todo[i])
  BY <1>1
<1>3. Leads(d0, todo, d2)
  BY <1>1, <1>2 DEF Leads
<1> QED
  BY <1>3 DEF todo

LEMMA LeadsThree ==
  ASSUME NEW s, NEW t, NEW u, NEW d0, NEW d1, NEW d2, NEW d3,
         d1 = Run(d0, s), d2 = Run(d1, t), d3 = Run(d2, u)
  PROVE  Leads(d0, <<s, t, u>>, d3)
<1> DEFINE todo == <<s, t, u>>
           views == <<d0, d1, d2, d3>>
<1>1. /\ todo \in Seq({s, t, u}) /\ Len(todo) = 3
      /\ todo[1] = s /\ todo[2] = t /\ todo[3] = u
      /\ views[1] = d0 /\ views[2] = d1 /\ views[3] = d2 /\ views[4] = d3
  OBVIOUS
<1> HIDE DEF todo, views
<1>2. \A i \in 1 .. Len(todo) : views[i + 1] = Run(views[i], todo[i])
  BY <1>1
<1>3. Leads(d0, todo, d3)
  BY <1>1, <1>2 DEF Leads
<1> QED
  BY <1>3 DEF todo

LEMMA LeadsFive ==
  ASSUME NEW s, NEW t, NEW u, NEW v, NEW w,
         NEW d0, NEW d1, NEW d2, NEW d3, NEW d4, NEW d5,
         d1 = Run(d0, s), d2 = Run(d1, t), d3 = Run(d2, u), d4 = Run(d3, v), d5 = Run(d4, w)
  PROVE  Leads(d0, <<s, t, u, v, w>>, d5)
<1> DEFINE todo == <<s, t, u, v, w>>
           views == <<d0, d1, d2, d3, d4, d5>>
<1>1. /\ todo \in Seq({s, t, u, v, w}) /\ Len(todo) = 5
      /\ todo[1] = s /\ todo[2] = t /\ todo[3] = u /\ todo[4] = v /\ todo[5] = w
      /\ views[1] = d0 /\ views[2] = d1 /\ views[3] = d2
      /\ views[4] = d3 /\ views[5] = d4 /\ views[6] = d5
  OBVIOUS
<1> HIDE DEF todo, views
<1>2. \A i \in 1 .. Len(todo) : views[i + 1] = Run(views[i], todo[i])
  BY <1>1
<1>3. Leads(d0, todo, d5)
  BY <1>1, <1>2 DEF Leads
<1> QED
  BY <1>3 DEF todo

LEMMA UseLeads ==
  ASSUME TypeOK, NEW id
  PROVE  /\ \A ttl \in TTL, action \in {"renew", "ttl_update"} :
              (ValidTTL(ttl) /\ (action = "renew" => InRenewWindow(leases[id]))) =>
                \E end : /\ ExtendGoal(end, id, ttl, action)
                         /\ Leads(Committed, <<SetExpiry(id, ttl), AuditLease(action, id, "")>>, end)
         /\ \E end : /\ HeartbeatGoal(end, id)
                     /\ Leads(Committed, <<Beat(id), AuditLease("heartbeat", id, "")>>, end)
<1>1. Committed = DB(resources, leases, audit)
  BY DEF Committed, DB
<1>3. ASSUME NEW ttl \in TTL, NEW action \in {"renew", "ttl_update"}, ValidTTL(ttl),
             action = "renew" => InRenewWindow(leases[id])
      PROVE  \E end : /\ ExtendGoal(end, id, ttl, action)
                      /\ Leads(Committed, <<SetExpiry(id, ttl), AuditLease(action, id, "")>>, end)
  <2> DEFINE row == LeaseEntry(action, id, leases[id], now, "")
             l1 == UpdateLeaseExpiry(leases, id, ttl, Add64(now, ttl), now)
             b == audit \o <<row>>
             end == DB(resources, l1, b)
  <2>1. Leads(Committed, <<SetExpiry(id, ttl), AddAudit(row)>>, end)
    <3>1. Run(Committed, SetExpiry(id, ttl)) = DB(resources, l1, audit)
      BY <1>1, RunExpiry
    <3>2. Run(DB(resources, l1, audit), AddAudit(row)) = end
      <4>1. Appended(audit, row, b)
        BY Logged
      <4> HIDE DEF b, row
      <4> QED
        BY <4>1, RunAudit
    <3> QED
      BY <3>1, <3>2, LeadsTwo
  <2>2. ExtendGoal(end, id, ttl, action)
    BY <1>3 DEF ExtendGoal
  <2> QED
    BY <2>1, <2>2 DEF AuditLease
<1>4. \E end : /\ HeartbeatGoal(end, id)
               /\ Leads(Committed, <<Beat(id), AuditLease("heartbeat", id, "")>>, end)
  <2> DEFINE row == LeaseEntry("heartbeat", id, leases[id], now, "")
             l1 == UpdateLeaseHeartbeat(leases, id, now)
             b == audit \o <<row>>
             end == DB(resources, l1, b)
  <2>1. Leads(Committed, <<Beat(id), AddAudit(row)>>, end)
    <3>1. Run(Committed, Beat(id)) = DB(resources, l1, audit)
      BY <1>1, RunBeat
    <3>2. Run(DB(resources, l1, audit), AddAudit(row)) = end
      <4>1. Appended(audit, row, b)
        BY Logged
      <4> HIDE DEF b, row
      <4> QED
        BY <4>1, RunAudit
    <3> QED
      BY <3>1, <3>2, LeadsTwo
  <2>2. HeartbeatGoal(end, id)
    BY DEF HeartbeatGoal
  <2> QED
    BY <2>1, <2>2 DEF AuditLease
<1> QED
  BY <1>3, <1>4

LEMMA RetireLeads ==
  ASSUME TypeOK, NEW id, NEW action
  PROVE  \E end : RetireGoal(end, id, action) /\ Leads(Committed, RetireScript(id, action), end)
<1>1. Committed = DB(resources, leases, audit)
  BY DEF Committed, DB
<1>2. CASE IsTerminal(leases[id].status)
  BY <1>2, LeadsNowhere DEF RetireGoal, RetireScript
<1>3. CASE ~IsTerminal(leases[id].status)
  <2> DEFINE r == leases[id].resource
             row == LeaseEntry(action, id, leases[id], now, "")
             l1 == SetLeaseStatus(leases, {id}, "active", "released")
             b == audit \o <<row>>
             end == DB(FreeResource(r), l1, b)
  <2>1. Run(Committed, SetStatus(id, "released")) = DB(resources, l1, audit)
    BY <1>1, RunStatus
  <2>2. Run(DB(resources, l1, audit), FreeRow(r)) = DB(FreeResource(r), l1, audit)
    BY RunFree DEF FreeResource, NextToken
  <2>3. Run(DB(FreeResource(r), l1, audit), AddAudit(row)) = end
    <3>1. Appended(audit, row, b)
      BY Logged
    <3> HIDE DEF b, row
    <3> QED
      BY <3>1, RunAudit
  <2>4. Leads(Committed, <<SetStatus(id, "released"), FreeRow(r), AddAudit(row)>>, end)
    BY <2>1, <2>2, <2>3, LeadsThree
  <2>5. RetireGoal(end, id, action)
    BY <1>3 DEF RetireGoal, TypeOK
  <2> QED
    BY <1>3, <2>4, <2>5 DEF RetireScript, AuditLease
<1> QED
  BY <1>2, <1>3

LEMMA SetLockLeads ==
  ASSUME TypeOK, NEW r, NEW locked, NEW action
  PROVE  \E end : /\ SetLockGoal(end, r, locked, action)
                  /\ Leads(Committed, SetLockScript(r, locked, action), end)
<1>1. Committed = DB(resources, leases, audit)
  BY DEF Committed, DB
<1>2. CASE AlreadyLocked(r, locked)
  BY <1>2, LeadsNowhere DEF SetLockGoal, SetLockScript
<1>3. CASE ~AlreadyLocked(r, locked)
  <2> DEFINE row == Entry(action, NoLease, r, 0, now, "")
             r1 == SetResourceLocked(resources, r, locked)
             b == audit \o <<row>>
             end == DB(r1, leases, b)
  <2>1. Run(Committed, SetFlag(r, locked)) = DB(r1, leases, audit)
    BY <1>1, RunFlag
  <2>2. Run(DB(r1, leases, audit), AddAudit(row)) = end
    <3>1. Appended(audit, row, b)
      BY Logged
    <3> HIDE DEF b, row
    <3> QED
      BY <3>1, RunAudit
  <2>3. Leads(Committed, <<SetFlag(r, locked), AddAudit(row)>>, end)
    BY <2>1, <2>2, LeadsTwo
  <2>4. SetLockGoal(end, r, locked, action)
    BY <1>3 DEF SetLockGoal, TypeOK
  <2> QED
    BY <1>3, <2>3, <2>4 DEF SetLockScript
<1> QED
  BY <1>2, <1>3

LEMMA TransferLeads ==
  ASSUME TypeOK, NEW id, NEW h, NEW newID, newID \notin DOMAIN leases
  PROVE  \E end : /\ TransferGoal(end, id, h, newID)
                  /\ Leads(Committed, TransferScript(id, h, newID), end)
<1> DEFINE old == leases[id]
           r == old.resource
           token == NextToken(r)
           fresh == [old EXCEPT !.holder = h, !.fencing_token = token, !.last_heartbeat = now]
           e == LeaseEntry("transfer", id, old, now, "to")
           f == LeaseEntry("transfer", newID, fresh, now, "from")
           l1 == SetLeaseStatus(leases, {id}, "active", "released")
           l2 == InsertLease(l1, newID, fresh)
           r1 == UpsertResourceFencing(resources, r, token, newID)
           a == audit \o <<e>>
           b == audit \o <<e, f>>
           end == DB(r1, l2, b)
<1>1. Committed = DB(resources, leases, audit)
  BY DEF Committed, DB
<1>2. Run(Committed, SetStatus(id, "released")) = DB(resources, l1, audit)
  BY <1>1, RunStatus
<1>3. Run(DB(resources, l1, audit), PutLease(newID, fresh)) = DB(resources, l2, audit)
  BY RunInsert
<1>4. Run(DB(resources, l2, audit), Upsert(r, token, newID)) = DB(r1, l2, audit)
  BY RunUpsert
<1>5. /\ Run(DB(r1, l2, audit), AddAudit(e)) = DB(r1, l2, a)
      /\ Run(DB(r1, l2, a), AddAudit(f)) = end
  <2>1. Appended(audit, e, a) /\ Appended(a, f, b)
    BY Logged
  <2> HIDE DEF a, b, e, f, l2, r1
  <2> QED
    BY <2>1, RunAudit
<1>6. Leads(Committed,
            <<SetStatus(id, "released"), PutLease(newID, fresh), Upsert(r, token, newID),
              AddAudit(e), AddAudit(f)>>, end)
  <2> HIDE DEF a, b, e, f, fresh, l1, l2, r1, token, end
  <2> QED
    BY <1>2, <1>3, <1>4, <1>5, LeadsFive
<1>7. TransferGoal(end, id, h, newID)
  BY DEF TransferGoal
<1> QED
  BY <1>6, <1>7 DEF TransferScript, AuditLease

\* The one order of no lease and of one.
LEMMA OrdersOfOne ==
  /\ <<>> \in SweepOrders({}) /\ SweepRows(<<>>) = <<>>
  /\ \A old : /\ <<old>> \in SweepOrders({old})
              /\ SweepRows(<<old>>) = <<LeaseEntry("sweep", old, leases[old], now, "")>>
<1>1. <<>> \in SweepOrders({})
  BY FS_EmptySet DEF SweepOrders, SetToSeqs, IsInjective
<1>2. ASSUME NEW old
      PROVE  <<old>> \in SweepOrders({old})
  <2>1. Cardinality({old}) = 1
    BY FS_Singleton
  <2> QED
    BY <2>1 DEF SweepOrders, SetToSeqs, IsInjective
<1>3. SweepRows(<<>>) = <<>>
  BY DEF SweepRows
<1>4. ASSUME NEW old
      PROVE  SweepRows(<<old>>) = <<LeaseEntry("sweep", old, leases[old], now, "")>>
  <2> DEFINE order == <<old>>
             e == LeaseEntry("sweep", old, leases[old], now, "")
  <2>1. DOMAIN order = 1 .. 1 /\ order[1] = old
    OBVIOUS
  <2> HIDE DEF order
  <2>2. \A i \in DOMAIN order : LeaseEntry("sweep", order[i], leases[order[i]], now, "") = e
    <3>1. \A i \in DOMAIN order : order[i] = old
      BY <2>1
    <3> QED
      BY <3>1, Zenon
  <2> HIDE DEF e
  <2>3. SweepRows(order) = [i \in 1 .. 1 |-> e]
    BY <2>1, <2>2 DEF SweepRows
  <2>4. [i \in 1 .. 1 |-> e] = <<e>>
    OBVIOUS
  <2> QED
    BY <2>3, <2>4 DEF order, e
<1> QED
  BY <1>1, <1>2, <1>3, <1>4

Joined(s, t, u) == u = s \o t

LEMMA ConcatIs ==
  ASSUME NEW S, NEW s \in Seq(S), NEW t \in Seq(S), NEW u, Joined(s, t, u)
  PROVE  /\ u \in Seq(S) /\ Len(u) = Len(s) + Len(t)
         /\ \A i \in 1 .. Len(s) : u[i] = s[i]
         /\ \A i \in 1 .. Len(t) : u[Len(s) + i] = t[i]
BY DEF Joined

LEMMA Concats ==
  ASSUME NEW a, NEW b, NEW c, NEW d, NEW e
  PROVE  /\ <<>> \o <<c, d, e>> = <<c, d, e>>
         /\ Joined(<<a, b>>, <<c, d, e>>, <<a, b, c, d, e>>)
         /\ <<>> \o <<e>> = <<e>>
         /\ <<a>> \o <<b>> = <<a, b>>
<1> DEFINE two == <<a, b>>
           three == <<c, d, e>>
           all == two \o three
           five == <<a, b, c, d, e>>
           S == {a, b, c, d, e}
<1>1. /\ two \in Seq(S) /\ Len(two) = 2 /\ two[1] = a /\ two[2] = b
      /\ three \in Seq(S) /\ Len(three) = 3 /\ three[1] = c /\ three[2] = d /\ three[3] = e
      /\ five \in Seq(S) /\ Len(five) = 5
      /\ five[1] = a /\ five[2] = b /\ five[3] = c /\ five[4] = d /\ five[5] = e
  OBVIOUS
<1>2. <<a>> \o <<b>> = <<a, b>>
  <2>1. a \in S /\ b \in S
    OBVIOUS
  <2> HIDE DEF S
  <2> QED
    BY <2>1, PairConcat
<1>3. <<>> \o <<c, d, e>> = <<c, d, e>> /\ <<>> \o <<e>> = <<e>>
  OBVIOUS
<1> HIDE DEF two, three, five, S
<1>4. Joined(two, three, all)
  BY DEF Joined
<1> HIDE DEF all
<1>5. /\ all \in Seq(S) /\ Len(all) = Len(two) + Len(three)
      /\ \A i \in 1 .. Len(two) : all[i] = two[i]
      /\ \A i \in 1 .. Len(three) : all[Len(two) + i] = three[i]
  <2>1. two \in Seq(S) /\ three \in Seq(S)
    BY <1>1
  <2>2. all \in Seq(S) /\ Len(all) = Len(two) + Len(three)
    BY <2>1, <1>4, ConcatIs
  <2>3. \A i \in 1 .. Len(two) : all[i] = two[i]
    BY <2>1, <1>4, ConcatIs
  <2>4. \A i \in 1 .. Len(three) : all[Len(two) + i] = three[i]
    BY <2>1, <1>4, ConcatIs
  <2> QED
    BY <2>2, <2>3, <2>4
<1>6. /\ Len(all) = 5 /\ all[1] = a /\ all[2] = b
      /\ all[2 + 1] = c /\ all[2 + 2] = d /\ all[2 + 3] = e
  BY <1>1, <1>5
<1>7. all = five
  BY <1>1, <1>5, <1>6
<1> QED
  BY <1>2, <1>3, <1>7 DEF Joined, all, two, three, five

\* Acquire without a lease to evict, and with the one that it evicts.
LEMMA AcquireLeads ==
  ASSUME TypeOK, NEW r, NEW h, NEW ttl, NEW id, NEW existing \in GetActiveLeaseByResource(r),
         ~GetResource(resources, r).locked, ValidTTL(ttl), id \notin DOMAIN leases,
         \A old \in existing : Evictable(leases[old])
  PROVE  \E end : /\ AcquireGoal(end, r, h, ttl, id, existing)
                  /\ Leads(Committed, AcquireScript(r, h, ttl, id, existing), end)
<1> DEFINE token == NextToken(r)
           lease == [resource |-> r, holder |-> h, fencing_token |-> token,
                     acquired_at |-> now, ttl_seconds |-> ttl,
                     expires_at |-> Add64(now, ttl), last_heartbeat |-> now,
                     status |-> "active"]
           f == LeaseEntry("acquire", id, lease, now, "")
           l1 == SetLeaseStatus(leases, existing, "active", "expired")
           l2 == InsertLease(l1, id, lease)
           r1 == UpsertResourceFencing(resources, r, token, id)
           grant == <<PutLease(id, lease), Upsert(r, token, id), AddAudit(f)>>
<1>1. Committed = DB(resources, leases, audit)
  BY DEF Committed, DB
<1>2. ASSUME NEW a
      PROVE  /\ Run(DB(resources, l1, a), PutLease(id, lease)) = DB(resources, l2, a)
             /\ Run(DB(resources, l2, a), Upsert(r, token, id)) = DB(r1, l2, a)
  <2> HIDE DEF lease, token, l1
  <2> QED
    BY RunInsert, RunUpsert
<1>3. CASE existing = {}
  <2> DEFINE b == audit \o <<f>>
             end == DB(r1, l2, b)
  <2>1. l1 = leases
    BY <1>3 DEF SetLeaseStatus, TypeOK
  <2>2. Run(DB(r1, l2, audit), AddAudit(f)) = end
    <3>1. Appended(audit, f, b)
      BY Logged
    <3> HIDE DEF b, f, l2, r1
    <3> QED
      BY <3>1, RunAudit
  <2>3. Leads(Committed, grant, end)
    <3> HIDE DEF end, f, lease, token, l1, l2, r1
    <3> QED
      BY <1>1, <1>2, <2>1, <2>2, LeadsThree
  <2>4. AcquireScript(r, h, ttl, id, existing) = grant
    <3>1. AcquireScript(r, h, ttl, id, existing) = <<>> \o grant
      BY <1>3 DEF AcquireScript
    <3> QED
      BY <3>1, Concats
  <2>5. b = audit \o (SweepRows(<<>>) \o <<f>>)
    <3>1. SweepRows(<<>>) \o <<f>> = <<f>>
      BY OrdersOfOne, Concats
    <3> QED
      BY <3>1
  <2>6. AcquireGoal(end, r, h, ttl, id, existing)
    <3>1. <<>> \in SweepOrders(existing)
      BY <1>3, OrdersOfOne
    <3> QED
      BY <2>5, <3>1 DEF AcquireGoal
  <2> QED
    BY <2>3, <2>4, <2>6
<1>4. CASE existing # {}
  <2>1. PICK old : existing = {old}
    BY <1>4 DEF GetActiveLeaseByResource
  <2> DEFINE e == LeaseEntry("sweep", old, leases[old], now, "")
             a == audit \o <<e>>
             b == audit \o <<e, f>>
             end == DB(r1, l2, b)
  <2>2. Run(Committed, SetStatus(old, "expired")) = DB(resources, l1, audit)
    BY <1>1, <2>1, RunStatus
  <2>3. /\ Run(DB(resources, l1, audit), AddAudit(e)) = DB(resources, l1, a)
        /\ Run(DB(r1, l2, a), AddAudit(f)) = end
    <3>1. Appended(audit, e, a) /\ Appended(a, f, b)
      BY Logged
    <3> HIDE DEF a, b, e, f, l1, l2, r1
    <3> QED
      BY <3>1, RunAudit
  <2>4. Leads(Committed,
              <<SetStatus(old, "expired"), AddAudit(e), PutLease(id, lease),
                Upsert(r, token, id), AddAudit(f)>>, end)
    <3> HIDE DEF end, a, e, f, lease, token, l1, l2, r1
    <3> QED
      BY <1>2, <2>2, <2>3, LeadsFive
  <2>5. AcquireScript(r, h, ttl, id, existing) =
          <<SetStatus(old, "expired"), AddAudit(e), PutLease(id, lease),
            Upsert(r, token, id), AddAudit(f)>>
    <3>1. (CHOOSE x \in existing : TRUE) = old
      BY <2>1
    <3>2. AcquireScript(r, h, ttl, id, existing) =
            <<SetStatus(old, "expired"), AuditLease("sweep", old, "")>> \o grant
      BY <1>4, <3>1, Zenon DEF AcquireScript
    <3>3. AuditLease("sweep", old, "") = AddAudit(e)
      BY DEF AuditLease
    <3> QED
      <4>1. Joined(<<SetStatus(old, "expired"), AddAudit(e)>>, grant,
                   <<SetStatus(old, "expired"), AddAudit(e), PutLease(id, lease),
                     Upsert(r, token, id), AddAudit(f)>>)
        <5> HIDE DEF e, f, lease, token
        <5> QED
          BY Concats
      <4> QED
        BY <3>2, <3>3, <4>1, Zenon DEF Joined
  <2>6. b = audit \o (SweepRows(<<old>>) \o <<f>>)
    <3>1. SweepRows(<<old>>) \o <<f>> = <<e, f>>
      BY OrdersOfOne, Concats
    <3> QED
      BY <3>1
  <2>7. AcquireGoal(end, r, h, ttl, id, existing)
    <3>1. <<old>> \in SweepOrders(existing)
      BY <2>1, OrdersOfOne
    <3> QED
      BY <2>6, <3>1 DEF AcquireGoal
  <2> QED
    BY <2>4, <2>5, <2>7
<1> QED
  BY <1>3, <1>4

LEMMA MethodLeads ==
  ASSUME TypeOK, NEW script \in MethodScripts
  PROVE  \E end : MethodGoal(end) /\ Leads(Committed, script, end)
<1> DEFINE Good(s) == \E end : MethodGoal(end) /\ Leads(Committed, s, end)
<1>1. ASSUME NEW r \in Resource, ~GetResource(resources, r).locked,
             NEW existing \in GetActiveLeaseByResource(r),
             \A old \in existing : Evictable(leases[old]),
             NEW h \in Holder, NEW ttl \in TTL, ValidTTL(ttl),
             NEW id \in LeaseId, id \notin DOMAIN leases
      PROVE  Good(AcquireScript(r, h, ttl, id, existing))
  <2>1. PICK end : /\ AcquireGoal(end, r, h, ttl, id, existing)
                   /\ Leads(Committed, AcquireScript(r, h, ttl, id, existing), end)
    BY <1>1, AcquireLeads
  <2>2. MethodGoal(end)
    BY <2>1 DEF MethodGoal
  <2> QED
    BY <2>1, <2>2
<1>2. ASSUME NEW id \in LeaseId, NEW token \in Token, Usable(id, token)
      PROVE  /\ Good(<<Beat(id), AuditLease("heartbeat", id, "")>>)
             /\ \A ttl \in TTL, action \in {"renew", "ttl_update"} :
                  (ValidTTL(ttl) /\ (action = "renew" => InRenewWindow(leases[id]))) =>
                    Good(<<SetExpiry(id, ttl), AuditLease(action, id, "")>>)
             /\ \A h \in Holder, newID \in LeaseId \ DOMAIN leases :
                  Good(TransferScript(id, h, newID))
  <2>1. Good(<<Beat(id), AuditLease("heartbeat", id, "")>>)
    <3>1. \A end : HeartbeatGoal(end, id) => MethodGoal(end)
      BY <1>2 DEF MethodGoal
    <3> QED
      BY <3>1, UseLeads
  <2>2. ASSUME NEW ttl \in TTL, NEW action \in {"renew", "ttl_update"},
               ValidTTL(ttl), action = "renew" => InRenewWindow(leases[id])
        PROVE  Good(<<SetExpiry(id, ttl), AuditLease(action, id, "")>>)
    <3>1. \A end : ExtendGoal(end, id, ttl, action) => MethodGoal(end)
      BY <1>2 DEF MethodGoal
    <3> QED
      BY <2>2, <3>1, UseLeads
  <2>3. ASSUME NEW h \in Holder, NEW newID \in LeaseId \ DOMAIN leases
        PROVE  Good(TransferScript(id, h, newID))
    <3>1. \A end : TransferGoal(end, id, h, newID) => MethodGoal(end)
      BY <1>2 DEF MethodGoal
    <3> QED
      BY <3>1, TransferLeads
  <2> QED
    BY <2>1, <2>2, <2>3
<1>3. ASSUME NEW id \in LeaseId, NEW token \in Token, Presented(id, token)
      PROVE  Good(RetireScript(id, "release"))
  <2>1. \A end : RetireGoal(end, id, "release") => MethodGoal(end)
    BY <1>3 DEF MethodGoal
  <2> QED
    BY <2>1, RetireLeads
<1>4. ASSUME NEW id \in DOMAIN leases
      PROVE  Good(RetireScript(id, "force_release"))
  <2>1. \A end : RetireGoal(end, id, "force_release") => MethodGoal(end)
    BY DEF MethodGoal, TypeOK
  <2> QED
    BY <2>1, RetireLeads
<1>5. ASSUME NEW r \in Resource
      PROVE  Good(SetLockScript(r, TRUE, "lock")) /\ Good(SetLockScript(r, FALSE, "unlock"))
  <2>1. \A end : SetLockGoal(end, r, TRUE, "lock") \/ SetLockGoal(end, r, FALSE, "unlock")
                   => MethodGoal(end)
    BY DEF MethodGoal
  <2> QED
    BY <2>1, SetLockLeads
<1> HIDE DEF Good
<1>6. ASSUME NEW r \in Resource, ~GetResource(resources, r).locked, script \in AcquireScripts(r)
      PROVE  Good(script)
  BY <1>1, <1>6 DEF AcquireScripts
<1>7. ASSUME NEW id \in LeaseId, NEW token \in Token, Usable(id, token),
             script \in UseScripts(id)
      PROVE  Good(script)
  <2> DEFINE beats == {<<Beat(id), AuditLease("heartbeat", id, "")>>}
             updates == {<<SetExpiry(id, ttl), AuditLease("ttl_update", id, "")>> :
                           ttl \in {t \in TTL : ValidTTL(t)}}
             renewals == {<<SetExpiry(id, ttl), AuditLease("renew", id, "")>> :
                            ttl \in {t \in TTL : ValidTTL(t) /\ InRenewWindow(leases[id])}}
             transfers == {TransferScript(id, a[1], a[2]) :
                             a \in Holder \X (LeaseId \ DOMAIN leases)}
  <2>1. script \in beats \cup updates \cup renewals \cup transfers
    BY <1>7 DEF UseScripts
  <2>2. CASE script \in beats
    BY <1>2, <1>7, <2>2
  <2>3. CASE script \in updates
    BY <1>2, <1>7, <2>3
  <2>4. CASE script \in renewals
    BY <1>2, <1>7, <2>4
  <2>5. CASE script \in transfers
    <3>1. PICK a \in Holder \X (LeaseId \ DOMAIN leases) : script = TransferScript(id, a[1], a[2])
      BY <2>5
    <3> QED
      BY <1>2, <1>7, <3>1
  <2> HIDE DEF beats, updates, renewals, transfers
  <2> QED
    BY <2>1, <2>2, <2>3, <2>4, <2>5
<1>8. \/ \E r \in Resource : ~GetResource(resources, r).locked /\ script \in AcquireScripts(r)
      \/ \E id \in LeaseId : \E token \in Token : Usable(id, token) /\ script \in UseScripts(id)
      \/ \E id \in LeaseId : \E token \in Token :
           Presented(id, token) /\ script = RetireScript(id, "release")
      \/ \E id \in DOMAIN leases : script = RetireScript(id, "force_release")
      \/ \E r \in Resource : script \in {SetLockScript(r, TRUE, "lock"),
                                         SetLockScript(r, FALSE, "unlock")}
  <2> DEFINE acquires == UNION {AcquireScripts(r) :
                              r \in {x \in Resource : ~GetResource(resources, x).locked}}
             uses == UNION {UseScripts(p[1]) :
                              p \in {a \in LeaseId \X Token : Usable(a[1], a[2])}}
             releases == {RetireScript(p[1], "release") :
                            p \in {a \in LeaseId \X Token : Presented(a[1], a[2])}}
             forced == {RetireScript(id, "force_release") : id \in DOMAIN leases}
             locks == {SetLockScript(r, TRUE, "lock") : r \in Resource}
             unlocks == {SetLockScript(r, FALSE, "unlock") : r \in Resource}
  <2>1. script \in acquires \cup uses \cup releases \cup forced \cup locks \cup unlocks
    BY DEF MethodScripts
  <2>2. ASSUME script \in uses
        PROVE  \E id \in LeaseId : \E token \in Token :
                 Usable(id, token) /\ script \in UseScripts(id)
    <3>1. PICK p \in LeaseId \X Token : Usable(p[1], p[2]) /\ script \in UseScripts(p[1])
      BY <2>2
    <3> QED
      BY <3>1
  <2>3. ASSUME script \in releases
        PROVE  \E id \in LeaseId : \E token \in Token :
                 Presented(id, token) /\ script = RetireScript(id, "release")
    <3>1. PICK p \in LeaseId \X Token :
            Presented(p[1], p[2]) /\ script = RetireScript(p[1], "release")
      BY <2>3
    <3> QED
      BY <3>1
  <2>4. script \in acquires =>
          \E r \in Resource : ~GetResource(resources, r).locked /\ script \in AcquireScripts(r)
    OBVIOUS
  <2>5. /\ script \in forced =>
             \E id \in DOMAIN leases : script = RetireScript(id, "force_release")
        /\ script \in locks => \E r \in Resource : script = SetLockScript(r, TRUE, "lock")
        /\ script \in unlocks => \E r \in Resource : script = SetLockScript(r, FALSE, "unlock")
    OBVIOUS
  <2> HIDE DEF acquires, uses, releases, forced, locks, unlocks
  <2> QED
    BY <2>1, <2>2, <2>3, <2>4, <2>5
<1>9. Good(script)
  BY <1>3, <1>4, <1>5, <1>6, <1>7, <1>8
<1> QED
  BY <1>9 DEF Good

-----------------------------------------------------------------------------
(* The script of a sweep, of any length, leads to its goal *)

\* The first k leases of the order, and their rows.
Firsts(order, k) == {order[i] : i \in 1 .. k}

Rows(order, k) == [i \in 1 .. k |-> SweepEntry(order[i])]

LEMMA NothingSwept ==
  ASSUME TypeOK
  PROVE  /\ Freed({}) = resources
         /\ SetLeaseStatus(leases, {}, "active", "expired") = leases
<1>1. Freed({}) = resources
  <2>1. Freed({}) = [r \in DOMAIN resources |-> resources[r]]
    BY DEF Freed
  <2> QED
    BY <2>1 DEF TypeOK
<1>2. SetLeaseStatus(leases, {}, "active", "expired") = leases
  BY DEF SetLeaseStatus, TypeOK
<1> QED
  BY <1>1, <1>2

LEMMA OneMoreExpired ==
  ASSUME TypeOK, NEW ids, NEW id
  PROVE  SetLeaseStatus(SetLeaseStatus(leases, ids, "active", "expired"), {id},
                        "active", "expired")
           = SetLeaseStatus(leases, ids \cup {id}, "active", "expired")
<1> DEFINE tbl == SetLeaseStatus(leases, ids, "active", "expired")
           one == SetLeaseStatus(tbl, {id}, "active", "expired")
           all == SetLeaseStatus(leases, ids \cup {id}, "active", "expired")
<1>1. DOMAIN tbl = DOMAIN leases /\ DOMAIN one = DOMAIN leases /\ DOMAIN all = DOMAIN leases
  BY DEF SetLeaseStatus
<1>2. ASSUME NEW x \in DOMAIN leases
      PROVE  one[x] = all[x]
  <2>1. leases[x] \in LeaseRow
    BY DEF TypeOK
  <2>2. tbl[x] = IF x \in ids /\ leases[x].status = "active"
                 THEN [leases[x] EXCEPT !.status = "expired"] ELSE leases[x]
    BY DEF SetLeaseStatus
  <2>3. all[x] = IF x \in ids \cup {id} /\ leases[x].status = "active"
                 THEN [leases[x] EXCEPT !.status = "expired"] ELSE leases[x]
    BY DEF SetLeaseStatus
  <2> HIDE DEF tbl, all
  <2>4. one[x] = IF x \in {id} /\ tbl[x].status = "active"
                 THEN [tbl[x] EXCEPT !.status = "expired"] ELSE tbl[x]
    BY <1>1 DEF SetLeaseStatus
  <2> HIDE DEF one
  <2>5. [leases[x] EXCEPT !.status = "expired"].status = "expired"
    BY <2>1 DEF LeaseRow
  <2> QED
    BY <2>2, <2>3, <2>4, <2>5
<1>3. /\ one = [x \in DOMAIN leases |-> one[x]]
      /\ all = [x \in DOMAIN leases |-> all[x]]
  <2>1. all = [x \in DOMAIN leases |-> all[x]]
    BY DEF SetLeaseStatus
  <2> HIDE DEF tbl, all
  <2>2. one = [x \in DOMAIN leases |-> one[x]]
    BY <1>1 DEF SetLeaseStatus
  <2> QED
    BY <2>1, <2>2
<1> HIDE DEF one, all
<1>4. one = all
  BY <1>2, <1>3
<1> QED
  BY <1>4 DEF one, all, tbl

\* FreeRow after a sweep of ids is the sweep of one more lease, also when the
\* resource is one of those already freed.
LEMMA OneMoreFreed ==
  ASSUME TypeOK, NEW ids \in SUBSET (DOMAIN leases), NEW id \in DOMAIN leases, id \notin ids
  PROVE  LET r == leases[id].resource IN
         UpsertResourceFencing(Freed(ids), r,
                               GetResource(Freed(ids), r).fencing_token + 1, NoLease)
           = Freed(ids \cup {id})
<1> DEFINE r == leases[id].resource
           on(x) == {i \in ids : leases[i].resource = x}
           onAll(x) == {i \in ids \cup {id} : leases[i].resource = x}
           D == DOMAIN resources \cup {leases[i].resource : i \in ids}
           bump(x, n) == [GetResource(resources, x) EXCEPT !.fencing_token = @ + n,
                                                          !.current_lease_id = NoLease]
           F == Freed(ids)
           G == Freed(ids \cup {id})
           row == [GetResource(F, r) EXCEPT
                     !.fencing_token = GetResource(F, r).fencing_token + 1,
                     !.current_lease_id = NoLease]
           P == PutResource(F, r, row)
<1>1. /\ DOMAIN F = D
      /\ \A x \in D : F[x] = IF on(x) = {} THEN resources[x] ELSE bump(x, Cardinality(on(x)))
  BY DEF Freed
<1>2. /\ DOMAIN G = D \cup {r}
      /\ \A x \in D \cup {r} :
           G[x] = IF onAll(x) = {} THEN resources[x] ELSE bump(x, Cardinality(onAll(x)))
      /\ G = [x \in DOMAIN G |-> G[x]]
  <2>1. {leases[i].resource : i \in ids \cup {id}} = {leases[i].resource : i \in ids} \cup {r}
    OBVIOUS
  <2>2. DOMAIN G = DOMAIN resources \cup {leases[i].resource : i \in ids \cup {id}}
    BY DEF Freed
  <2>3. DOMAIN G = D \cup {r}
    BY <2>1, <2>2
  <2>4. \A x \in DOMAIN G :
           G[x] = IF onAll(x) = {} THEN resources[x] ELSE bump(x, Cardinality(onAll(x)))
    BY DEF Freed
  <2>5. G = [x \in DOMAIN G |-> G[x]]
    BY DEF Freed
  <2> QED
    BY <2>3, <2>4, <2>5
<1>3. /\ DOMAIN P = D \cup {r}
      /\ P[r] = row
      /\ \A x \in D : x # r => P[x] = F[x]
      /\ P = [x \in DOMAIN P |-> P[x]]
  <2> HIDE DEF F, row, D
  <2> QED
    BY <1>1 DEF PutResource
<1>4. \A x : x # r => onAll(x) = on(x)
  OBVIOUS
<1>5. onAll(r) = on(r) \cup {id} /\ id \notin on(r)
  OBVIOUS
<1>6. \A x \in D : x # r => P[x] = G[x]
  <2> HIDE DEF F, G, P, D, on, onAll, bump, r
  <2> QED
    BY <1>1, <1>2, <1>3, <1>4
<1>7. row = G[r]
  <2>1. r \in Resource /\ GetResource(resources, r) \in ResourceRow
    BY RowType DEF TypeOK, LeaseRow
  <2>2. /\ IsFiniteSet(on(r)) /\ Cardinality(on(r)) \in Nat
        /\ Cardinality(onAll(r)) = Cardinality(on(r)) + 1
    <3>1. IsFiniteSet(on(r))
      <4>1. on(r) \in SUBSET LeaseId
        BY DEF TypeOK
      <4> HIDE DEF on
      <4> QED
        BY <4>1, StoreAssumption, FS_Subset
    <3> HIDE DEF on, onAll
    <3> QED
      BY <1>5, <3>1, FS_CardinalityType, FS_AddElement
  <2>3. G[r] = bump(r, Cardinality(on(r)) + 1)
    <3>1. onAll(r) # {}
      BY <1>5
    <3> HIDE DEF on, onAll, bump, D, G, r
    <3> QED
      BY <1>2, <2>2, <3>1
  <2>4. CASE on(r) = {}
    <3>1. Cardinality(on(r)) = 0
      BY <2>4, FS_EmptySet
    <3>2. GetResource(F, r) = GetResource(resources, r)
      <4>1. r \in D => r \in DOMAIN resources /\ F[r] = resources[r]
        BY <1>1, <2>4
      <4>2. r \notin D => r \notin DOMAIN resources
        OBVIOUS
      <4> HIDE DEF F, D, r
      <4> QED
        BY <1>1, <4>1, <4>2 DEF GetResource
    <3>3. row = bump(r, 1)
      <4> HIDE DEF F, r
      <4> QED
        BY <3>2
    <3>4. Cardinality(on(r)) + 1 = 1
      BY <3>1
    <3> HIDE DEF row, bump, on, G, r
    <3> QED
      BY <2>3, <3>3, <3>4, Zenon
  <2>5. CASE on(r) # {}
    <3> DEFINE n == Cardinality(on(r))
    <3>1. r \in D
      BY <2>5
    <3>2. GetResource(F, r) = bump(r, n)
      <4> HIDE DEF F, D, r, on, bump
      <4> QED
        BY <1>1, <2>5, <3>1 DEF GetResource
    <3> HIDE DEF n, F, r
    <3>3. n \in Nat
      BY <2>2 DEF n
    <3>4. row = bump(r, n + 1)
      <4>1. PICK g \in ResourceRow : g = GetResource(resources, r)
        BY <2>1
      <4>2. row = [[g EXCEPT !.fencing_token = g.fencing_token + n,
                             !.current_lease_id = NoLease] EXCEPT
                     !.fencing_token = g.fencing_token + n + 1,
                     !.current_lease_id = NoLease]
        BY <3>2, <4>1 DEF ResourceRow
      <4>3. g.fencing_token + n + 1 = g.fencing_token + (n + 1)
        BY <3>3, <4>1 DEF ResourceRow
      <4> QED
        BY <4>1, <4>2, <4>3 DEF ResourceRow
    <3> QED
      BY <2>3, <3>4 DEF n
  <2> QED
    BY <2>4, <2>5
<1>8. P = G
  <2> HIDE DEF P, G, D, row, r
  <2> QED
    BY <1>2, <1>3, <1>6, <1>7
<1>9. UpsertResourceFencing(F, r, GetResource(F, r).fencing_token + 1, NoLease) = P
  BY DEF UpsertResourceFencing
<1> QED
  BY <1>8, <1>9

\* The view of the tables after m statements of the sweep.
SweepView(order, m) ==
  DB(Freed(Firsts(order, (m + 1) \div 3)),
     SetLeaseStatus(leases, Firsts(order, (m + 2) \div 3), "active", "expired"),
     audit \o Rows(order, m \div 3))

\* Three statements take the view from k leases to k + 1.
LEMMA SweepThree ==
  ASSUME TypeOK, NEW ids \in SUBSET (DOMAIN leases), NEW order \in SweepOrders(ids),
         NEW k \in Nat, k < Len(order)
  PROVE  LET id == order[k + 1]
             freed == Freed(Firsts(order, k + 1))
             ended == SetLeaseStatus(leases, Firsts(order, k + 1), "active", "expired")
         IN
         /\ Run(DB(Freed(Firsts(order, k)),
                   SetLeaseStatus(leases, Firsts(order, k), "active", "expired"),
                   audit \o Rows(order, k)), SetStatus(id, "expired"))
              = DB(Freed(Firsts(order, k)), ended, audit \o Rows(order, k))
         /\ Run(DB(Freed(Firsts(order, k)), ended, audit \o Rows(order, k)),
                FreeRow(leases[id].resource))
              = DB(freed, ended, audit \o Rows(order, k))
         /\ Run(DB(freed, ended, audit \o Rows(order, k)), AuditLease("sweep", id, ""))
              = DB(freed, ended, audit \o Rows(order, k + 1))
<1> DEFINE id == order[k + 1]
           r == leases[id].resource
           old == Firsts(order, k)
           done == Firsts(order, k + 1)
           l0 == SetLeaseStatus(leases, old, "active", "expired")
           l1 == SetLeaseStatus(leases, done, "active", "expired")
           a0 == audit \o Rows(order, k)
           a1 == audit \o Rows(order, k + 1)
           n == Len(order)
<1>1. /\ order \in Seq(ids) /\ n \in Nat /\ DOMAIN order = 1 .. n
      /\ \A i \in 1 .. n : order[i] \in ids
      /\ \A i, j \in 1 .. n : i # j => order[i] # order[j]
  <2>1. order \in Seq(ids)
    BY OrderType
  <2>2. n \in Nat /\ DOMAIN order = 1 .. n
    BY <2>1
  <2> HIDE DEF n
  <2> QED
    BY <2>1, <2>2, OrderComplete
<1>2. /\ id \in ids /\ id \notin old /\ old \in SUBSET ids
      /\ done = old \cup {id}
  BY <1>1 DEF Firsts
<1>3. Run(DB(Freed(old), l0, a0), SetStatus(id, "expired")) = DB(Freed(old), l1, a0)
  <2>1. SetLeaseStatus(l0, {id}, "active", "expired") = l1
    <3> HIDE DEF old, id, done
    <3> QED
      BY <1>2, OneMoreExpired
  <2> HIDE DEF l0, l1, a0, old, id
  <2> QED
    BY <2>1, RunStatus
<1>4. Run(DB(Freed(old), l1, a0), FreeRow(r)) = DB(Freed(done), l1, a0)
  <2>1. UpsertResourceFencing(Freed(old), r, GetResource(Freed(old), r).fencing_token + 1,
                              NoLease) = Freed(done)
    <3> HIDE DEF old, id, done
    <3> QED
      BY <1>2, OneMoreFreed
  <2> HIDE DEF l1, a0, old, done, r
  <2> QED
    BY <2>1, RunFree
<1>5. Run(DB(Freed(done), l1, a0), AuditLease("sweep", id, "")) = DB(Freed(done), l1, a1)
  <2> DEFINE row == SweepEntry(id)
             rows == Rows(order, k)
             more == Rows(order, k + 1)
  <2>1. row \in AuditRow /\ \A i \in 1 .. k : SweepEntry(order[i]) \in AuditRow
    <3>1. ASSUME NEW x \in ids
          PROVE  SweepEntry(x) \in AuditRow
      BY EntryType DEF SweepEntry, TypeOK, AuditAction, Detail
    <3> QED
      BY <1>1, <1>2, <3>1
  <2>2. /\ rows \in Seq(AuditRow) /\ Len(rows) = k
        /\ more \in Seq(AuditRow) /\ Len(more) = k + 1
        /\ \A i \in 1 .. k : more[i] = rows[i]
        /\ more[k + 1] = row
    <3> HIDE DEF row
    <3>1. \A i \in 1 .. k + 1 : SweepEntry(order[i]) \in AuditRow
      BY <2>1 DEF row
    <3> QED
      BY <2>1, <3>1 DEF Rows, row
  <2> HIDE DEF rows, more, row
  <2>3. more = rows \o <<row>>
    BY <2>1, <2>2
  <2>4. Appended(a0, row, a1)
    <3>1. audit \in Seq(AuditRow) /\ <<row>> \in Seq(AuditRow)
      BY <2>1 DEF TypeOK
    <3>2. (audit \o rows) \o <<row>> = audit \o (rows \o <<row>>)
      BY <2>2, <3>1, LogAssociates
    <3>3. audit \o rows \in Seq(AuditRow)
      BY <2>2, <3>1
    <3> QED
      BY <2>3, <3>2, <3>3 DEF Appended, rows, more
  <2>5. AuditLease("sweep", id, "") = AddAudit(row)
    BY DEF AuditLease, SweepEntry, row
  <2> HIDE DEF a0, a1, l1, done, id
  <2> QED
    BY <2>4, <2>5, RunAudit
<1> QED
  BY <1>3, <1>4, <1>5

LEMMA Thirds ==
  ASSUME NEW k \in Nat
  PROVE  /\ (3 * k) \div 3 = k /\ (3 * k + 1) \div 3 = k /\ (3 * k + 2) \div 3 = k
         /\ (3 * k + 3) \div 3 = k + 1 /\ (3 * k + 4) \div 3 = k + 1
         /\ (3 * k + 5) \div 3 = k + 1
         /\ (3 * k + 1) % 3 = 1 /\ (3 * k + 2) % 3 = 2 /\ (3 * k + 3) % 3 = 0
OBVIOUS

LEMMA ThreeEach ==
  ASSUME NEW n \in Nat, NEW i \in 1 .. 3 * n
  PROVE  \E k \in Nat : k < n /\ i \in {3 * k + 1, 3 * k + 2, 3 * k + 3}
<1> DEFINE k == (i - 1) \div 3
<1>1. k \in Nat /\ k < n /\ i \in {3 * k + 1, 3 * k + 2, 3 * k + 3}
  OBVIOUS
<1> QED
  BY <1>1

LEMMA Cases ==
  ASSUME NEW m, NEW s, NEW one, NEW two, NEW three,
         s = CASE m = 1 -> one [] m = 2 -> two [] m = 0 -> three
  PROVE  (m = 1 => s = one) /\ (m = 2 => s = two) /\ (m = 0 => s = three)
<1>1. CASE m = 1
  BY <1>1
<1>2. CASE m = 2
  BY <1>2
<1>3. CASE m = 0
  BY <1>3
<1> QED
  BY <1>1, <1>2, <1>3

LEMMA SweepStep ==
  ASSUME TypeOK, NEW ids \in SUBSET (DOMAIN leases), NEW order \in SweepOrders(ids),
         NEW i \in 1 .. 3 * Len(order)
  PROVE  SweepView(order, i) = Run(SweepView(order, i - 1), SweepScript(order)[i])
<1> DEFINE n == Len(order)
<1>1. n \in Nat
  BY OrderType
<1>2. PICK k \in Nat : k < n /\ i \in {3 * k + 1, 3 * k + 2, 3 * k + 3}
  BY <1>1, ThreeEach
<1> DEFINE id == order[k + 1]
           old == Firsts(order, k)
           done == Firsts(order, k + 1)
           l0 == SetLeaseStatus(leases, old, "active", "expired")
           l1 == SetLeaseStatus(leases, done, "active", "expired")
           a0 == audit \o Rows(order, k)
           a1 == audit \o Rows(order, k + 1)
<1>3. /\ Run(DB(Freed(old), l0, a0), SetStatus(id, "expired")) = DB(Freed(old), l1, a0)
      /\ Run(DB(Freed(old), l1, a0), FreeRow(leases[id].resource)) = DB(Freed(done), l1, a0)
      /\ Run(DB(Freed(done), l1, a0), AuditLease("sweep", id, "")) = DB(Freed(done), l1, a1)
  BY <1>2, SweepThree
<1>4. /\ i % 3 = 1 => SweepScript(order)[i] = SetStatus(order[(i + 2) \div 3], "expired")
      /\ i % 3 = 2 => SweepScript(order)[i] = FreeRow(leases[order[(i + 2) \div 3]].resource)
      /\ i % 3 = 0 => SweepScript(order)[i] = AuditLease("sweep", order[(i + 2) \div 3], "")
  <2> DEFINE x == order[(i + 2) \div 3]
             m == i % 3
             s == SweepScript(order)[i]
             one == SetStatus(x, "expired")
             two == FreeRow(leases[x].resource)
             three == AuditLease("sweep", x, "")
  <2>1. s = CASE m = 1 -> one [] m = 2 -> two [] m = 0 -> three
    BY DEF SweepScript
  <2> HIDE DEF m, s, one, two, three
  <2>2. (m = 1 => s = one) /\ (m = 2 => s = two) /\ (m = 0 => s = three)
    BY <2>1, Cases
  <2> QED
    BY <2>2 DEF m, s, one, two, three
<1>5. CASE i = 3 * k + 1
  <2>1. /\ i - 1 + 1 = 3 * k + 1 /\ i - 1 + 2 = 3 * k + 2 /\ i - 1 = 3 * k
        /\ i + 1 = 3 * k + 2 /\ i + 2 = 3 * k + 3
    BY <1>5
  <2>2. SweepView(order, i - 1) = DB(Freed(old), l0, a0)
    BY <2>1, Thirds DEF SweepView
  <2>3. SweepView(order, i) = DB(Freed(old), l1, a0)
    BY <1>5, <2>1, Thirds DEF SweepView
  <2>4. SweepScript(order)[i] = SetStatus(id, "expired")
    <3>1. i % 3 = 1 /\ (i + 2) \div 3 = k + 1
      BY <1>5, <2>1, Thirds
    <3> QED
      BY <1>4, <3>1
  <2> QED
    BY <1>3, <2>2, <2>3, <2>4
<1>6. CASE i = 3 * k + 2
  <2>1. /\ i - 1 + 1 = 3 * k + 2 /\ i - 1 + 2 = 3 * k + 3 /\ i - 1 = 3 * k + 1
        /\ i + 1 = 3 * k + 3 /\ i + 2 = 3 * k + 4
    BY <1>6
  <2>2. SweepView(order, i - 1) = DB(Freed(old), l1, a0)
    BY <2>1, Thirds DEF SweepView
  <2>3. SweepView(order, i) = DB(Freed(done), l1, a0)
    BY <1>6, <2>1, Thirds DEF SweepView
  <2>4. SweepScript(order)[i] = FreeRow(leases[id].resource)
    <3>1. i % 3 = 2 /\ (i + 2) \div 3 = k + 1
      BY <1>6, <2>1, Thirds
    <3> QED
      BY <1>4, <3>1
  <2> QED
    BY <1>3, <2>2, <2>3, <2>4
<1>7. CASE i = 3 * k + 3
  <2>1. /\ i - 1 + 1 = 3 * k + 3 /\ i - 1 + 2 = 3 * k + 4 /\ i - 1 = 3 * k + 2
        /\ i + 1 = 3 * k + 4 /\ i + 2 = 3 * k + 5
    BY <1>7
  <2>2. SweepView(order, i - 1) = DB(Freed(done), l1, a0)
    BY <2>1, Thirds DEF SweepView
  <2>3. SweepView(order, i) = DB(Freed(done), l1, a1)
    BY <1>7, <2>1, Thirds DEF SweepView
  <2>4. SweepScript(order)[i] = AuditLease("sweep", id, "")
    <3>1. i % 3 = 0 /\ (i + 2) \div 3 = k + 1
      BY <1>7, <2>1, Thirds
    <3> QED
      BY <1>4, <3>1
  <2> QED
    BY <1>3, <2>2, <2>3, <2>4
<1> QED
  BY <1>2, <1>5, <1>6, <1>7

LEMMA SweepLeads ==
  ASSUME TypeOK, NEW order \in SweepOrders(ListExpiredActive(now))
  PROVE  \E end : SweepGoal(end) /\ Leads(Committed, SweepScript(order), end)
<1> DEFINE ids == ListExpiredActive(now)
           n == Len(order)
           todo == SweepScript(order)
           views == [j \in 1 .. 3 * n + 1 |-> SweepView(order, j - 1)]
           end == SweepView(order, 3 * n)
<1>1. ids \in SUBSET (DOMAIN leases)
  BY DEF ListExpiredActive
<1>2. n \in Nat /\ DOMAIN order = 1 .. n /\ order \in Seq(ids)
  BY <1>1, OrderType
<1>3. \A i \in 1 .. 3 * n : SweepView(order, i) = Run(SweepView(order, i - 1), todo[i])
  <2> HIDE DEF ids
  <2> QED
    BY <1>1, SweepStep DEF ids
<1>4. \E S : todo \in Seq(S) /\ Len(todo) = 3 * n
  <2> DEFINE S == {todo[i] : i \in 1 .. 3 * n}
  <2>1. todo \in [1 .. 3 * n -> S]
    BY DEF SweepScript
  <2> HIDE DEF S
  <2>2. todo \in Seq(S) /\ Len(todo) = 3 * n
    BY <1>2, <2>1
  <2> QED
    BY <2>2
<1>5. SweepView(order, 0) = Committed
  <2>1. (0 + 1) \div 3 = 0 /\ (0 + 2) \div 3 = 0 /\ 0 \div 3 = 0
    OBVIOUS
  <2>2. Firsts(order, 0) = {}
    BY DEF Firsts
  <2>3. audit \o Rows(order, 0) = audit
    <3>1. Rows(order, 0) = <<>>
      BY DEF Rows
    <3> QED
      BY <3>1 DEF TypeOK
  <2> QED
    BY <2>1, <2>2, <2>3, NothingSwept DEF SweepView, Committed, DB
<1>6. SweepGoal(end)
  <2>1. /\ (3 * n + 1) \div 3 = n /\ (3 * n + 2) \div 3 = n /\ (3 * n) \div 3 = n
    BY <1>2, Thirds
  <2>2. Firsts(order, n) = ids
    <3> HIDE DEF ids, n
    <3>1. /\ \A i \in 1 .. n : order[i] \in ids
          /\ \A id \in ids : \E i \in 1 .. n : order[i] = id
      BY <1>1, <1>2, OrderComplete DEF ids
    <3> QED
      BY <3>1 DEF Firsts
  <2>3. Rows(order, n) = SweepRows(order)
    BY <1>2 DEF Rows, SweepRows, SweepEntry
  <2>4. end = DB(Freed(ids), SetLeaseStatus(leases, ids, "active", "expired"),
                 audit \o SweepRows(order))
    <3> HIDE DEF ids, n
    <3> QED
      BY <2>1, <2>2, <2>3 DEF SweepView
  <2> QED
    BY <2>4 DEF SweepGoal
<1>7. Leads(Committed, todo, end)
  <2>1. views[1] = Committed
    BY <1>2, <1>5
  <2>2. views[3 * n + 1] = end
    BY <1>2
  <2>3. ASSUME NEW i \in 1 .. 3 * n
        PROVE  views[i + 1] = Run(views[i], todo[i])
    <3>1. views[i + 1] = SweepView(order, i) /\ views[i] = SweepView(order, i - 1)
      BY <1>2
    <3> HIDE DEF views, todo
    <3> QED
      BY <1>3, <3>1
  <2> HIDE DEF views, todo, end, n
  <2> QED
    BY <1>4, <2>1, <2>2, <2>3 DEF Leads
<1> QED
  BY <1>6, <1>7

LEMMA RecordLeads ==
  ASSUME TypeOK
  PROVE  \E end : RecordGoal(end) /\ Leads(Committed, RecordScript, end)
<1> DEFINE row == Entry("recover", NoLease, NoResource, 0, now, "")
           end == DB(resources, leases, audit \o <<row>>)
<1>1. Appended(audit, row, audit \o <<row>>)
  BY Logged
<1>2. Committed = DB(resources, leases, audit)
  BY DEF Committed, DB
<1>3. Run(Committed, AddAudit(row)) = end
  <2> HIDE DEF row
  <2> QED
    BY <1>1, <1>2, RunAudit
<1>4. RecordScript = <<AddAudit(row)>>
  BY DEF RecordScript
<1>5. Leads(Committed, RecordScript, end)
  <2> HIDE DEF row, end
  <2> QED
    BY <1>3, <1>4, LeadsOne
<1> QED
  BY <1>5 DEF RecordGoal

-----------------------------------------------------------------------------
(* The inductive invariant *)

\* What a transaction of this kind may commit.
Outcome(kind, end) ==
  \/ kind = "record" /\ RecordGoal(end)
  \/ kind = "method" /\ Accepting /\ MethodGoal(end)
  \/ kind = "method" /\ phase = "serving" /\ SweepGoal(end)
  \/ /\ kind = "recover"
     /\ owed < (IF phase = "starting" THEN 1 ELSE MaxOwed)
     /\ SweepGoal(end)

\* The statements that are left lead to what the transaction may commit.
OnTrack(kind, db, todo) ==
  IF kind = "reading"
  THEN db = Committed /\ todo = <<>>
  ELSE \E end : Outcome(kind, end) /\ Leads(db, todo, end)

\* The open transaction is q's, and q waits for what it does.
Pending(q, kind, db, todo) ==
  /\ tx = Tx(q, kind, db, todo)
  /\ want[q] # "nothing"
  /\ kind # "reading" => (kind = "record" <=> want[q] = "record")
  /\ OnTrack(kind, db, todo)

Recording == {q \in Goroutine : want[q] = "record"}

\* The queue: who waits for what, and since when.
QueueOK ==
  /\ clock \in Time
  /\ ~BackwardClock => now <= clock
  /\ want \in [Goroutine -> {"nothing", "call", "record"}]
  /\ asked \in [Goroutine -> Time]
  /\ \A q \in Caller : want[q] # "nothing" => phase = "serving"
  /\ IsFiniteSet(Recording)
  /\ owed = Cardinality(Recording)

Connection ==
  tx = NoTx \/ \E q \in Goroutine : \E kind, db, todo : Pending(q, kind, db, todo)

ServerInv == TypeOK /\ QueueOK /\ Connection

LEMMA OneOwner ==
  ASSUME NEW q, NEW o, NEW kind, NEW db, NEW todo, tx = Tx(o, kind, db, todo)
  PROVE  /\ tx # NoTx
         /\ Owns(q) <=> q = o
         /\ tx.kind = kind /\ tx.db = db /\ tx.todo = todo
BY DEF Tx, NoTx, Owns

LEMMA OwnerPends ==
  ASSUME Connection, NEW q, Owns(q)
  PROVE  q \in Goroutine /\ \E kind, db, todo : Pending(q, kind, db, todo)
<1>1. tx # NoTx
  BY DEF NoTx, Owns
<1>2. PICK o \in Goroutine : \E kind, db, todo : Pending(o, kind, db, todo)
  BY <1>1 DEF Connection
<1>3. o = q
  BY <1>2, OneOwner DEF Pending
<1> QED
  BY <1>2, <1>3

LEMMA OnTrackStands ==
  ASSUME UNCHANGED vars, NEW kind, NEW db, NEW todo, OnTrack(kind, db, todo)
  PROVE  OnTrack(kind, db, todo)'
<1>1. CASE kind = "reading"
  BY <1>1, SameEntries DEF OnTrack
<1>2. CASE kind # "reading"
  <2>1. PICK end : Outcome(kind, end) /\ Leads(db, todo, end)
    BY <1>2 DEF OnTrack
  <2>2. Leads(db, todo, end)'
    BY <2>1, LeadsStable DEF vars
  <2>3. Outcome(kind, end)'
    BY <2>1, MethodStands, AdminStands DEF Outcome, Accepting, vars, tables, process
  <2> QED
    BY <1>2, <2>2, <2>3 DEF OnTrack
<1> QED
  BY <1>1, <1>2

\* A step that leaves the connection, the tables and its owner's wish alone.
LEMMA ConnectionStands ==
  ASSUME Connection, UNCHANGED <<vars, tx>>,
         \A q \in Goroutine : want[q] # "nothing" => want'[q] = want[q]
  PROVE  Connection'
<1>1. CASE tx = NoTx
  BY <1>1 DEF Connection, NoTx
<1>2. CASE tx # NoTx
  <2>1. PICK q \in Goroutine : \E kind, db, todo : Pending(q, kind, db, todo)
    BY <1>2 DEF Connection
  <2>2. PICK kind, db, todo : Pending(q, kind, db, todo)
    BY <2>1
  <2>3. OnTrack(kind, db, todo)'
    BY <2>2, OnTrackStands DEF Pending
  <2>4. tx' = Tx(q, kind, db, todo)
    BY <2>2 DEF Pending
  <2>5. Pending(q, kind, db, todo)'
    BY <2>2, <2>3, <2>4 DEF Pending, Tx
  <2> QED
    BY <2>5 DEF Connection, Goroutine
<1> QED
  BY <1>1, <1>2

-----------------------------------------------------------------------------
(* Reading and running the statements *)

LEMMA BeginPends ==
  ASSUME NEW q \in Goroutine, Begin(q)
  PROVE  Connection'
<1>1. Committed' = Committed
  BY DEF Begin, Committed, tables
<1>2. PICK db : db = Committed
  OBVIOUS
<1>3. tx' = Tx(q, "reading", db, <<>>) /\ want'[q] = want[q] /\ want[q] # "nothing"
  BY <1>2 DEF Begin
<1>4. OnTrack("reading", db, <<>>)'
  BY <1>1, <1>2 DEF OnTrack
<1>5. Pending(q, "reading", db, <<>>)'
  BY <1>3, <1>4 DEF Pending, Tx
<1> QED
  BY <1>5 DEF Connection, Goroutine

\* The statements a method has settled on end in what LeaseManager says of it.
LEMMA ReadPends ==
  ASSUME TypeOK, QueueOK, Connection, NEW q \in Goroutine, Read(q)
  PROVE  Connection'
<1>1. PICK kind, db, todo : Pending(q, kind, db, todo)
  BY OwnerPends DEF Read
<1>2. kind = "reading" /\ db = Committed /\ tx = Tx(q, kind, db, todo)
  BY <1>1, OneOwner DEF Pending, OnTrack, Read
<1>3. ASSUME NEW k, NEW s
      PROVE  [tx EXCEPT !.kind = k, !.todo = s] = Tx(q, k, db, s)
  <2>1. tx = Tx(q, kind, db, todo)
    BY <1>2
  <2>2. [tx EXCEPT !.kind = k] = Tx(q, k, db, todo)
    BY <2>1 DEF Tx
  <2>3. [Tx(q, k, db, todo) EXCEPT !.todo = s] = Tx(q, k, db, s)
    BY DEF Tx
  <2> QED
    BY <2>2, <2>3
<1>4. UNCHANGED vars /\ want' = want
  BY DEF Read
<1>5. PICK k, s : /\ tx' = Tx(q, k, db, s)
                  /\ OnTrack(k, db, s)
                  /\ k \in {"record", "method", "recover"}
                  /\ k = "record" <=> want[q] = "record"
  <2>1. CASE /\ want[q] = "record"
             /\ tx' = [tx EXCEPT !.kind = "record", !.todo = RecordScript]
    <3>1. tx' = Tx(q, "record", db, RecordScript)
      BY <1>3, <2>1
    <3>2. OnTrack("record", db, RecordScript)
      BY <1>2, RecordLeads DEF OnTrack, Outcome
    <3> QED
      BY <2>1, <3>1, <3>2
  <2>2. ASSUME want[q] = "call", Accepting, NEW script \in MethodScripts,
               tx' = [tx EXCEPT !.kind = "method", !.todo = script]
        PROVE  \E k, s : /\ tx' = Tx(q, k, db, s)
                         /\ OnTrack(k, db, s)
                         /\ k \in {"record", "method", "recover"}
                         /\ k = "record" <=> want[q] = "record"
    <3>1. tx' = Tx(q, "method", db, script)
      BY <1>3, <2>2
    <3>2. OnTrack("method", db, script)
      BY <1>2, <2>2, MethodLeads DEF OnTrack, Outcome
    <3> QED
      BY <2>2, <3>1, <3>2
  <2>3. ASSUME want[q] = "call", NEW order \in SweepOrders(ListExpiredActive(now)),
               \/ /\ q \in Caller
                  /\ tx' = [tx EXCEPT !.kind = "method", !.todo = SweepScript(order)]
               \/ /\ owed < (IF phase = "starting" THEN 1 ELSE MaxOwed)
                  /\ tx' = [tx EXCEPT !.kind = "recover", !.todo = SweepScript(order)]
        PROVE  \E k, s : /\ tx' = Tx(q, k, db, s)
                         /\ OnTrack(k, db, s)
                         /\ k \in {"record", "method", "recover"}
                         /\ k = "record" <=> want[q] = "record"
    <3>1. PICK end : SweepGoal(end) /\ Leads(db, SweepScript(order), end)
      BY <1>2, <2>3, SweepLeads
    <3>2. CASE /\ q \in Caller
               /\ tx' = [tx EXCEPT !.kind = "method", !.todo = SweepScript(order)]
      <4>1. phase = "serving"
        BY <2>3, <3>2 DEF QueueOK
      <4>2. OnTrack("method", db, SweepScript(order))
        BY <3>1, <4>1 DEF OnTrack, Outcome
      <4>3. tx' = Tx(q, "method", db, SweepScript(order))
        BY <1>3, <3>2
      <4> QED
        BY <2>3, <4>2, <4>3
    <3>3. CASE /\ owed < (IF phase = "starting" THEN 1 ELSE MaxOwed)
               /\ tx' = [tx EXCEPT !.kind = "recover", !.todo = SweepScript(order)]
      <4>1. OnTrack("recover", db, SweepScript(order))
        BY <3>1, <3>3 DEF OnTrack, Outcome
      <4>2. tx' = Tx(q, "recover", db, SweepScript(order))
        BY <1>3, <3>3
      <4> QED
        BY <2>3, <4>1, <4>2
    <3> QED
      BY <2>3, <3>2, <3>3
  <2> QED
    BY <2>1, <2>2, <2>3 DEF Read
<1>6. OnTrack(k, db, s)'
  BY <1>4, <1>5, OnTrackStands
<1>7. Pending(q, k, db, s)'
  BY <1>1, <1>4, <1>5, <1>6 DEF Pending, Tx
<1> QED
  BY <1>7 DEF Connection, Goroutine

LEMMA StatementPends ==
  ASSUME Connection, NEW q \in Goroutine, Statement(q)
  PROVE  Connection'
<1>1. PICK kind, db, todo : Pending(q, kind, db, todo)
  BY OwnerPends DEF Statement
<1>2. tx = Tx(q, kind, db, todo) /\ todo # <<>> /\ UNCHANGED vars /\ want' = want
  BY <1>1, OneOwner DEF Pending, Statement
<1>3. PICK after : after = Run(db, Head(todo))
  OBVIOUS
<1>4. tx' = Tx(q, kind, after, Tail(todo))
  BY <1>2, <1>3 DEF Statement, Tx
<1>5. OnTrack(kind, after, Tail(todo))
  BY <1>1, <1>2, <1>3, LeadsStep DEF Pending, OnTrack
<1>6. OnTrack(kind, after, Tail(todo))'
  BY <1>2, <1>5, OnTrackStands
<1>7. Pending(q, kind, after, Tail(todo))'
  BY <1>1, <1>2, <1>4, <1>6 DEF Pending, Tx
<1> QED
  BY <1>7 DEF Connection, Goroutine

-----------------------------------------------------------------------------
(* The end of a transaction *)

\* Something is owed while somebody records.
LEMMA SomethingOwed ==
  ASSUME TypeOK, QueueOK, NEW q \in Goroutine, want[q] = "record"
  PROVE  owed > 0
<1>1. q \in Recording
  BY DEF Recording
<1>2. Cardinality(Recording) # 0
  BY <1>1, FS_EmptySet DEF QueueOK
<1> QED
  BY <1>2 DEF TypeOK, QueueOK

\* A swept transaction has logged something exactly if something had expired.
LEMMA SweepLogs ==
  ASSUME TypeOK, NEW end, SweepGoal(end)
  PROVE  Len(end.audit) > Len(audit) <=> ListExpiredActive(now) # {}
<1> DEFINE ids == ListExpiredActive(now)
<1>1. ids \in SUBSET (DOMAIN leases)
  BY DEF ListExpiredActive
<1>2. PICK order \in SweepOrders(ids) : end.audit = audit \o SweepRows(order)
  BY DEF SweepGoal, DB
<1> HIDE DEF ids
<1>3. /\ SweepRows(order) \in Seq(AuditRow)
      /\ DOMAIN SweepRows(order) = DOMAIN order
  BY <1>1, OrderType DEF SweepRows
<1>4. Len(end.audit) = Len(audit) + Len(SweepRows(order))
  BY <1>2, <1>3 DEF TypeOK
<1>5. Len(SweepRows(order)) > 0 <=> DOMAIN order # {}
  <2>1. PICK rows \in Seq(AuditRow) : rows = SweepRows(order)
    BY <1>3
  <2>2. DOMAIN rows = 1 .. Len(rows) /\ Len(rows) \in Nat
    OBVIOUS
  <2>3. 1 .. Len(rows) # {} <=> Len(rows) > 0
    BY <2>2
  <2> QED
    BY <1>3, <2>1, <2>2, <2>3
<1>6. DOMAIN order # {} <=> ids # {}
  BY <1>1, OrderComplete
<1>7. Len(end.audit) \in Nat /\ Len(audit) \in Nat /\ Len(SweepRows(order)) \in Nat
  BY <1>3, <1>4 DEF TypeOK
<1>8. Len(end.audit) > Len(audit) <=> Len(SweepRows(order)) > 0
  BY <1>4, <1>7
<1> QED
  BY <1>5, <1>6, <1>8 DEF ids

\* What commits is the outcome.
LEMMA CommitOutcome ==
  ASSUME Connection, NEW q, Commit(q)
  PROVE  \E kind, end : /\ Outcome(kind, end) /\ Commits(end)
                        /\ kind = tx.kind /\ end = tx.db
                        /\ want[q] # "nothing"
                        /\ kind = "record" <=> want[q] = "record"
<1>1. PICK kind, db, todo : Pending(q, kind, db, todo)
  BY OwnerPends DEF Commit
<1>2. kind = tx.kind /\ db = tx.db /\ todo = <<>> /\ kind # "reading"
  BY <1>1, OneOwner DEF Pending, Commit
<1>3. PICK end : Outcome(kind, end) /\ Leads(db, <<>>, end)
  BY <1>1, <1>2 DEF Pending, OnTrack
<1>4. end = db
  BY <1>3, LeadsDone
<1>5. Commits(end)
  BY <1>2, <1>4 DEF Commit, Commits
<1> QED
  BY <1>1, <1>2, <1>3, <1>4, <1>5 DEF Pending

LEMMA CommitSteps ==
  ASSUME ServerInv, NEW q \in Goroutine, Commit(q)
  PROVE  [Next]_vars
<1> USE DEF ServerInv
<1>1. PICK kind, end : /\ Outcome(kind, end) /\ Commits(end)
                       /\ kind = tx.kind /\ end = tx.db
                       /\ kind = "record" <=> want[q] = "record"
  BY CommitOutcome
<1>2. /\ owed' = IF kind = "recover" /\ Expired(q) THEN owed + 1
                 ELSE IF kind = "record" THEN owed - 1 ELSE owed
      /\ phase' = IF kind = "record" \/ (kind = "recover" /\ ~Expired(q))
                  THEN "serving" ELSE phase
      /\ now' = now
  BY <1>1 DEF Commit, Finish
<1>3. CASE kind = "record" /\ RecordGoal(end)
  <2>1. owed' = owed - 1 /\ phase' = "serving"
    BY <1>2, <1>3
  <2>2. owed > 0
    BY <1>1, <1>3, SomethingOwed
  <2>3. /\ resources' = resources /\ leases' = leases
        /\ audit' = audit \o <<Entry("recover", NoLease, NoResource, 0, now, "")>>
    BY <1>1, <1>3, CommitsDB DEF RecordGoal
  <2> QED
    BY <1>2, <2>1, <2>2, <2>3, Zenon DEF Next, AuditRecover, Log
<1>4. CASE kind = "method" /\ Accepting /\ MethodGoal(end)
  <2>1. UNCHANGED <<now, process>>
    BY <1>2, <1>4 DEF process
  <2> QED
    BY <1>1, <1>4, <2>1, MethodCommits
<1>5. CASE kind = "method" /\ phase = "serving" /\ SweepGoal(end)
  <2>1. UNCHANGED <<now, process>>
    BY <1>2, <1>5 DEF process
  <2>2. SweepCommit(ListExpiredActive(now))
    BY <1>1, <1>2, <1>5, SweepCommits
  <2> QED
    BY <1>5, <2>1, <2>2 DEF Next, Sweep
<1>6. CASE /\ kind = "recover" /\ SweepGoal(end)
           /\ owed < (IF phase = "starting" THEN 1 ELSE MaxOwed)
  <2>1. SweepCommit(ListExpiredActive(now))
    BY <1>1, <1>2, <1>6, SweepCommits
  <2>2. Expired(q) <=> ListExpiredActive(now) # {}
    BY <1>1, <1>6, SweepLogs DEF Expired
  <2>3. IF ListExpiredActive(now) = {}
        THEN phase' = "serving" /\ UNCHANGED owed
        ELSE owed' = owed + 1 /\ UNCHANGED phase
    BY <1>2, <1>6, <2>2
  <2> QED
    BY <1>6, <2>1, <2>3 DEF Next, Recover
<1> QED
  BY <1>1, <1>3, <1>4, <1>5, <1>6 DEF Outcome

LEMMA FailSteps ==
  ASSUME ServerInv, NEW q \in Goroutine, Fail(q)
  PROVE  [Next]_vars
<1> USE DEF ServerInv
<1>1. UNCHANGED <<tables, now>>
  BY DEF Fail
<1>2. /\ owed' = IF want[q] = "record" THEN owed - 1 ELSE owed
      /\ phase' = IF want[q] = "record" THEN "serving" ELSE phase
  BY DEF Fail, Finish
<1>3. CASE want[q] = "record"
  <2>1. owed > 0
    BY <1>3, SomethingOwed
  <2> QED
    BY <1>1, <1>2, <1>3, <2>1 DEF Next, AuditRecover, tables
<1>4. CASE want[q] # "record"
  BY <1>1, <1>2, <1>4 DEF vars, process
<1> QED
  BY <1>3, <1>4

LEMMA BeginSteps ==
  ASSUME ServerInv, NEW q \in Goroutine, Begin(q)
  PROVE  [Next]_vars
<1>1. UNCHANGED <<tables, process>> /\ now' = clock
  BY DEF Begin
<1>2. now \in Int /\ clock \in Int /\ clock \in Time /\ (clock < now => BackwardClock)
  BY ManagerAssumption DEF ServerInv, TypeOK, QueueOK, Time
<1>3. CASE clock > now
  <2>1. ClockForward
    BY <1>1, <1>2, <1>3 DEF ClockForward
  <2> QED
    BY <2>1 DEF Next
<1>4. CASE clock < now
  <2>1. ClockBack
    BY <1>1, <1>2, <1>4 DEF ClockBack
  <2> QED
    BY <2>1 DEF Next
<1>5. CASE clock = now
  BY <1>1, <1>5 DEF vars
<1> QED
  BY <1>2, <1>3, <1>4, <1>5

\* Every step of the server is one of LeaseManager's, or changes nothing there.
LEMMA ServerSteps ==
  ASSUME ServerInv, [ServerNext]_svars
  PROVE  [Next]_vars
<1>1. ASSUME NEW q \in Goroutine, Ask(q) \/ Read(q) \/ Statement(q)
      PROVE  [Next]_vars
  BY <1>1 DEF Ask, Read, Statement
<1>2. ASSUME NEW q \in Goroutine, Begin(q) \/ Step(q)
      PROVE  [Next]_vars
  BY <1>1, <1>2, BeginSteps, CommitSteps, FailSteps DEF Step
<1>3. CASE Crash
  BY <1>3 DEF Crash, Next
<1>4. CASE ClockMoves \/ UNCHANGED svars
  BY <1>4 DEF ClockMoves, svars
<1> QED
  BY <1>1, <1>2, <1>3, <1>4 DEF ServerNext

-----------------------------------------------------------------------------
(* The invariant holds after every step *)

LEMMA FinishQueue ==
  ASSUME TypeOK, QueueOK, NEW q \in Goroutine,
         NEW recovered \in BOOLEAN, NEW recorded \in BOOLEAN,
         Finish(q, recovered, recorded), UNCHANGED <<now, clock, asked>>,
         want[q] # "nothing", recorded <=> want[q] = "record",
         recovered => want[q] # "record"
  PROVE  QueueOK'
<1> DEFINE again == recovered /\ Expired(q)
<1>1. /\ want' = [want EXCEPT ![q] = IF again THEN "record" ELSE "nothing"]
      /\ owed' = IF again THEN owed + 1 ELSE IF recorded THEN owed - 1 ELSE owed
      /\ phase' \in {phase, "serving"}
  BY DEF Finish
<1>2. want' \in [Goroutine -> {"nothing", "call", "record"}]
  BY <1>1 DEF QueueOK
<1>3. \A o \in Goroutine : o # q => want'[o] = want[o]
  BY <1>1 DEF QueueOK
<1>4. want'[q] = IF again THEN "record" ELSE "nothing"
  BY <1>1 DEF QueueOK
<1> HIDE DEF again
<1>5. \A o \in Caller : want'[o] # "nothing" => phase' = "serving"
  BY <1>1, <1>3, <1>4 DEF QueueOK, Goroutine
<1>6. IsFiniteSet(Recording') /\ owed' = Cardinality(Recording')
  <2>1. Recording' = {o \in Goroutine : want'[o] = "record"}
    BY DEF Recording, Goroutine
  <2>2. IsFiniteSet(Recording) /\ owed = Cardinality(Recording)
    BY DEF QueueOK
  <2>3. CASE again
    <3>1. q \notin Recording
      BY <2>3 DEF again, Recording
    <3>2. Recording' = Recording \cup {q}
      BY <1>3, <1>4, <2>1, <2>3 DEF Recording
    <3> QED
      BY <1>1, <2>2, <2>3, <3>1, <3>2, FS_AddElement
  <2>4. CASE ~again /\ recorded
    <3>1. q \in Recording
      BY <2>4 DEF Recording
    <3>2. Recording' = Recording \ {q}
      BY <1>3, <1>4, <2>1, <2>4 DEF Recording
    <3> QED
      BY <1>1, <2>2, <2>4, <3>1, <3>2, FS_RemoveElement
  <2>5. CASE ~again /\ ~recorded
    <3>1. Recording' = Recording
      BY <1>3, <1>4, <2>1, <2>5 DEF Recording
    <3> QED
      BY <1>1, <2>2, <2>5, <3>1
  <2> QED
    BY <2>3, <2>4, <2>5
<1>7. clock' = clock /\ asked' = asked /\ now' = now
  OBVIOUS
<1>8. (clock \in Time)' /\ (~BackwardClock => now <= clock)' /\ (asked \in [Goroutine -> Time])'
  BY <1>7 DEF QueueOK, Goroutine, Time
<1> QED
  BY <1>2, <1>5, <1>6, <1>8 DEF QueueOK, Goroutine

LEMMA SameRecording ==
  ASSUME QueueOK, UNCHANGED owed,
         \A q \in Goroutine : want'[q] = "record" <=> want[q] = "record"
  PROVE  (IsFiniteSet(Recording) /\ owed = Cardinality(Recording))'
<1>1. Recording' = Recording
  BY DEF Recording, Goroutine
<1> QED
  BY <1>1 DEF QueueOK

LEMMA AskQueue ==
  ASSUME QueueOK, NEW q \in Goroutine, Ask(q)
  PROVE  QueueOK'
<1>1. /\ q \in Caller /\ phase = "serving" /\ want[q] = "nothing"
      /\ want' = [want EXCEPT ![q] = "call"]
      /\ asked' = [asked EXCEPT ![q] = clock]
      /\ UNCHANGED <<vars, clock>>
  BY DEF Ask
<1>2. owed' = owed /\ now' = now /\ phase' = phase /\ clock' = clock
  BY <1>1 DEF vars, process
<1>3. \A o \in Goroutine : want'[o] = IF o = q THEN "call" ELSE want[o]
  BY <1>1 DEF QueueOK
<1>4. (IsFiniteSet(Recording) /\ owed = Cardinality(Recording))'
  BY <1>1, <1>2, <1>3, SameRecording
<1>5. /\ want' \in [Goroutine -> {"nothing", "call", "record"}]
      /\ asked' \in [Goroutine -> Time]
  BY <1>1 DEF QueueOK
<1>6. (clock \in Time)' /\ (~BackwardClock => now <= clock)'
  BY <1>2 DEF QueueOK, Time
<1> QED
  BY <1>1, <1>2, <1>4, <1>5, <1>6 DEF QueueOK, Goroutine, Time

LEMMA CrashQueue ==
  ASSUME QueueOK, Crash
  PROVE  QueueOK'
<1>1. /\ want' = [q \in Goroutine |-> IF q = Main THEN "call" ELSE "nothing"]
      /\ asked' = [q \in Goroutine |-> IF q = Main THEN clock ELSE asked[q]]
      /\ clock' = clock /\ now' = now /\ owed' = 0
  BY DEF Crash, Restart
<1>2. Recording' = {}
  BY <1>1 DEF Recording, Goroutine
<1>3. (IsFiniteSet(Recording) /\ owed = Cardinality(Recording))'
  BY <1>1, <1>2, FS_EmptySet
<1>4. /\ want' \in [Goroutine -> {"nothing", "call", "record"}]
      /\ asked' \in [Goroutine -> Time]
  BY <1>1 DEF QueueOK
<1>5. \A q \in Caller : want'[q] = "nothing"
  BY <1>1 DEF Goroutine
<1>6. (clock \in Time)' /\ (~BackwardClock => now <= clock)'
  BY <1>1 DEF QueueOK, Time
<1> QED
  BY <1>3, <1>4, <1>5, <1>6 DEF QueueOK, Goroutine, Time

\* Only the clock, or the transaction's reading of it, has moved.
LEMMA TimeQueue ==
  ASSUME TypeOK, QueueOK, UNCHANGED <<process, want, asked>>,
         \/ now' = clock /\ clock' = clock
         \/ now' = now /\ clock' = clock
         \/ now' = now /\ clock' \in Time /\ (clock' > clock \/ BackwardClock)
  PROVE  QueueOK'
<1>1. owed' = owed /\ phase' = phase /\ want' = want /\ asked' = asked
  BY DEF process
<1>2. (IsFiniteSet(Recording) /\ owed = Cardinality(Recording))'
  BY <1>1, SameRecording
<1>3. now \in Int /\ clock \in Int
  BY ManagerAssumption DEF TypeOK, QueueOK, Time
<1>4. clock' \in Time
  BY DEF QueueOK
<1>5. ~BackwardClock => now' <= clock'
  BY <1>3, <1>4, ManagerAssumption DEF QueueOK, Time
<1> QED
  BY <1>1, <1>2, <1>4, <1>5 DEF QueueOK, Goroutine, Time

LEMMA QueueKept ==
  ASSUME ServerInv, [ServerNext]_svars
  PROVE  QueueOK'
<1> USE DEF ServerInv
<1>1. ASSUME NEW q \in Goroutine, Ask(q)
      PROVE  QueueOK'
  BY <1>1, AskQueue
<1>2. ASSUME NEW q \in Goroutine, Begin(q) \/ Read(q) \/ Statement(q)
      PROVE  QueueOK'
  BY <1>2, TimeQueue DEF Begin, Read, Statement, vars
<1>3. ASSUME NEW q \in Goroutine, Commit(q)
      PROVE  QueueOK'
  <2>1. PICK kind : /\ kind = tx.kind /\ want[q] # "nothing"
                    /\ kind = "record" <=> want[q] = "record"
    BY <1>3, CommitOutcome
  <2>2. PICK recovered \in BOOLEAN, recorded \in BOOLEAN :
          recovered = (tx.kind = "recover") /\ recorded = (tx.kind = "record")
    OBVIOUS
  <2>3. Finish(q, recovered, recorded)
    BY <1>3, <2>2, Zenon DEF Commit
  <2>4. (recorded <=> want[q] = "record") /\ (recovered => want[q] # "record")
    BY <2>1, <2>2
  <2>5. UNCHANGED <<now, clock, asked>>
    BY <1>3 DEF Commit
  <2> QED
    BY <2>1, <2>3, <2>4, <2>5, FinishQueue
<1>4. ASSUME NEW q \in Goroutine, Fail(q)
      PROVE  QueueOK'
  <2>1. want[q] # "nothing"
    BY <1>4, OwnerPends DEF Fail, Pending
  <2>2. PICK recovered \in BOOLEAN, recorded \in BOOLEAN :
          recovered = FALSE /\ recorded = (want[q] = "record")
    OBVIOUS
  <2>3. Finish(q, recovered, recorded)
    BY <1>4, <2>2, Zenon DEF Fail
  <2>4. (recorded <=> want[q] = "record") /\ (recovered => want[q] # "record")
    BY <2>2
  <2>5. UNCHANGED <<now, clock, asked>>
    BY <1>4 DEF Fail
  <2> QED
    BY <2>1, <2>3, <2>4, <2>5, FinishQueue
<1>5. CASE Crash
  BY <1>5, CrashQueue
<1>6. CASE ClockMoves \/ UNCHANGED svars
  BY <1>6, TimeQueue DEF ClockMoves, svars, vars
<1> QED
  BY <1>1, <1>2, <1>3, <1>4, <1>5, <1>6 DEF ServerNext, Step

LEMMA ConnectionKept ==
  ASSUME ServerInv, [ServerNext]_svars
  PROVE  Connection'
<1> USE DEF ServerInv
<1>1. ASSUME NEW q \in Goroutine, Ask(q)
      PROVE  Connection'
  BY <1>1, ConnectionStands DEF Ask, QueueOK
<1>2. ASSUME NEW q \in Goroutine, Begin(q) \/ Read(q) \/ Statement(q)
      PROVE  Connection'
  BY <1>2, BeginPends, ReadPends, StatementPends
<1>3. ASSUME NEW q \in Goroutine, Commit(q) \/ Fail(q)
      PROVE  Connection'
  BY <1>3 DEF Commit, Fail, Connection, NoTx
<1>4. CASE Crash
  BY <1>4 DEF Crash, Connection, NoTx
<1>5. CASE ClockMoves \/ UNCHANGED svars
  BY <1>5, ConnectionStands DEF ClockMoves, svars
<1> QED
  BY <1>1, <1>2, <1>3, <1>4, <1>5 DEF ServerNext, Step

LEMMA ServerInvKept == ServerInv /\ [ServerNext]_svars => ServerInv'
BY ServerSteps, StepType, QueueKept, ConnectionKept DEF ServerInv

LEMMA ServerInitInv == ServerInit => ServerInv
<1> SUFFICES ASSUME ServerInit PROVE ServerInv
  OBVIOUS
<1> USE DEF ServerInit
<1>1. TypeOK
  BY InitType
<1>2. /\ clock = now /\ owed = 0
      /\ want = [q \in Goroutine |-> IF q = Main THEN "call" ELSE "nothing"]
      /\ asked = [q \in Goroutine |-> now]
  BY DEF Init
<1>3. Recording = {}
  BY <1>2 DEF Recording
<1>4. now \in Time /\ now <= clock
  BY <1>1, <1>2, ManagerAssumption DEF TypeOK, Time
<1>5. /\ want \in [Goroutine -> {"nothing", "call", "record"}]
      /\ asked \in [Goroutine -> Time]
      /\ \A q \in Caller : want[q] = "nothing"
  BY <1>2, <1>4 DEF Goroutine
<1>6. IsFiniteSet(Recording) /\ owed = Cardinality(Recording)
  BY <1>2, <1>3, FS_EmptySet
<1>7. QueueOK
  BY <1>2, <1>4, <1>5, <1>6 DEF QueueOK
<1> QED
  BY <1>1, <1>7 DEF ServerInv, Connection

-----------------------------------------------------------------------------
(* Theorems *)

\* The server's invariant, with the open transaction on its way to a step of
\* LeaseManager.
LEMMA ServerInvariant == ServerSpec => []ServerInv
BY ServerInitInv, ServerInvKept, PTL DEF ServerSpec

\* Who holds the connection wants something, and a recovery is owed for exactly
\* the goroutines that have one to record, whatever the number of callers.
THEOREM QueueFits == ServerSpec => []ServerTypeOK
<1>1. ASSUME ServerInv
      PROVE  ServerTypeOK
  <2>1. tx # NoTx => \E q \in Goroutine : Owns(q) /\ want[q] # "nothing"
    BY <1>1, OneOwner DEF ServerInv, Connection, Pending
  <2> QED
    BY <1>1, <2>1 DEF ServerTypeOK, ServerInv, QueueOK, Recording
<1> QED
  BY <1>1, ServerInvariant, PTL

\* database/sql with one connection and BEGIN IMMEDIATE: statement by statement,
\* with an error or a crash after any of them, the server implements the
\* service whose methods are single steps.
THEOREM MethodsAtomic == ServerSpec => MethodsAreAtomic
<1>1. ServerInit => Init
  BY DEF ServerInit
<1> QED
  BY <1>1, ServerInvariant, ServerSteps, PTL DEF ServerSpec, MethodsAreAtomic, Spec

\* What holds of the methods as single steps therefore holds of the server: one
\* current lease, counters past every retired token, grants in growing order,
\* locks that hold, and a log that, read alone, gives the tables.
THEOREM ServerKeepsPromises ==
  ServerSpec => [](/\ CurrentLease /\ TokenLedger
                   /\ GrantTokensIncrease /\ LockGate /\ AuditReplays)
BY MethodsAtomic, OneHolder, RetiredTokensPassed, GrantsIncrease, LocksHold, LogReplays, PTL
   DEF MethodsAreAtomic

\* And from the statements of a transaction up to what a storage system behind
\* the service relies on: the server implements the abstract fenced lease.
THEOREM ServerFences == ServerSpec => FencedSpec
BY MethodsAtomic, Refines, PTL DEF MethodsAreAtomic

\* No statement, commit, rollback or crash changes a lease that has ended, or
\* ends one before its deadline unless it was asked to.
THEOREM ServerKeepsLeases == ServerSpec => TerminalRowsFrozen /\ LiveLeaseSurvives
BY MethodsAtomic, RetiredRowsFrozen, LiveLeaseKept, PTL DEF MethodsAreAtomic

\* When nobody sets the clock back, the log is in the order of its times,
\* however long a request waited for the connection.
THEOREM LogInClockOrder == ServerSpec => []AuditInClockOrder
<1>1. PastInOrder => AuditInClockOrder
  BY DEF PastInOrder, AuditInClockOrder
<1> QED
  BY <1>1, PastOrdered, MethodsAtomic, PTL DEF MethodsAreAtomic

=============================================================================
