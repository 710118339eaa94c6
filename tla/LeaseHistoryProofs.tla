------------------------- MODULE LeaseHistoryProofs -------------------------
(***************************************************************************)
(* Theorems that relate the rows a step writes to the audit log to what it *)
(* does to the tables: a live lease is not taken from its holder, a start  *)
(* leaves nothing stale behind, and the log, read alone, gives the lock    *)
(* flags, the deadlines and the holders of the tables.                     *)
(***************************************************************************)
EXTENDS LeaseLogProofs

USE StoreAssumption, ManagerAssumption

-----------------------------------------------------------------------------
(* A live lease survives *)

\* The leases whose status differs after a step that only ends those of gone.
LEMMA OnlyGone ==
  ASSUME TypeOK, NEW gone, NEW status,
         NEW id \in DOMAIN leases,
         \/ leases' = SetLeaseStatus(leases, gone, "active", status)
         \/ \E new, row :
              /\ new \notin DOMAIN leases
              /\ leases' = InsertLease(
                   SetLeaseStatus(leases, gone, "active", status), new, row)
  PROVE  leases'[id].status # leases[id].status => id \in gone
BY DEF SetLeaseStatus, InsertLease

LEMMA StatusKept ==
  ASSUME TypeOK, NEW id \in DOMAIN leases, NEW x, NEW token, NEW ttl, NEW action,
         Extend(x, ttl, action) \/ Heartbeat(x, token)
  PROVE  leases'[id].status = leases[id].status
<1>1. CASE Extend(x, ttl, action)
  <2>1. leases' = UpdateLeaseExpiry(leases, x, ttl, Add64(now, ttl), now)
    BY <1>1 DEF Extend
  <2> QED
    BY <2>1 DEF UpdateLeaseExpiry, TypeOK, LeaseRow
<1>2. CASE Heartbeat(x, token)
  BY <1>2 DEF Heartbeat, UpdateLeaseHeartbeat, TypeOK, LeaseRow
<1> QED
  BY <1>1, <1>2

\* The first row that a step appends.
LEMMA FirstRow ==
  ASSUME TypeOK, NEW e \in AuditRow, NEW f \in AuditRow,
         Log(<<e>>) \/ Log(<<e, f>>)
  PROVE  /\ Len(audit) + 1 \in Len(audit) + 1 .. Len(audit')
         /\ audit'[Len(audit) + 1] = e
BY DEF TypeOK, Log

\* The holder or an administrator ended the lease id, and the log says so.
EndedOnRequest(id) ==
  \E i \in Len(audit) + 1 .. Len(audit') :
    /\ audit'[i].lease_id = id
    /\ audit'[i].action \in {"release", "transfer", "force_release"}

LEMMA RetireOnRequest ==
  ASSUME TypeOK, NEW id \in DOMAIN leases, NEW x \in DOMAIN leases,
         NEW action \in {"release", "force_release"}, Retire(x, action),
         leases'[id].status # leases[id].status
  PROVE  EndedOnRequest(id)
<1> DEFINE e == LeaseEntry(action, x, leases[x], now, "")
<1>1. leases' = SetLeaseStatus(leases, {x}, "active", "released")
  BY DEF Retire
<1>2. id = x
  BY <1>1, OnlyGone
<1>3. e \in AuditRow /\ e.lease_id = x /\ e.action = action
  BY EntryType DEF TypeOK, AuditAction, Detail, LeaseEntry, Entry
<1>4. Log(<<e>>)
  BY DEF Retire
<1> HIDE DEF e
<1>5. /\ Len(audit) + 1 \in Len(audit) + 1 .. Len(audit')
      /\ audit'[Len(audit) + 1] = e
  BY <1>3, <1>4, FirstRow
<1> QED
  BY <1>2, <1>3, <1>5 DEF EndedOnRequest

LEMMA TransferOnRequest ==
  ASSUME TypeOK, NEW id \in DOMAIN leases, NEW x \in LeaseId, NEW token,
         NEW h \in Holder, NEW newID \in LeaseId, Transfer(x, token, h, newID),
         leases'[id].status # leases[id].status
  PROVE  EndedOnRequest(id)
<1> DEFINE old == leases[x]
           fresh == [old EXCEPT !.holder = h,
                                !.fencing_token = NextToken(old.resource),
                                !.last_heartbeat = now]
           e == LeaseEntry("transfer", x, old, now, "to")
           f == LeaseEntry("transfer", newID, fresh, now, "from")
<1>1. x \in DOMAIN leases /\ old \in LeaseRow /\ old.resource \in Resource
  BY DEF Transfer, Usable, Presented, TypeOK, LeaseRow
<1>2. NextToken(old.resource) \in Nat /\ now \in Int64
  BY <1>1, RowType, TimeType DEF TypeOK
<1>3. fresh \in LeaseRow
  BY <1>1, <1>2 DEF LeaseRow
<1>4. /\ newID \notin DOMAIN leases
      /\ leases' = InsertLease(
           SetLeaseStatus(leases, {x}, "active", "released"), newID, fresh)
      /\ Log(<<e, f>>)
  BY DEF Transfer
<1> HIDE DEF old, fresh
<1>5. id = x
  BY <1>4, OnlyGone
<1>6. e \in AuditRow /\ f \in AuditRow /\ e.lease_id = x /\ e.action = "transfer"
  BY <1>1, <1>3, EntryType DEF TypeOK, AuditAction, Detail, LeaseEntry, Entry
<1> HIDE DEF e, f
<1>7. /\ Len(audit) + 1 \in Len(audit) + 1 .. Len(audit')
      /\ audit'[Len(audit) + 1] = e
  BY <1>4, <1>6, FirstRow
<1> QED
  BY <1>5, <1>6, <1>7 DEF EndedOnRequest

LEMMA AcquireTakesExpired ==
  ASSUME TypeOK, NEW id \in DOMAIN leases, NEW r \in Resource, NEW h \in Holder,
         NEW ttl \in TTL, NEW new \in LeaseId, Acquire(r, h, ttl, new),
         leases'[id].status # leases[id].status
  PROVE  leases[id].expires_at <= now
<1>1. PICK existing \in GetActiveLeaseByResource(r) :
        /\ \A old \in existing : Evictable(leases[old])
        /\ \E row : leases' = InsertLease(
             SetLeaseStatus(leases, existing, "active", "expired"), new, row)
  BY DEF Acquire
<1>2. new \notin DOMAIN leases
  BY DEF Acquire
<1>3. id \in existing
  BY <1>1, <1>2, OnlyGone
<1> QED
  BY <1>1, <1>3 DEF Evictable

LEMMA SweepTakesExpired ==
  ASSUME TypeOK, NEW id \in DOMAIN leases, SweepCommit(ListExpiredActive(now)),
         leases'[id].status # leases[id].status
  PROVE  leases[id].expires_at <= now
<1>1. leases' = SetLeaseStatus(leases, ListExpiredActive(now), "active", "expired")
  BY DEF SweepCommit
<1> QED
  BY <1>1, OnlyGone DEF ListExpiredActive

LEMMA StepSurvives ==
  ASSUME TypeOK, Next, NEW id \in DOMAIN leases,
         leases'[id].status # leases[id].status
  PROVE  leases[id].expires_at <= now \/ EndedOnRequest(id)
<1>1. CASE UNCHANGED leases
  BY <1>1
<1>2. CASE AcquireRequest
  BY <1>2, AcquireTakesExpired DEF AcquireRequest
<1>3. CASE LeaseRequest
  <2>1. ASSUME NEW x \in LeaseId, NEW token, NEW ttl \in TTL,
               Renew(x, token, ttl) \/ UpdateTTL(x, token, ttl) \/ Heartbeat(x, token)
        PROVE  FALSE
    BY <2>1, StatusKept DEF Renew, UpdateTTL
  <2>2. ASSUME NEW x \in LeaseId, NEW token, Release(x, token)
        PROVE  EndedOnRequest(id)
    BY <1>1, <2>2, RetireOnRequest DEF Release, Presented, vars, tables
  <2>3. ASSUME NEW x \in LeaseId, NEW token, Heartbeat(x, token)
        PROVE  FALSE
    BY <2>3, StatusKept
  <2> QED
    BY <1>3, <2>1, <2>2, <2>3, TransferOnRequest DEF LeaseRequest
<1>4. CASE AdminRequest
  <2>1. ASSUME NEW x \in LeaseId, ForceRelease(x)
        PROVE  EndedOnRequest(id)
    BY <1>1, <2>1, RetireOnRequest DEF ForceRelease, vars, tables
  <2>2. ASSUME NEW r \in Resource, LockResource(r) \/ UnlockResource(r)
        PROVE  UNCHANGED leases
    BY <2>2 DEF LockResource, UnlockResource, SetLock, vars, tables
  <2> QED
    BY <1>1, <1>4, <2>1, <2>2 DEF AdminRequest
<1>5. CASE Sweep \/ Recover
  BY <1>5, SweepTakesExpired DEF Sweep, Recover
<1>6. CASE AuditRecover \/ Restart \/ ClockForward \/ ClockBack
  BY <1>1, <1>6 DEF AuditRecover, Restart, ClockForward, ClockBack, tables
<1> QED
  BY <1>2, <1>3, <1>4, <1>5, <1>6 DEF Next

\* Nobody but its holder and an administrator ends a lease before its time.
THEOREM LiveLeaseKept == Spec => LiveLeaseSurvives
<1> DEFINE Survives ==
      \A id \in DOMAIN leases :
        (/\ leases[id].status = "active"
         /\ leases[id].expires_at > now
         /\ leases'[id].status # "active")
          => \E i \in Len(audit) + 1 .. Len(audit') :
               /\ audit'[i].lease_id = id
               /\ audit'[i].action \in {"release", "transfer", "force_release"}
<1>1. ASSUME TypeOK, [Next]_vars
      PROVE  Survives
  <2> SUFFICES ASSUME NEW id \in DOMAIN leases,
                      leases[id].status = "active",
                      leases[id].expires_at > now,
                      leases'[id].status # "active"
               PROVE  EndedOnRequest(id)
    BY DEF EndedOnRequest
  <2>1. leases[id].expires_at \in Int /\ now \in Int
    BY <1>1, TimeType DEF TypeOK, LeaseRow, Int64
  <2>2. CASE UNCHANGED vars
    BY <2>2 DEF vars, tables
  <2>3. CASE Next
    BY <1>1, <2>1, <2>3, StepSurvives
  <2> QED
    BY <1>1, <2>2, <2>3
<1> QED
  BY <1>1, TypeCorrect, PTL DEF Spec, LiveLeaseSurvives

-----------------------------------------------------------------------------
(* A start leaves nothing stale *)

\* While main's Recover runs there is at most one pass under way, and once its
\* sweep has committed no active lease is past the time of the last sweep row.
StartupInv ==
  phase = "starting" =>
    /\ owed \in {0, 1}
    /\ owed = 1 =>
         /\ audit # <<>>
         /\ \A id \in DOMAIN leases :
              leases[id].status = "active" => leases[id].expires_at > Last(audit).at

\* What is active after a sweep is not past its deadline.
LEMMA SweptClean ==
  ASSUME TypeOK, SweepCommit(ListExpiredActive(now))
  PROVE  \A id \in DOMAIN leases' :
           leases'[id].status = "active" => leases'[id].expires_at > now
<1> SUFFICES ASSUME NEW id \in DOMAIN leases', leases'[id].status = "active"
             PROVE  leases'[id].expires_at > now
  OBVIOUS
<1>1. leases' = SetLeaseStatus(leases, ListExpiredActive(now), "active", "expired")
  BY DEF SweepCommit
<1>2. /\ id \in DOMAIN leases
      /\ leases[id].status = "active"
      /\ id \notin ListExpiredActive(now)
      /\ leases'[id] = leases[id]
  BY <1>1 DEF SetLeaseStatus, TypeOK, LeaseRow
<1>3. ~(leases[id].expires_at <= now)
  BY <1>2 DEF ListExpiredActive
<1>4. leases[id].expires_at \in Int /\ now \in Int
  BY <1>2, TimeType DEF TypeOK, LeaseRow, Int64
<1> QED
  BY <1>2, <1>3, <1>4

LEMMA LastOfConcat ==
  ASSUME NEW S, NEW s \in Seq(S), NEW t \in Seq(S), Len(t) # 0
  PROVE  /\ Len(s \o t) = Len(s) + Len(t)
         /\ (s \o t)[Len(s) + Len(t)] = t[Len(t)]
OBVIOUS

\* The last row after a sweep that expired something carries its time.
LEMMA LastSweepRow ==
  ASSUME TypeOK, NEW expired \in SUBSET (DOMAIN leases), expired # {},
         SweepCommit(expired)
  PROVE  audit' # <<>> /\ Last(audit').at = now
<1>1. PICK order \in SweepOrders(expired) : audit' = audit \o SweepRows(order)
  BY DEF SweepCommit, Log
<1> DEFINE n == Cardinality(expired)
           rows == SweepRows(order)
<1>2. n \in Nat /\ n # 0
  <2>1. IsFiniteSet(expired)
    BY FS_Subset DEF TypeOK
  <2> QED
    BY <2>1, FS_CardinalityType, FS_EmptySet
<1>3. order \in [1 .. n -> expired]
  BY DEF SweepOrders, SetToSeqs
<1>4. rows \in Seq(AuditRow)
  BY OrderType
<1> HIDE DEF n
<1>5. DOMAIN rows = 1 .. n /\ rows[n].at = now
  <2>1. DOMAIN order = 1 .. n /\ n \in 1 .. n
    BY <1>2, <1>3
  <2> QED
    BY <2>1 DEF SweepRows, LeaseEntry, Entry
<1> HIDE DEF rows
<1>6. Len(rows) = n
  BY <1>2, <1>4, <1>5
<1>7. audit \in Seq(AuditRow) /\ audit' = audit \o rows
  BY <1>1 DEF TypeOK, rows
<1>8. Len(audit') = Len(audit) + n /\ audit'[Len(audit) + n] = rows[n]
  BY <1>2, <1>4, <1>6, <1>7, LastOfConcat
<1> QED
  BY <1>2, <1>5, <1>7, <1>8 DEF Last

LEMMA RequestServes ==
  ASSUME AcquireRequest \/ LeaseRequest \/ AdminRequest \/ Sweep
  PROVE  phase = "serving" /\ UNCHANGED <<phase, owed>>
<1> DEFINE Served == phase = "serving" /\ UNCHANGED <<phase, owed>>
<1>1. \A r, h, ttl, id : Acquire(r, h, ttl, id) => Served
  BY DEF Acquire, Accepting, process
<1>2. \A id, ttl, action : Extend(id, ttl, action) => UNCHANGED <<phase, owed>>
  BY DEF Extend, process
<1>3. \A id, action : Retire(id, action) => UNCHANGED <<phase, owed>>
  BY DEF Retire, process
<1>4. \A id, token, ttl : Renew(id, token, ttl) \/ UpdateTTL(id, token, ttl) => Served
  BY <1>2 DEF Renew, UpdateTTL, Accepting
<1>5. \A id, token : Heartbeat(id, token) => Served
  BY DEF Heartbeat, Accepting, process
<1>6. \A id, token : Release(id, token) \/ ForceRelease(id) => Served
  BY <1>3 DEF Release, ForceRelease, Accepting, vars, process
<1>7. \A id, token, h, new : Transfer(id, token, h, new) => Served
  BY DEF Transfer, Accepting, process
<1>8. \A r, locked, action : SetLock(r, locked, action) => Served
  BY DEF SetLock, Accepting, vars, process
<1>9. Sweep => Served
  BY DEF Sweep, process
<1> HIDE DEF Served
<1>10. AcquireRequest => Served
  BY <1>1 DEF AcquireRequest
<1>11. LeaseRequest => Served
  BY <1>4, <1>5, <1>6, <1>7 DEF LeaseRequest
<1>12. AdminRequest => Served
  BY <1>6, <1>8 DEF AdminRequest, LockResource, UnlockResource
<1> QED
  BY <1>9, <1>10, <1>11, <1>12 DEF Served

LEMMA StepStartup ==
  ASSUME TypeOK, StartupInv, [Next]_vars
  PROVE  StartupInv'
<1>1. CASE AcquireRequest \/ LeaseRequest \/ AdminRequest \/ Sweep
  BY <1>1, RequestServes DEF StartupInv
<1>2. CASE Recover
  <2> SUFFICES ASSUME phase' = "starting"
               PROVE  StartupInv'
    BY DEF StartupInv
  <2> DEFINE expired == ListExpiredActive(now)
  <2>1. expired # {} /\ phase = "starting" /\ owed' = owed + 1 /\ owed < 1
    BY <1>2 DEF Recover
  <2>2. owed = 0 /\ owed' = 1
    BY <2>1 DEF TypeOK
  <2>3. SweepCommit(expired)
    BY <1>2 DEF Recover
  <2>4. expired \in SUBSET (DOMAIN leases)
    BY DEF ListExpiredActive
  <2>5. audit' # <<>> /\ Last(audit').at = now
    BY <2>1, <2>3, <2>4, LastSweepRow
  <2>6. \A id \in DOMAIN leases' :
          leases'[id].status = "active" => leases'[id].expires_at > now
    BY <2>3, SweptClean
  <2>7. Last(audit)' = Last(audit')
    BY DEF Last
  <2> QED
    BY <2>2, <2>5, <2>6, <2>7 DEF StartupInv
<1>3. CASE AuditRecover \/ Restart
  BY <1>3 DEF AuditRecover, Restart, StartupInv
<1>4. CASE ClockForward \/ ClockBack \/ UNCHANGED vars
  <2>1. UNCHANGED <<leases, audit, phase, owed>>
    BY <1>4 DEF ClockForward, ClockBack, vars, tables, process
  <2> QED
    BY <2>1 DEF StartupInv, Last
<1> QED
  BY <1>1, <1>2, <1>3, <1>4 DEF Next

\* No lease that had run out when Recover looked is served as active.
THEOREM NothingStaleServed == Spec => StartupServesNothingStale
<1> DEFINE Clean ==
      (phase = "starting" /\ phase' = "serving") =>
        LET looked == IF owed = 0 THEN now ELSE Last(audit).at IN
        \A id \in DOMAIN leases' :
          leases'[id].status = "active" => leases'[id].expires_at > looked
<1>1. Init => StartupInv
  BY DEF Init, StartupInv
<1>2. TypeOK /\ StartupInv /\ [Next]_vars => StartupInv'
  BY StepStartup
<1>3. ASSUME TypeOK, StartupInv, [Next]_vars
      PROVE  Clean
  <2> SUFFICES ASSUME phase = "starting", phase' = "serving"
               PROVE  Clean
    OBVIOUS
  <2>1. CASE Recover
    <3>1. owed = 0
      BY <1>3, <2>1 DEF Recover, TypeOK
    <3>2. SweepCommit(ListExpiredActive(now))
      BY <2>1 DEF Recover
    <3> QED
      BY <1>3, <3>1, <3>2, SweptClean
  <2>2. CASE AuditRecover
    <3>1. owed \in {0, 1} /\ owed > 0 /\ UNCHANGED leases
      BY <1>3, <2>2 DEF AuditRecover, StartupInv
    <3>2. owed = 1
      BY <3>1
    <3> QED
      BY <1>3, <3>1, <3>2 DEF StartupInv
  <2>3. CASE Restart \/ ClockForward \/ ClockBack \/ UNCHANGED vars
    BY <2>3 DEF Restart, ClockForward, ClockBack, vars, process
  <2> QED
    BY <1>3, <2>1, <2>2, <2>3, RequestServes DEF Next
<1> QED
  BY <1>1, <1>2, <1>3, TypeCorrect, PTL DEF Spec, StartupServesNothingStale

-----------------------------------------------------------------------------
(* The rows that a step appends *)

Fresh == Len(audit) + 1 .. Len(audit')

LEMMA OldAndFresh ==
  ASSUME LogGrows, audit \in Seq(AuditRow)
  PROVE  /\ DOMAIN audit' = DOMAIN audit \cup Fresh
         /\ \A i \in DOMAIN audit : audit'[i] = audit[i]
         /\ \A i \in DOMAIN audit, p \in Fresh : i < p
         /\ DOMAIN audit \subseteq Int /\ Fresh \subseteq Int
         /\ \A i \in DOMAIN audit' : audit'[i] \in AuditRow
<1>1. /\ audit' \in Seq(AuditRow)
      /\ Len(audit') >= Len(audit)
      /\ \A i \in DOMAIN audit : audit'[i] = audit[i]
  BY DEF LogGrows
<1>2. /\ DOMAIN audit = 1 .. Len(audit) /\ Len(audit) \in Nat
      /\ DOMAIN audit' = 1 .. Len(audit') /\ Len(audit') \in Nat
      /\ \A i \in DOMAIN audit' : audit'[i] \in AuditRow
  BY <1>1
<1>3. DOMAIN audit' = DOMAIN audit \cup Fresh
  BY <1>1, <1>2 DEF Fresh
<1>4. /\ \A i \in DOMAIN audit, p \in Fresh : i < p
      /\ DOMAIN audit \subseteq Int /\ Fresh \subseteq Int
  BY <1>2 DEF Fresh
<1> QED
  BY <1>1, <1>2, <1>3, <1>4

LEMMA OneRow ==
  ASSUME LeaseInv, NEW e \in AuditRow, Log(<<e>>)
  PROVE  Fresh = {Len(audit) + 1} /\ audit'[Len(audit) + 1] = e
<1>1. audit \in Seq(AuditRow) /\ audit' = audit \o <<e>>
  BY DEF LeaseInv, TypeOK, Log
<1>2. Len(audit') = Len(audit) + 1 /\ audit'[Len(audit) + 1] = e
  BY <1>1
<1> QED
  BY <1>1, <1>2 DEF Fresh

LEMMA TwoRows ==
  ASSUME LeaseInv, NEW e \in AuditRow, NEW f \in AuditRow, Log(<<e, f>>)
  PROVE  /\ Fresh = {Len(audit) + 1, Len(audit) + 2}
         /\ audit'[Len(audit) + 1] = e
         /\ audit'[Len(audit) + 2] = f
<1>1. audit \in Seq(AuditRow) /\ audit' = audit \o <<e, f>>
  BY DEF LeaseInv, TypeOK, Log
<1>2. /\ Len(audit') = Len(audit) + 2
      /\ audit'[Len(audit) + 1] = e
      /\ audit'[Len(audit) + 2] = f
  BY <1>1
<1>3. PICK n \in Nat : n = Len(audit)
  BY <1>1
<1>4. n + 1 .. n + 2 = {n + 1, n + 2}
  OBVIOUS
<1>5. Fresh = {Len(audit) + 1, Len(audit) + 2}
  BY <1>2, <1>3, <1>4 DEF Fresh
<1> QED
  BY <1>2, <1>5

SweepEntry(id) == LeaseEntry("sweep", id, leases[id], now, "")

\* An order of ids lists every lease of ids, each of them once.
LEMMA OrderComplete ==
  ASSUME TypeOK, NEW ids \in SUBSET (DOMAIN leases), NEW order \in SweepOrders(ids)
  PROVE  /\ DOMAIN order = 1 .. Cardinality(ids)
         /\ \A i \in DOMAIN order : order[i] \in ids
         /\ \A i, j \in DOMAIN order : i # j => order[i] # order[j]
         /\ \A id \in ids : \E i \in DOMAIN order : order[i] = id
<1> DEFINE D == 1 .. Cardinality(ids)
<1>1. IsFiniteSet(ids) /\ Cardinality(ids) \in Nat
  BY FS_Subset, FS_CardinalityType DEF TypeOK
<1>2. order \in [D -> ids] /\ \A i, j \in D : i # j => order[i] # order[j]
  BY DEF SweepOrders, SetToSeqs
<1>3. Cardinality(D) = Cardinality(ids)
  BY <1>1, FS_Interval
<1>4. order \in Injection(D, ids)
  BY <1>2 DEF Injection, IsInjective
<1>5. order \in Surjection(D, ids)
  BY <1>1, <1>3, <1>4, FS_Injection
<1> QED
  BY <1>2, <1>5 DEF Surjection

\* The rows of a sweep are those of the leases it ends, each of them once.
LEMMA SweepFresh ==
  ASSUME LeaseInv, NEW ids \in SUBSET (DOMAIN leases), NEW order \in SweepOrders(ids),
         Log(SweepRows(order))
  PROVE  /\ \A p \in Fresh : \E id \in ids : audit'[p] = SweepEntry(id)
         /\ \A id \in ids : \E p \in Fresh :
              /\ audit'[p] = SweepEntry(id)
              /\ \A q \in Fresh : q # p => audit'[q].lease_id # id
<1> DEFINE D == DOMAIN order
           n == Cardinality(ids)
           m == Len(audit)
<1>1. SweepRows(order) \in Seq(AuditRow)
  BY OrderType DEF LeaseInv
<1>2. /\ D = 1 .. n
      /\ \A i \in D : order[i] \in ids
      /\ \A i, j \in D : i # j => order[i] # order[j]
      /\ \A id \in ids : \E i \in D : order[i] = id
  <2>1. TypeOK
    BY DEF LeaseInv
  <2> QED
    BY <2>1, OrderComplete, SMTT(30)
<1>3. n \in Nat
  BY FS_Subset, FS_CardinalityType DEF LeaseInv, TypeOK
<1>4. /\ DOMAIN SweepRows(order) = D
      /\ \A i \in D : SweepRows(order)[i] = SweepEntry(order[i])
  BY DEF SweepRows, SweepEntry
<1>5. Len(SweepRows(order)) = n
  BY <1>1, <1>2, <1>3, <1>4
<1>6. m \in Nat
  BY DEF LeaseInv, TypeOK
<1>7. /\ \A p \in Fresh : p - m \in D /\ audit'[p] = SweepRows(order)[p - m]
      /\ Fresh = m + 1 .. m + n
  BY <1>1, <1>4, <1>5, LogFacts DEF Fresh
<1> HIDE DEF D, m, n
<1>8. \A p \in Fresh : p - m \in D /\ audit'[p] = SweepEntry(order[p - m])
  BY <1>4, <1>7
<1>9. \A id : SweepEntry(id).lease_id = id
  BY DEF SweepEntry, LeaseEntry, Entry
<1>10. ASSUME NEW id \in ids
       PROVE  \E p \in Fresh : /\ audit'[p] = SweepEntry(id)
                               /\ \A q \in Fresh : q # p => audit'[q].lease_id # id
  <2>1. PICK i \in D : order[i] = id
    BY <1>2
  <2>2. PICK p \in Fresh : p - m = i
    <3>1. m + i \in Fresh /\ (m + i) - m = i
      BY <1>2, <1>3, <1>6, <1>7
    <3> QED
      BY <3>1
  <2>3. audit'[p] = SweepEntry(id)
    BY <1>8, <2>1, <2>2
  <2>4. ASSUME NEW q \in Fresh, q # p
        PROVE  audit'[q].lease_id # id
    <3>1. q - m \in D /\ q - m # i
      BY <1>2, <1>3, <1>6, <1>7, <2>2, <2>4
    <3>2. order[q - m] # id
      BY <1>2, <2>1, <3>1
    <3> QED
      BY <1>8, <1>9, <3>2
  <2> QED
    BY <2>3, <2>4
<1> QED
  BY <1>2, <1>8, <1>10

-----------------------------------------------------------------------------
(* What the log says of one resource, and the steps that keep it true *)

\* LockGate for r.
GateOf(r) ==
  /\ \A i \in RowsOf(r, {"lock"}), j \in RowsOf(r, {"lock", "acquire"}) :
       i < j => \E k \in RowsOf(r, {"unlock"}) : i < k /\ k < j
  /\ Locked(r) <=> \E i \in RowsOf(r, {"lock"}) : \A k \in RowsOf(r, {"unlock"}) : k < i

GateRow(e, r) == e.resource = r /\ e.action \in {"lock", "unlock", "acquire"}

\* At most one row of the step locks, unlocks or acquires r, and what it logs
\* is allowed by the flag before and agrees with the flag after.
GateStep(r) ==
  \/ /\ \A i \in Fresh : ~GateRow(audit'[i], r)
     /\ Locked(r)' = Locked(r)
  \/ \E p \in Fresh :
       /\ audit'[p].resource = r
       /\ \A i \in Fresh \ {p} : ~GateRow(audit'[i], r)
       /\ \/ audit'[p].action = "acquire" /\ ~Locked(r) /\ ~Locked(r)'
          \/ audit'[p].action = "lock" /\ ~Locked(r) /\ Locked(r)'
          \/ audit'[p].action = "unlock" /\ ~Locked(r)'

LEMMA RowsOfGrow ==
  ASSUME LogGrows, audit \in Seq(AuditRow), NEW r, NEW actions, NEW i
  PROVE  i \in RowsOf(r, actions)' <=>
           \/ i \in RowsOf(r, actions)
           \/ /\ i \in Fresh
              /\ audit'[i].resource = r
              /\ audit'[i].action \in actions
<1>1. DOMAIN audit' = DOMAIN audit \cup Fresh
  BY OldAndFresh
<1>2. \A k \in DOMAIN audit : audit'[k] = audit[k]
  BY OldAndFresh
<1>3. \A k \in DOMAIN audit, p \in Fresh : k < p
  BY OldAndFresh
<1>4. DOMAIN audit \subseteq Int /\ Fresh \subseteq Int
  BY OldAndFresh
<1>5. i \in DOMAIN audit => i \notin Fresh
  BY <1>3, <1>4
<1> QED
  BY <1>1, <1>2, <1>5 DEF RowsOf

LEMMA GateKept ==
  ASSUME LogGrows, audit \in Seq(AuditRow), NEW r, GateOf(r), GateStep(r)
  PROVE  GateOf(r)'
<1> DEFINE L == RowsOf(r, {"lock"})
           U == RowsOf(r, {"unlock"})
           LA == RowsOf(r, {"lock", "acquire"})
           New(i, action) == i \in Fresh /\ audit'[i].resource = r /\ audit'[i].action = action
<1>1. /\ \A i : i \in L' <=> i \in L \/ New(i, "lock")
      /\ \A i : i \in U' <=> i \in U \/ New(i, "unlock")
      /\ \A i : i \in LA' <=> i \in LA \/ New(i, "lock") \/ New(i, "acquire")
  <2>1. \A i : i \in L' <=> i \in L \/ New(i, "lock")
    BY RowsOfGrow
  <2>2. \A i : i \in U' <=> i \in U \/ New(i, "unlock")
    BY RowsOfGrow
  <2>3. \A i : i \in LA' <=> i \in LA \/ New(i, "lock") \/ New(i, "acquire")
    <3> TAKE i
    <3>1. i \in LA' <=> \/ i \in LA
                        \/ /\ i \in Fresh
                           /\ audit'[i].resource = r
                           /\ audit'[i].action \in {"lock", "acquire"}
      BY RowsOfGrow
    <3> QED
      BY <3>1
  <2> QED
    BY <2>1, <2>2, <2>3
<1>2. L \subseteq Int /\ U \subseteq Int /\ LA \subseteq Int /\ Fresh \subseteq Int
  BY OldAndFresh DEF RowsOf
<1>3. \A p \in Fresh : /\ \A i \in L : i < p
                       /\ \A i \in U : i < p
                       /\ \A i \in LA : i < p
  BY OldAndFresh DEF RowsOf
<1>4. /\ \A i \in L, j \in LA : i < j => \E k \in U : i < k /\ k < j
      /\ Locked(r) <=> \E i \in L : \A k \in U : k < i
  BY DEF GateOf
<1>5. ASSUME /\ \A i \in L', j \in LA' : i < j => \E k \in U' : i < k /\ k < j
             /\ Locked(r)' <=> \E i \in L' : \A k \in U' : k < i
      PROVE  GateOf(r)'
  BY <1>5 DEF GateOf
<1> HIDE DEF L, U, LA
<1>6. CASE /\ \A i \in Fresh : ~GateRow(audit'[i], r)
           /\ Locked(r)' = Locked(r)
  <2>1. \A i, action : action \in {"lock", "unlock", "acquire"} => ~New(i, action)
    BY <1>6 DEF GateRow
  <2> HIDE DEF New
  <2>2. /\ \A i : i \in L' <=> i \in L
        /\ \A i : i \in U' <=> i \in U
        /\ \A i : i \in LA' <=> i \in LA
    BY <1>1, <2>1
  <2> QED
    BY <1>4, <1>5, <1>6, <2>2
<1>7. ASSUME NEW p \in Fresh,
             audit'[p].resource = r,
             \A i \in Fresh \ {p} : ~GateRow(audit'[i], r),
             \/ audit'[p].action = "acquire" /\ ~Locked(r) /\ ~Locked(r)'
             \/ audit'[p].action = "lock" /\ ~Locked(r) /\ Locked(r)'
             \/ audit'[p].action = "unlock" /\ ~Locked(r)'
      PROVE  GateOf(r)'
  <2>1. \A i, action : action \in {"lock", "unlock", "acquire"} =>
          (New(i, action) <=> i = p /\ audit'[p].action = action)
    BY <1>7 DEF GateRow
  <2> HIDE DEF New
  <2>2. /\ \A i : i \in L' <=> i \in L \/ (i = p /\ audit'[p].action = "lock")
        /\ \A i : i \in U' <=> i \in U \/ (i = p /\ audit'[p].action = "unlock")
        /\ \A i : i \in LA' <=> i \in LA \/ (i = p /\ audit'[p].action \in {"lock", "acquire"})
    BY <1>1, <2>1
  <2>3. p \in Int /\ p \notin L /\ p \notin U /\ p \notin LA
    BY <1>2, <1>3
  \* Before the new row no lock was in force, unless it is an unlock.
  <2>4. audit'[p].action # "unlock" => \A i \in L : \E k \in U : i < k
    <3>1. audit'[p].action # "unlock" => ~Locked(r)
      BY <1>7
    <3>2. ASSUME NEW i \in L, \A k \in U : ~(i < k)
          PROVE  Locked(r)
      <4>1. L \cap U = {}
        BY DEF L, U, RowsOf
      <4>2. \A k \in U : k < i
        BY <1>2, <3>2, <4>1
      <4> QED
        BY <1>4, <4>2
    <3> QED
      BY <3>1, <3>2
  <2>5. ASSUME NEW i \in L', NEW j \in LA', i < j
        PROVE  \E k \in U' : i < k /\ k < j
    <3>1. CASE j \in LA
      <4>1. i \in L
        BY <1>2, <1>3, <2>2, <2>3, <2>5, <3>1
      <4> QED
        BY <1>4, <2>2, <2>5, <3>1, <4>1
    <3>2. CASE j = p /\ audit'[p].action \in {"lock", "acquire"}
      <4>1. i \in L /\ audit'[p].action # "unlock"
        BY <2>2, <2>3, <2>5, <3>2
      <4>2. PICK k \in U : i < k
        BY <2>4, <4>1
      <4> QED
        BY <1>3, <2>2, <3>2, <4>2
    <3> QED
      BY <2>2, <2>5, <3>1, <3>2
  <2>6. Locked(r)' <=> \E i \in L' : \A k \in U' : k < i
    <3>1. CASE audit'[p].action = "lock"
      <4>1. Locked(r)' /\ p \in L' /\ U' = U
        BY <1>7, <2>2, <3>1
      <4> QED
        BY <1>3, <4>1
    <3>2. CASE audit'[p].action = "unlock"
      <4>1. ~Locked(r)' /\ p \in U' /\ L' = L
        BY <1>7, <2>2, <3>2
      <4>2. \A i \in L : ~(p < i)
        BY <1>2, <1>3, <2>3
      <4> QED
        BY <4>1, <4>2
    <3>3. CASE audit'[p].action = "acquire"
      <4>1. ~Locked(r)' /\ U' = U /\ L' = L /\ \A i \in L : \E k \in U : i < k
        BY <1>7, <2>2, <2>4, <3>3
      <4>2. \A i \in L, k \in U : i < k => ~(k < i)
        BY <1>2
      <4> QED
        BY <4>1, <4>2
    <3> QED
      BY <1>7, <3>1, <3>2, <3>3
  <2> QED
    BY <1>5, <2>5, <2>6
<1> QED
  BY <1>6, <1>7 DEF GateStep

ActiveOf(r, id) ==
  /\ id \in DOMAIN leases
  /\ leases[id].resource = r
  /\ leases[id].status = "active"

Extensions == {"acquire", "renew", "ttl_update"}

\* DeadlineFromLastExtension for r.
DeadlineOf(r) ==
  \A id : ActiveOf(r, id) =>
    \E i \in RowsOf(r, Extensions) :
      /\ IsLast(RowsOf(r, Extensions), i)
      /\ leases[id].expires_at = audit[i].at + leases[id].ttl_seconds
      /\ leases[id].expires_at > audit[i].at

ExtensionRow(e, r) == e.resource = r /\ e.action \in Extensions

\* Either the step extends nothing of r, and an active lease of r has the
\* deadline and the ttl of one that was active before; or it logs one
\* extension, now, and an active lease has the deadline computed from it.
DeadlineStep(r) ==
  \/ /\ \A i \in Fresh : ~ExtensionRow(audit'[i], r)
     /\ \A id : ActiveOf(r, id)' =>
          \E old : /\ ActiveOf(r, old)
                   /\ leases'[id].expires_at = leases[old].expires_at
                   /\ leases'[id].ttl_seconds = leases[old].ttl_seconds
  \/ \E p \in Fresh :
       /\ ExtensionRow(audit'[p], r)
       /\ \A i \in Fresh \ {p} : ~ExtensionRow(audit'[i], r)
       /\ audit'[p].at = now
       /\ \A id : ActiveOf(r, id)' =>
            /\ leases'[id].ttl_seconds \in TTL
            /\ leases'[id].ttl_seconds > 0
            /\ leases'[id].expires_at = Add64(now, leases'[id].ttl_seconds)

\* No deadline that a request asks for wraps past the largest int64.
DeadlinesFit == \A ttl \in TTL : MaxTime + ttl <= MaxInt64

LEMMA DeadlineSum ==
  ASSUME DeadlinesFit, TypeOK, NEW ttl \in TTL, ttl > 0
  PROVE  /\ Add64(now, ttl) = now + ttl
         /\ now + ttl > now
         /\ now \in Int /\ ttl \in Int
<1>1. now \in Int /\ now <= MaxTime /\ MaxTime \in Int /\ ttl \in Int /\ MaxInt64 \in Int
  BY DEF TypeOK, Time, Int64
<1>2. MaxTime + ttl <= MaxInt64
  BY DEF DeadlinesFit
<1> QED
  BY <1>1, <1>2 DEF Add64

LEMMA DeadlineKept ==
  ASSUME DeadlinesFit, TypeOK, LogGrows, NEW r, DeadlineOf(r), DeadlineStep(r)
  PROVE  DeadlineOf(r)'
<1> DEFINE E == RowsOf(r, Extensions)
<1> USE DEF Extensions
<1>1. audit \in Seq(AuditRow)
  BY DEF TypeOK
<1>2. \A i : i \in E' <=> i \in E \/ (i \in Fresh /\ ExtensionRow(audit'[i], r))
  BY <1>1, RowsOfGrow DEF ExtensionRow
<1>3. /\ E \subseteq DOMAIN audit
      /\ \A i \in E : audit'[i] = audit[i]
      /\ \A i \in E, p \in Fresh : i < p
      /\ E \subseteq Int /\ Fresh \subseteq Int
  BY <1>1, OldAndFresh DEF RowsOf
<1> HIDE DEF E
<1>4. CASE /\ \A i \in Fresh : ~ExtensionRow(audit'[i], r)
           /\ \A id : ActiveOf(r, id)' =>
                \E old : /\ ActiveOf(r, old)
                         /\ leases'[id].expires_at = leases[old].expires_at
                         /\ leases'[id].ttl_seconds = leases[old].ttl_seconds
  <2> SUFFICES ASSUME NEW id, ActiveOf(r, id)'
               PROVE  \E i \in E' : /\ IsLast(E', i)
                                    /\ leases'[id].expires_at
                                         = audit'[i].at + leases'[id].ttl_seconds
                                    /\ leases'[id].expires_at > audit'[i].at
    BY DEF DeadlineOf, IsLast, E
  <2>1. E' = E
    BY <1>2, <1>4
  <2>2. PICK old : /\ ActiveOf(r, old)
                   /\ leases'[id].expires_at = leases[old].expires_at
                   /\ leases'[id].ttl_seconds = leases[old].ttl_seconds
    BY <1>4
  <2>3. PICK i \in E : /\ IsLast(E, i)
                       /\ leases[old].expires_at = audit[i].at + leases[old].ttl_seconds
                       /\ leases[old].expires_at > audit[i].at
    BY <2>2 DEF DeadlineOf, E
  <2> QED
    BY <1>3, <2>1, <2>2, <2>3
<1>5. ASSUME NEW p \in Fresh,
             ExtensionRow(audit'[p], r),
             \A i \in Fresh \ {p} : ~ExtensionRow(audit'[i], r),
             audit'[p].at = now,
             \A id : ActiveOf(r, id)' =>
               /\ leases'[id].ttl_seconds \in TTL
               /\ leases'[id].ttl_seconds > 0
               /\ leases'[id].expires_at = Add64(now, leases'[id].ttl_seconds)
      PROVE  DeadlineOf(r)'
  <2>1. p \in E' /\ \A k \in E' : k <= p
    BY <1>2, <1>3, <1>5
  <2>2. IsLast(E', p)
    BY <2>1 DEF IsLast
  <2>3. ASSUME NEW id, ActiveOf(r, id)'
        PROVE  /\ leases'[id].expires_at = audit'[p].at + leases'[id].ttl_seconds
               /\ leases'[id].expires_at > audit'[p].at
    BY <1>5, <2>3, DeadlineSum
  <2> QED
    BY <2>1, <2>2, <2>3 DEF DeadlineOf, IsLast, E
<1> QED
  BY <1>4, <1>5 DEF DeadlineStep

\* The three parts of AuditReplays, over any set of positions of a log.
EndsWhatWasGranted(rows, log) ==
  \A j \in rows :
    IsRetirement(log[j]) =>
      \E i \in rows : /\ Adjacent(rows, i, j)
                      /\ IsGrant(log[i])
                      /\ log[j].lease_id = log[i].lease_id
                      /\ log[j].fencing_token = log[i].fencing_token

GrantsWhatHadEnded(rows, log) ==
  \A i, j \in rows :
    Adjacent(rows, i, j) /\ IsGrant(log[j]) => IsRetirement(log[i])

\* The last row of rows retires a lease, or there is no row.
SaysFree(rows, log) ==
  rows = {} \/ \E i \in rows : IsLast(rows, i) /\ IsRetirement(log[i])

\* The last row of rows grants the lease id with this token.
SaysHeld(rows, log, id, token) ==
  \E i \in rows : /\ IsLast(rows, i)
                  /\ IsGrant(log[i])
                  /\ log[i].lease_id = id
                  /\ log[i].fencing_token = token

\* AuditReplays for r.
ReplayOf(r) ==
  /\ EndsWhatWasGranted(HandOvers(r), audit)
  /\ GrantsWhatHadEnded(HandOvers(r), audit)
  /\ IF Current(r) = NoLease
     THEN SaysFree(HandOvers(r), audit)
     ELSE SaysHeld(HandOvers(r), audit, Current(r), leases[Current(r)].fencing_token)

HandOverRow(e, r) == e.resource = r /\ (IsGrant(e) \/ IsRetirement(e))

\* The row at p retires the lease that r has before the step, or grants the
\* one that it has after it.
EndsAt(p, r) ==
  /\ audit'[p].resource = r
  /\ IsRetirement(audit'[p])
  /\ Current(r) # NoLease
  /\ audit'[p].lease_id = Current(r)
  /\ audit'[p].fencing_token = leases[Current(r)].fencing_token

GrantsAt(p, r) ==
  /\ audit'[p].resource = r
  /\ IsGrant(audit'[p])
  /\ Current(r)' # NoLease
  /\ audit'[p].lease_id = Current(r)'
  /\ audit'[p].fencing_token = leases'[Current(r)'].fencing_token

\* No row of r in the step grants or retires, or one retires, or one grants,
\* or one retires and then one grants.
ReplayStep(r) ==
  \/ /\ \A i \in Fresh : ~HandOverRow(audit'[i], r)
     /\ Current(r)' = Current(r)
     /\ Current(r) # NoLease =>
          leases'[Current(r)].fencing_token = leases[Current(r)].fencing_token
  \/ \E p \in Fresh :
       /\ \A i \in Fresh \ {p} : ~HandOverRow(audit'[i], r)
       /\ \/ EndsAt(p, r) /\ Current(r)' = NoLease
          \/ GrantsAt(p, r) /\ Current(r) = NoLease
  \/ \E p, q \in Fresh :
       /\ p < q
       /\ \A i \in Fresh \ {p, q} : ~HandOverRow(audit'[i], r)
       /\ EndsAt(p, r)
       /\ GrantsAt(q, r)

LEMMA GrantOrEnd ==
  ASSUME NEW e
  PROVE  ~(IsGrant(e) /\ IsRetirement(e))
BY DEF IsGrant, IsRetirement

LEMMA HandOversGrow ==
  ASSUME LogGrows, audit \in Seq(AuditRow), NEW r
  PROVE  LET rows == HandOvers(r) IN
         /\ \A i : i \in rows' <=> i \in rows \/ (i \in Fresh /\ HandOverRow(audit'[i], r))
         /\ \A i \in rows : /\ audit'[i] = audit[i]
                            /\ IsGrant(audit[i]) \/ IsRetirement(audit[i])
         /\ \A i \in rows, p \in Fresh : i < p
         /\ rows \subseteq Int /\ Fresh \subseteq Int
<1> DEFINE rows == HandOvers(r)
<1>1. DOMAIN audit' = DOMAIN audit \cup Fresh
  BY OldAndFresh
<1>2. \A k \in DOMAIN audit : audit'[k] = audit[k]
  BY OldAndFresh
<1>3. \A k \in DOMAIN audit, p \in Fresh : k < p
  BY OldAndFresh
<1>4. DOMAIN audit \subseteq Int /\ Fresh \subseteq Int
  BY OldAndFresh
<1>5. rows \subseteq DOMAIN audit
  BY DEF HandOvers
<1>6. \A i : i \in DOMAIN audit => i \notin Fresh
  BY <1>3, <1>4
<1>7. \A i : i \in rows' <=> i \in rows \/ (i \in Fresh /\ HandOverRow(audit'[i], r))
  BY <1>1, <1>2, <1>6, Zenon DEF HandOvers, HandOverRow
<1>8. \A i \in rows : IsGrant(audit[i]) \/ IsRetirement(audit[i])
  BY DEF HandOvers
<1> QED
  BY <1>2, <1>3, <1>4, <1>5, <1>7, <1>8

\* One more row, which retires the lease that the rows say is held.
LEMMA EndAppends ==
  ASSUME NEW rows \in SUBSET Int, NEW p \in Int, \A i \in rows : i < p,
         NEW log, NEW id, NEW token,
         EndsWhatWasGranted(rows, log), GrantsWhatHadEnded(rows, log),
         SaysHeld(rows, log, id, token),
         IsRetirement(log[p]), log[p].lease_id = id, log[p].fencing_token = token
  PROVE  /\ EndsWhatWasGranted(rows \cup {p}, log)
         /\ GrantsWhatHadEnded(rows \cup {p}, log)
         /\ SaysFree(rows \cup {p}, log)
<1>1. ~IsGrant(log[p])
  BY GrantOrEnd
<1>2. \A i, j \in rows : Adjacent(rows, i, j) <=> Adjacent(rows \cup {p}, i, j)
  BY DEF Adjacent
<1>3. PICK last \in rows : /\ IsLast(rows, last)
                           /\ IsGrant(log[last])
                           /\ log[last].lease_id = id
                           /\ log[last].fencing_token = token
  BY DEF SaysHeld
<1>4. Adjacent(rows \cup {p}, last, p)
  BY <1>3 DEF Adjacent, IsLast
<1>5. EndsWhatWasGranted(rows \cup {p}, log)
  BY <1>2, <1>3, <1>4 DEF EndsWhatWasGranted
<1>6. \A j \in rows : ~Adjacent(rows \cup {p}, p, j)
  BY DEF Adjacent
<1>7. GrantsWhatHadEnded(rows \cup {p}, log)
  BY <1>1, <1>2, <1>6 DEF GrantsWhatHadEnded
<1>8. IsLast(rows \cup {p}, p)
  BY DEF IsLast
<1> QED
  BY <1>5, <1>7, <1>8 DEF SaysFree

\* One more row, which grants a lease when the rows say that none is held.
LEMMA GrantAppends ==
  ASSUME NEW rows \in SUBSET Int, NEW p \in Int, \A i \in rows : i < p,
         NEW log, NEW id, NEW token,
         EndsWhatWasGranted(rows, log), GrantsWhatHadEnded(rows, log),
         SaysFree(rows, log),
         IsGrant(log[p]), log[p].lease_id = id, log[p].fencing_token = token
  PROVE  /\ EndsWhatWasGranted(rows \cup {p}, log)
         /\ GrantsWhatHadEnded(rows \cup {p}, log)
         /\ SaysHeld(rows \cup {p}, log, id, token)
<1>1. ~IsRetirement(log[p])
  BY GrantOrEnd
<1>2. \A i, j \in rows : Adjacent(rows, i, j) <=> Adjacent(rows \cup {p}, i, j)
  BY DEF Adjacent
<1>3. EndsWhatWasGranted(rows \cup {p}, log)
  BY <1>1, <1>2 DEF EndsWhatWasGranted
<1>4. ASSUME NEW i \in rows, Adjacent(rows \cup {p}, i, p)
      PROVE  IsRetirement(log[i])
  <2>1. PICK last \in rows : IsLast(rows, last) /\ IsRetirement(log[last])
    BY DEF SaysFree
  <2>2. i = last
    BY <1>4, <2>1 DEF Adjacent, IsLast
  <2> QED
    BY <2>1, <2>2
<1>5. \A j \in rows \cup {p} : ~Adjacent(rows \cup {p}, p, j)
  BY DEF Adjacent
<1>6. GrantsWhatHadEnded(rows \cup {p}, log)
  BY <1>2, <1>4, <1>5 DEF GrantsWhatHadEnded
<1>7. IsLast(rows \cup {p}, p)
  BY DEF IsLast
<1> QED
  BY <1>3, <1>6, <1>7 DEF SaysHeld

\* The parts read the log at the rows only.
LEMMA SameRows ==
  ASSUME NEW rows, NEW log, NEW more, \A i \in rows : more[i] = log[i]
  PROVE  /\ EndsWhatWasGranted(rows, log) => EndsWhatWasGranted(rows, more)
         /\ GrantsWhatHadEnded(rows, log) => GrantsWhatHadEnded(rows, more)
         /\ SaysFree(rows, log) => SaysFree(rows, more)
         /\ \A id, token : SaysHeld(rows, log, id, token) => SaysHeld(rows, more, id, token)
BY DEF EndsWhatWasGranted, GrantsWhatHadEnded, SaysFree, SaysHeld

LEMMA ReplayKept ==
  ASSUME LogGrows, audit \in Seq(AuditRow), NEW r, ReplayOf(r), ReplayStep(r)
  PROVE  ReplayOf(r)'
<1> DEFINE rows == HandOvers(r)
           c == Current(r)
           after == HandOvers(r)'
           log == audit'
<1>1. /\ \A i : i \in after <=> i \in rows \/ (i \in Fresh /\ HandOverRow(log[i], r))
      /\ \A i \in rows : log[i] = audit[i]
      /\ \A i \in rows, p \in Fresh : i < p
      /\ rows \in SUBSET Int /\ Fresh \subseteq Int
  BY HandOversGrow
<1>2. /\ EndsWhatWasGranted(rows, audit)
      /\ GrantsWhatHadEnded(rows, audit)
      /\ IF c = NoLease THEN SaysFree(rows, audit)
                        ELSE SaysHeld(rows, audit, c, leases[c].fencing_token)
  BY DEF ReplayOf
<1>3. /\ EndsWhatWasGranted(rows, log)
      /\ GrantsWhatHadEnded(rows, log)
      /\ IF c = NoLease THEN SaysFree(rows, log)
                        ELSE SaysHeld(rows, log, c, leases[c].fencing_token)
  <2> HIDE DEF rows, log, c
  <2> QED
    BY <1>1, <1>2, SameRows
<1>4. ASSUME /\ EndsWhatWasGranted(after, log)
             /\ GrantsWhatHadEnded(after, log)
             /\ IF c' = NoLease THEN SaysFree(after, log)
                                ELSE SaysHeld(after, log, c', leases'[c'].fencing_token)
      PROVE  ReplayOf(r)'
  BY <1>4 DEF ReplayOf, EndsWhatWasGranted, GrantsWhatHadEnded, SaysFree, SaysHeld,
              IsLast, Adjacent
<1> HIDE DEF rows, after, log
<1>5. CASE /\ \A i \in Fresh : ~HandOverRow(log[i], r)
           /\ c' = c
           /\ c # NoLease => leases'[c].fencing_token = leases[c].fencing_token
  <2>1. after = rows
    BY <1>1, <1>5
  <2> QED
    BY <1>3, <1>4, <1>5, <2>1
<1>6. ASSUME NEW p \in Fresh,
             \A i \in Fresh \ {p} : ~HandOverRow(log[i], r),
             \/ EndsAt(p, r) /\ c' = NoLease
             \/ GrantsAt(p, r) /\ c = NoLease
      PROVE  ReplayOf(r)'
  <2>1. after = rows \cup {p}
    BY <1>1, <1>6 DEF EndsAt, GrantsAt, HandOverRow, log
  <2>2. p \in Int /\ \A i \in rows : i < p
    BY <1>1
  <2>3. CASE EndsAt(p, r) /\ c' = NoLease
    <3>1. /\ IsRetirement(log[p]) /\ log[p].lease_id = c
          /\ log[p].fencing_token = leases[c].fencing_token
          /\ c # NoLease
      BY <2>3 DEF EndsAt, log
    <3> QED
      BY <1>1, <1>3, <1>4, <2>1, <2>2, <2>3, <3>1, EndAppends
  <2>4. CASE GrantsAt(p, r) /\ c = NoLease
    <3>1. /\ IsGrant(log[p]) /\ log[p].lease_id = c'
          /\ log[p].fencing_token = leases'[c'].fencing_token
          /\ c' # NoLease
      BY <2>4 DEF GrantsAt, log
    <3> QED
      BY <1>1, <1>3, <1>4, <2>1, <2>2, <2>4, <3>1, GrantAppends
  <2> QED
    BY <1>6, <2>3, <2>4
<1>7. ASSUME NEW p \in Fresh, NEW q \in Fresh, p < q,
             \A i \in Fresh \ {p, q} : ~HandOverRow(log[i], r),
             EndsAt(p, r), GrantsAt(q, r)
      PROVE  ReplayOf(r)'
  <2> DEFINE mid == rows \cup {p}
  <2>1. after = mid \cup {q}
    BY <1>1, <1>7 DEF EndsAt, GrantsAt, HandOverRow, log
  <2>2. p \in Int /\ q \in Int /\ \A i \in rows : i < p
    BY <1>1
  <2>3. mid \in SUBSET Int /\ \A i \in mid : i < q
    BY <1>1, <1>7, <2>2
  <2>4. /\ IsRetirement(log[p]) /\ log[p].lease_id = c
        /\ log[p].fencing_token = leases[c].fencing_token
        /\ c # NoLease
    BY <1>7 DEF EndsAt, log
  <2>5. /\ EndsWhatWasGranted(mid, log)
        /\ GrantsWhatHadEnded(mid, log)
        /\ SaysFree(mid, log)
    BY <1>1, <1>3, <2>2, <2>4, EndAppends
  <2>6. /\ IsGrant(log[q]) /\ log[q].lease_id = c'
        /\ log[q].fencing_token = leases'[c'].fencing_token
        /\ c' # NoLease
    BY <1>7 DEF GrantsAt, log
  <2> HIDE DEF mid
  <2>7. /\ EndsWhatWasGranted(mid \cup {q}, log)
        /\ GrantsWhatHadEnded(mid \cup {q}, log)
        /\ SaysHeld(mid \cup {q}, log, c', leases'[c'].fencing_token)
    BY <2>2, <2>3, <2>5, <2>6, GrantAppends
  <2> QED
    BY <1>4, <2>1, <2>6, <2>7
<1> QED
  BY <1>5, <1>6, <1>7 DEF ReplayStep, log

-----------------------------------------------------------------------------
(* Every step is of the kind that keeps the log true *)

HistoryStep(r) == GateStep(r) /\ DeadlineStep(r) /\ ReplayStep(r)

LEMMA IdleHistory ==
  ASSUME UNCHANGED <<resources, leases>>, NEW r,
         \A i \in Fresh : audit'[i].action \in {"recover", "heartbeat"}
  PROVE  HistoryStep(r)
<1>1. \A i \in Fresh : /\ ~GateRow(audit'[i], r)
                       /\ ~ExtensionRow(audit'[i], r)
                       /\ ~HandOverRow(audit'[i], r)
  BY DEF GateRow, ExtensionRow, Extensions, HandOverRow, IsGrant, IsRetirement
<1>2. /\ Locked(r)' = Locked(r)
      /\ Current(r)' = Current(r)
  BY DEF Locked, Current
<1>3. \A id : ActiveOf(r, id)' => ActiveOf(r, id) /\ leases'[id] = leases[id]
  BY DEF ActiveOf
<1> QED
  BY <1>1, <1>2, <1>3 DEF HistoryStep, GateStep, DeadlineStep, ReplayStep

\* The active lease of a resource is the one that its row names.
LEMMA ActiveCurrent ==
  ASSUME LeaseInv, NEW r, NEW id
  PROVE  ActiveOf(r, id) <=> r \in Resource /\ Current(r) = id /\ id # NoLease
<1>1. ActiveOf(r, id) => r \in Resource /\ id \in ActiveLeases(r)
  BY DEF ActiveOf, ActiveLeases, LeaseInv, TypeOK, LeaseRow
<1>2. id \in ActiveLeases(r) => ActiveOf(r, id)
  BY DEF ActiveOf, ActiveLeases
<1>3. r \in Resource => ActiveLeases(r) = {Current(r)} \ {NoLease}
  BY ActiveIsCurrent DEF CurrentLease
<1> QED
  BY <1>1, <1>2, <1>3

LEMMA ExtendHistory ==
  ASSUME LeaseInv, NEW id, NEW token, Usable(id, token), NEW ttl \in TTL,
         NEW action \in {"renew", "ttl_update"}, Extend(id, ttl, action), NEW r
  PROVE  HistoryStep(r)
<1> DEFINE e == LeaseEntry(action, id, leases[id], now, "")
           p == Len(audit) + 1
           q == leases[id].resource
<1>1. /\ id \in DOMAIN leases /\ id \in LeaseId /\ leases[id] \in LeaseRow
      /\ TypeOK
  BY DEF Usable, Presented, LeaseInv, TypeOK
<1>2. leases[id].status = "active"
  BY <1>1 DEF Usable, IsTerminal, LeaseRow, Status
<1>3. /\ e \in AuditRow /\ e.action = action /\ e.resource = q /\ e.at = now
  BY <1>1, EntryType DEF TypeOK, AuditAction, Detail, LeaseEntry, Entry
<1>4. Fresh = {p} /\ audit'[p] = e
  BY <1>3, OneRow DEF Extend
<1>5. /\ DOMAIN leases' = DOMAIN leases
      /\ \A x \in DOMAIN leases : x # id => leases'[x] = leases[x]
      /\ leases'[id].resource = q
      /\ leases'[id].status = "active"
      /\ leases'[id].fencing_token = leases[id].fencing_token
      /\ leases'[id].ttl_seconds = ttl
      /\ leases'[id].expires_at = Add64(now, ttl)
  <2>1. leases' = UpdateLeaseExpiry(leases, id, ttl, Add64(now, ttl), now)
    BY DEF Extend
  <2> QED
    BY <1>1, <1>2, <2>1 DEF UpdateLeaseExpiry, LeaseInv, TypeOK, LeaseRow
<1>6. Locked(r)' = Locked(r) /\ Current(r)' = Current(r)
  BY DEF Extend, Locked, Current
<1> HIDE DEF e, p
<1>7. \A i \in Fresh : ~GateRow(audit'[i], r) /\ ~HandOverRow(audit'[i], r)
  BY <1>3, <1>4 DEF GateRow, HandOverRow, IsGrant, IsRetirement
<1>8. GateStep(r)
  BY <1>6, <1>7 DEF GateStep
<1>9. ReplayStep(r)
  <2>1. \A x : leases'[x].fencing_token = leases[x].fencing_token \/ x \notin DOMAIN leases
    BY <1>5
  <2>2. Current(r) # NoLease => Current(r) \in DOMAIN leases
    BY DEF Current, GetResource, LeaseInv, RowNamesLease
  <2> QED
    BY <1>6, <1>7, <2>1, <2>2 DEF ReplayStep
<1>10. CASE r = q
  <2>1. \A x : ActiveOf(r, x)' => x = id
    <3>1. \A x : ActiveOf(r, x)' => ActiveOf(r, x)
      BY <1>2, <1>5, <1>10 DEF ActiveOf
    <3>2. ActiveOf(r, id)
      BY <1>1, <1>2, <1>10 DEF ActiveOf
    <3> QED
      BY <3>1, <3>2, ActiveCurrent
  <2>2. ttl > 0
    BY DEF Extend, ValidTTL
  <2>3. p \in Fresh /\ ExtensionRow(audit'[p], r) /\ audit'[p].at = now
    BY <1>3, <1>4, <1>10 DEF ExtensionRow, Extensions
  <2>4. \A i \in Fresh \ {p} : ~ExtensionRow(audit'[i], r)
    BY <1>4
  <2>5. DeadlineStep(r)
    BY <1>5, <2>1, <2>2, <2>3, <2>4 DEF DeadlineStep
  <2> QED
    BY <1>8, <1>9, <2>5 DEF HistoryStep
<1>11. CASE r # q
  <2>1. \A i \in Fresh : ~ExtensionRow(audit'[i], r)
    BY <1>3, <1>4, <1>11 DEF ExtensionRow
  <2>2. \A x : ActiveOf(r, x)' => ActiveOf(r, x) /\ leases'[x] = leases[x]
    BY <1>5, <1>11 DEF ActiveOf
  <2>3. DeadlineStep(r)
    BY <2>1, <2>2 DEF DeadlineStep
  <2> QED
    BY <1>8, <1>9, <2>3 DEF HistoryStep
<1> QED
  BY <1>10, <1>11

LEMMA HeartbeatHistory ==
  ASSUME LeaseInv, NEW id, NEW token, Heartbeat(id, token), NEW r
  PROVE  HistoryStep(r)
<1> DEFINE e == LeaseEntry("heartbeat", id, leases[id], now, "")
           p == Len(audit) + 1
<1>1. /\ id \in DOMAIN leases /\ id \in LeaseId /\ leases[id] \in LeaseRow
      /\ TypeOK
  BY DEF Heartbeat, Usable, Presented, LeaseInv, TypeOK
<1>2. /\ e \in AuditRow /\ e.action = "heartbeat"
  BY <1>1, EntryType DEF TypeOK, AuditAction, Detail, LeaseEntry, Entry
<1>3. Fresh = {p} /\ audit'[p] = e
  BY <1>2, OneRow DEF Heartbeat
<1>4. /\ DOMAIN leases' = DOMAIN leases
      /\ \A x \in DOMAIN leases :
           /\ leases'[x].resource = leases[x].resource
           /\ leases'[x].status = leases[x].status
           /\ leases'[x].fencing_token = leases[x].fencing_token
           /\ leases'[x].ttl_seconds = leases[x].ttl_seconds
           /\ leases'[x].expires_at = leases[x].expires_at
  BY <1>1 DEF Heartbeat, UpdateLeaseHeartbeat, TypeOK, LeaseRow
<1>5. Locked(r)' = Locked(r) /\ Current(r)' = Current(r)
  BY DEF Heartbeat, Locked, Current
<1> HIDE DEF e, p
<1>6. \A i \in Fresh : /\ ~GateRow(audit'[i], r)
                       /\ ~HandOverRow(audit'[i], r)
                       /\ ~ExtensionRow(audit'[i], r)
  BY <1>2, <1>3 DEF GateRow, HandOverRow, IsGrant, IsRetirement, ExtensionRow, Extensions
<1>7. \A x : ActiveOf(r, x)' => ActiveOf(r, x)
  BY <1>4 DEF ActiveOf
<1>8. DeadlineStep(r)
  <2>1. \A x : ActiveOf(r, x)' => /\ leases'[x].expires_at = leases[x].expires_at
                                  /\ leases'[x].ttl_seconds = leases[x].ttl_seconds
    BY <1>4, <1>7 DEF ActiveOf
  <2> QED
    BY <1>6, <1>7, <2>1 DEF DeadlineStep
<1>9. Current(r) # NoLease => Current(r) \in DOMAIN leases
  BY DEF Current, GetResource, LeaseInv, RowNamesLease
<1> QED
  BY <1>4, <1>5, <1>6, <1>8, <1>9 DEF HistoryStep, GateStep, ReplayStep

LEMMA LockHistory ==
  ASSUME LeaseInv, NEW q \in Resource, NEW locked \in BOOLEAN, NEW action,
         action = IF locked THEN "lock" ELSE "unlock",
         ~AlreadyLocked(q, locked), SetLock(q, locked, action), NEW r
  PROVE  HistoryStep(r)
<1> DEFINE e == Entry(action, NoLease, q, 0, now, "")
           p == Len(audit) + 1
<1>1. e \in AuditRow /\ e.action = action /\ e.resource = q
  BY TimeType DEF LeaseInv, TypeOK, Entry, AuditRow, AuditAction, Detail
<1>2. Fresh = {p} /\ audit'[p] = e
  BY <1>1, OneRow DEF SetLock
<1>3. UNCHANGED leases /\ resources' = SetResourceLocked(resources, q, locked)
  BY DEF SetLock
<1>4. /\ Locked(q)' = locked
      /\ Current(q)' = Current(q)
      /\ r # q => Locked(r)' = Locked(r) /\ Current(r)' = Current(r)
  BY <1>3, RowType DEF LeaseInv, Locked, Current, GetResource, SetResourceLocked,
                       PutResource, ResourceRow
<1> HIDE DEF e, p
<1>5. \A i \in Fresh : ~ExtensionRow(audit'[i], r) /\ ~HandOverRow(audit'[i], r)
  BY <1>1, <1>2 DEF HandOverRow, IsGrant, IsRetirement, ExtensionRow, Extensions
<1>6. DeadlineStep(r)
  BY <1>3, <1>5 DEF DeadlineStep, ActiveOf
<1>7. ReplayStep(r)
  BY <1>3, <1>4, <1>5 DEF ReplayStep
<1>8. GateStep(r)
  <2>1. CASE r = q
    <3>1. locked => ~Locked(r)
      BY <2>1 DEF AlreadyLocked, Locked, GetResource
    <3>2. p \in Fresh /\ audit'[p].resource = r /\ audit'[p].action = action
      BY <1>1, <1>2, <2>1
    <3>3. \A i \in Fresh \ {p} : ~GateRow(audit'[i], r)
      BY <1>2
    <3> QED
      BY <1>4, <2>1, <3>1, <3>2, <3>3 DEF GateStep
  <2>2. CASE r # q
    BY <1>1, <1>2, <1>4, <2>2 DEF GateStep, GateRow
  <2> QED
    BY <2>1, <2>2
<1> QED
  BY <1>6, <1>7, <1>8 DEF HistoryStep

Retires(p, id) ==
  /\ audit'[p].lease_id = id
  /\ audit'[p].resource = leases[id].resource
  /\ audit'[p].fencing_token = leases[id].fencing_token
  /\ audit'[p].action \in {"release", "force_release", "sweep"}

\* What release, force-release and sweep have in common.
LEMMA EndHistory ==
  ASSUME LeaseInv, NEW gone \in SUBSET (DOMAIN leases), NEW status \in Terminal,
         Ends(gone, status), NEW r,
         \A p \in Fresh : \E id \in gone : Retires(p, id),
         \A id \in gone : \E p \in Fresh :
           /\ Retires(p, id)
           /\ \A q \in Fresh : q # p => audit'[q].lease_id # id
  PROVE  HistoryStep(r)
<1>1. \A id \in gone : leases[id].resource = r => id = Current(r) /\ id # NoLease
  BY ActiveCurrent DEF Ends, ActiveOf
<1>2. Current(r) \in gone => Current(r) # NoLease /\ leases[Current(r)].resource = r
  BY DEF Current, GetResource, LeaseInv, RowNamesLease, TypeOK
<1>3. \A i \in Fresh : ~GateRow(audit'[i], r) /\ ~ExtensionRow(audit'[i], r)
  BY DEF Retires, GateRow, ExtensionRow, Extensions
<1>4. /\ Locked(r)' = Locked(r)
      /\ Current(r) \in gone => Current(r)' = NoLease
      /\ Current(r) \notin gone => Current(r)' = Current(r)
  <2>1. r \in DOMAIN resources \/ (Current(r) = NoLease /\ Current(r)' = NoLease)
    BY DEF Current, GetResource, Ends
  <2>2. (\E id \in gone : leases[id].resource = r) <=> Current(r) \in gone
    BY <1>1, <1>2
  <2> QED
    BY <2>1, <2>2 DEF Ends, Locked, Current, GetResource
<1>5. ASSUME NEW id, ActiveOf(r, id)'
      PROVE  ActiveOf(r, id) /\ leases'[id] = leases[id]
  BY <1>5 DEF Ends, SetLeaseStatus, ActiveOf, Terminal, LeaseInv, TypeOK, LeaseRow
<1>6. DeadlineStep(r)
  BY <1>3, <1>5 DEF DeadlineStep
<1>7. ReplayStep(r)
  <2>1. CASE Current(r) \in gone
    <3>1. PICK p \in Fresh : /\ Retires(p, Current(r))
                             /\ \A q \in Fresh : q # p => audit'[q].lease_id # Current(r)
      BY <2>1
    <3>2. \A q \in Fresh \ {p} : ~HandOverRow(audit'[q], r)
      BY <1>1, <3>1 DEF Retires, HandOverRow
    <3>3. EndsAt(p, r)
      BY <1>2, <2>1, <3>1 DEF Retires, EndsAt, IsRetirement
    <3> QED
      BY <1>4, <2>1, <3>2, <3>3 DEF ReplayStep
  <2>2. CASE Current(r) \notin gone
    <3>1. \A q \in Fresh : ~HandOverRow(audit'[q], r)
      BY <1>1, <2>2 DEF Retires, HandOverRow
    <3>2. Current(r) # NoLease => Current(r) \in DOMAIN leases
      BY DEF Current, GetResource, LeaseInv, RowNamesLease
    <3>3. \A x \in DOMAIN leases : leases'[x].fencing_token = leases[x].fencing_token
      BY DEF Ends, SetLeaseStatus, LeaseInv, TypeOK, LeaseRow
    <3> QED
      BY <1>4, <2>2, <3>1, <3>2, <3>3 DEF ReplayStep
  <2> QED
    BY <2>1, <2>2
<1>8. GateStep(r)
  BY <1>3, <1>4 DEF GateStep
<1> QED
  BY <1>6, <1>7, <1>8 DEF HistoryStep

LEMMA RetireHistory ==
  ASSUME LeaseInv, NEW id \in DOMAIN leases, ~IsTerminal(leases[id].status),
         NEW action \in {"release", "force_release"}, Retire(id, action), NEW r
  PROVE  HistoryStep(r)
<1> DEFINE e == LeaseEntry(action, id, leases[id], now, "")
           p == Len(audit) + 1
<1>1. /\ e \in AuditRow /\ e.action = action /\ e.lease_id = id
      /\ e.resource = leases[id].resource /\ e.fencing_token = leases[id].fencing_token
  BY EntryType DEF LeaseInv, TypeOK, AuditAction, Detail, LeaseEntry, Entry
<1>2. Fresh = {p} /\ audit'[p] = e
  BY <1>1, OneRow DEF Retire
<1> HIDE DEF e, p
<1>3. Retires(p, id)
  BY <1>1, <1>2 DEF Retires
<1>4. Ends({id}, "released") /\ "released" \in Terminal
  BY RetireEnds DEF Terminal
<1> QED
  BY <1>2, <1>3, <1>4, EndHistory

LEMMA SweepHistory ==
  ASSUME LeaseInv, SweepCommit(ListExpiredActive(now)), NEW r
  PROVE  HistoryStep(r)
<1> DEFINE gone == ListExpiredActive(now)
<1>1. gone \in SUBSET (DOMAIN leases) /\ \A id \in gone : leases[id].status = "active"
  BY DEF ListExpiredActive
<1>2. PICK order \in SweepOrders(gone) : Log(SweepRows(order))
  BY DEF SweepCommit
<1>3. Ends(gone, "expired") /\ "expired" \in Terminal
  BY <1>1, SweepEnds DEF Terminal
<1> HIDE DEF gone
<1>4. /\ \A p \in Fresh : \E id \in gone : audit'[p] = SweepEntry(id)
      /\ \A id \in gone : \E p \in Fresh :
           /\ audit'[p] = SweepEntry(id)
           /\ \A q \in Fresh : q # p => audit'[q].lease_id # id
  BY <1>1, <1>2, SweepFresh
<1>5. \A p, id : audit'[p] = SweepEntry(id) => Retires(p, id)
  <2>1. \A id : /\ SweepEntry(id).lease_id = id
                /\ SweepEntry(id).resource = leases[id].resource
                /\ SweepEntry(id).fencing_token = leases[id].fencing_token
                /\ SweepEntry(id).action = "sweep"
    BY DEF SweepEntry, LeaseEntry, Entry
  <2> QED
    BY <2>1 DEF Retires
<1>6. /\ \A p \in Fresh : \E id \in gone : Retires(p, id)
      /\ \A id \in gone : \E p \in Fresh :
           /\ Retires(p, id)
           /\ \A q \in Fresh : q # p => audit'[q].lease_id # id
  BY <1>4, <1>5
<1> QED
  BY <1>1, <1>3, <1>6, EndHistory

\* What a grant does to the tables, for the resource granted and the others.
LEMMA GrantTables ==
  ASSUME LeaseInv, NEW q \in Resource, NEW new \in LeaseId, NEW row, NEW status \in Terminal,
         Grants(q, new, row, status), NEW r
  PROVE  /\ Locked(r)' = Locked(r)
         /\ Current(r)' = IF r = q THEN new ELSE Current(r)
         /\ new \in DOMAIN leases' /\ leases'[new] = row
         /\ \A id \in DOMAIN leases : id \in DOMAIN leases' /\ id # new
         /\ \A id \in DOMAIN leases : leases'[id].fencing_token = leases[id].fencing_token
         /\ \A x : ActiveOf(r, x)' =>
              \/ r = q /\ x = new
              \/ r # q /\ ActiveOf(r, x) /\ leases'[x] = leases[x]
<1>1. resources' = UpsertResourceFencing(resources, q, NextToken(q), new)
  BY DEF Grants
<1>2. Locked(r)' = Locked(r) /\ Current(r)' = IF r = q THEN new ELSE Current(r)
  BY <1>1, RowType DEF LeaseInv, Locked, Current, GetResource, UpsertResourceFencing,
                       PutResource, ResourceRow
<1>3. /\ leases' = InsertLease(
           SetLeaseStatus(leases, ActiveLeases(q), "active", status), new, row)
      /\ new \notin DOMAIN leases
      /\ row.resource = q
  BY DEF Grants
<1>4. /\ DOMAIN leases' = DOMAIN leases \cup {new}
      /\ leases'[new] = row
      /\ \A id \in DOMAIN leases :
           leases'[id] = IF id \in ActiveLeases(q)
                         THEN [leases[id] EXCEPT !.status = status]
                         ELSE leases[id]
  BY <1>3 DEF InsertLease, SetLeaseStatus, ActiveLeases
<1>5. \A id \in DOMAIN leases : leases'[id].fencing_token = leases[id].fencing_token
  BY <1>4 DEF LeaseInv, TypeOK, LeaseRow
<1>6. ASSUME NEW id, ActiveOf(r, id)'
      PROVE  \/ r = q /\ id = new
             \/ r # q /\ ActiveOf(r, id) /\ leases'[id] = leases[id]
  <2>1. id \in DOMAIN leases' /\ leases'[id].resource = r /\ leases'[id].status = "active"
    BY <1>6 DEF ActiveOf
  <2>2. CASE id = new
    BY <1>3, <1>4, <2>1, <2>2
  <2>3. CASE id \in DOMAIN leases /\ id \in ActiveLeases(q)
    <3>1. leases'[id].status = status
      BY <1>4, <2>3 DEF LeaseInv, TypeOK, LeaseRow
    <3> QED
      BY <2>1, <3>1 DEF Terminal
  <2>4. CASE id \in DOMAIN leases /\ id \notin ActiveLeases(q)
    <3>1. leases'[id] = leases[id]
      BY <1>4, <2>4
    <3> QED
      BY <2>1, <2>4, <3>1 DEF ActiveOf, ActiveLeases
  <2> QED
    BY <1>4, <2>1, <2>2, <2>3, <2>4
<1> QED
  BY <1>2, <1>3, <1>4, <1>5, <1>6

\* The rows of a grant: that of the new lease, after that of the lease which
\* had the resource if there was one.
GrantRows(q, new) ==
  \/ \E p \in Fresh : /\ Fresh = {p}
                      /\ Current(q) = NoLease
                      /\ GrantsAt(p, q)
  \/ \E p1, p2 \in Fresh : /\ Fresh = {p1, p2} /\ p1 < p2
                           /\ EndsAt(p1, q) /\ audit'[p1].action \in {"sweep", "transfer"}
                           /\ GrantsAt(p2, q)

LEMMA GrantReplay ==
  ASSUME LeaseInv, NEW q \in Resource, NEW new \in LeaseId, NEW row, NEW status \in Terminal,
         Grants(q, new, row, status), GrantRows(q, new), NEW r
  PROVE  ReplayStep(r)
<1>1. CASE r = q
  <2>1. CASE \E p \in Fresh : /\ Fresh = {p}
                              /\ Current(q) = NoLease
                              /\ GrantsAt(p, q)
    BY <1>1, <2>1 DEF ReplayStep
  <2>2. CASE \E p1, p2 \in Fresh : /\ Fresh = {p1, p2} /\ p1 < p2
                                   /\ EndsAt(p1, q)
                                   /\ GrantsAt(p2, q)
    BY <1>1, <2>2 DEF ReplayStep
  <2> QED
    BY <2>1, <2>2 DEF GrantRows
<1>2. CASE r # q
  <2>1. \A i \in Fresh : ~HandOverRow(audit'[i], r)
    BY <1>2 DEF GrantRows, EndsAt, GrantsAt, HandOverRow
  <2>2. Current(r)' = Current(r)
    BY <1>2, GrantTables
  <2>3. Current(r) # NoLease => Current(r) \in DOMAIN leases
    BY DEF Current, GetResource, LeaseInv, RowNamesLease
  <2>4. \A id \in DOMAIN leases : leases'[id].fencing_token = leases[id].fencing_token
    BY GrantTables
  <2> QED
    BY <2>1, <2>2, <2>3, <2>4 DEF ReplayStep
<1> QED
  BY <1>1, <1>2

\* Acquire logs the lease that it evicts, if there is one, and its own.
LEMMA AcquireLog ==
  ASSUME LeaseInv, NEW q \in Resource, NEW e \in AuditRow,
         NEW order \in SweepOrders(ActiveLeases(q)),
         Log(SweepRows(order) \o <<e>>)
  PROVE  \/ /\ Current(q) = NoLease
            /\ Fresh = {Len(audit) + 1}
            /\ audit'[Len(audit) + 1] = e
         \/ /\ Current(q) \in DOMAIN leases /\ Current(q) # NoLease
            /\ Fresh = {Len(audit) + 1, Len(audit) + 2}
            /\ audit'[Len(audit) + 1] = SweepEntry(Current(q))
            /\ audit'[Len(audit) + 2] = e
<1> DEFINE ids == ActiveLeases(q)
           old == SweepRows(order)
           new == old \o <<e>>
<1>1. ids = {Current(q)} \ {NoLease} /\ ids \in SUBSET (DOMAIN leases)
  BY ActiveIsCurrent DEF CurrentLease, ActiveLeases
<1>2. /\ DOMAIN order = 1 .. Cardinality(ids)
      /\ \A i \in DOMAIN order : order[i] \in ids
  BY <1>1, OrderComplete DEF LeaseInv
<1>3. old \in Seq(AuditRow) /\ DOMAIN old = DOMAIN order
  BY <1>1, OrderType DEF LeaseInv, SweepRows
<1>4. \A i \in DOMAIN order : old[i] = SweepEntry(order[i])
  BY DEF SweepRows, SweepEntry
<1> HIDE DEF old
<1>5. /\ new \in Seq(AuditRow)
      /\ Len(new) = Len(old) + 1
      /\ \A i \in 1 .. Len(old) : new[i] = old[i]
      /\ new[Len(old) + 1] = e
  BY <1>3
<1>6. Log(new)
  BY DEF old
<1> HIDE DEF new
<1>7. /\ Len(audit') = Len(audit) + Len(new)
      /\ \A i \in Len(audit) + 1 .. Len(audit') : audit'[i] = new[i - Len(audit)]
      /\ Len(audit) \in Nat
  BY <1>5, <1>6, LogFacts DEF LeaseInv, TypeOK
<1>8. CASE Current(q) = NoLease
  <2>1. Cardinality(ids) = 0
    BY <1>1, <1>8, FS_EmptySet
  <2>2. Len(old) = 0
    BY <1>2, <1>3, <2>1
  <2> QED
    BY <1>5, <1>7, <1>8, <2>2 DEF Fresh
<1>9. CASE Current(q) # NoLease
  <2>1. ids = {Current(q)}
    BY <1>1, <1>9
  <2>2. Cardinality(ids) = 1
    BY <2>1, FS_Singleton
  <2>3. Len(old) = 1 /\ 1 \in DOMAIN order
    BY <1>2, <1>3, <2>2
  <2>4. old[1] = SweepEntry(Current(q))
    BY <1>2, <1>4, <2>1, <2>3
  <2>5. /\ Fresh = {Len(audit) + 1, Len(audit) + 2}
        /\ audit'[Len(audit) + 1] = new[1]
        /\ audit'[Len(audit) + 2] = new[2]
    BY <1>5, <1>7, <2>3 DEF Fresh
  <2> QED
    BY <1>1, <1>5, <1>9, <2>1, <2>3, <2>4, <2>5
<1> QED
  BY <1>8, <1>9

LEMMA AcquireHistory ==
  ASSUME LeaseInv, NEW q \in Resource, NEW h \in Holder, NEW ttl \in TTL,
         NEW id \in LeaseId, Acquire(q, h, ttl, id), NEW r
  PROVE  HistoryStep(r)
<1> DEFINE lease == [resource |-> q, holder |-> h, fencing_token |-> NextToken(q),
                     acquired_at |-> now, ttl_seconds |-> ttl,
                     expires_at |-> Add64(now, ttl), last_heartbeat |-> now,
                     status |-> "active"]
           e == LeaseEntry("acquire", id, lease, now, "")
           n == Len(audit)
           active == ActiveLeases(q)
<1>1. /\ lease \in LeaseRow
      /\ lease.resource = q
      /\ lease.fencing_token = NextToken(q)
      /\ lease.ttl_seconds = ttl
      /\ lease.expires_at = Add64(now, ttl)
      /\ lease.status = "active"
  <2>1. Add64(now, ttl) \in Int64 /\ ttl \in Int64 /\ now \in Int64
    BY DeadlineType, TimeType DEF Acquire, LeaseInv, TypeOK
  <2> QED
    BY <2>1, RowType DEF LeaseRow, Status, LeaseInv
<1>2. /\ e \in AuditRow /\ e.action = "acquire" /\ e.lease_id = id
      /\ e.resource = q /\ e.fencing_token = lease.fencing_token /\ e.at = now
  BY <1>1, EntryType DEF LeaseInv, TypeOK, AuditAction, Detail, LeaseEntry, Entry
<1>3. \A existing \in GetActiveLeaseByResource(q) : existing = active
  BY ActiveIsCurrent DEF CurrentLease, GetActiveLeaseByResource
<1>4. PICK order \in SweepOrders(active) :
        /\ leases' = InsertLease(
             SetLeaseStatus(leases, active, "active", "expired"), id, lease)
        /\ Log(SweepRows(order) \o <<e>>)
  BY <1>3 DEF Acquire
<1>5. /\ id \notin DOMAIN leases /\ ~Locked(q) /\ ttl > 0
      /\ resources' = UpsertResourceFencing(resources, q, NextToken(q), id)
      /\ id # NoLease
  BY DEF Acquire, ValidTTL, Locked
<1> HIDE DEF lease, e
<1>6. Grants(q, id, lease, "expired") /\ "expired" \in Terminal
  BY <1>1, <1>4, <1>5 DEF Grants, Locked, Terminal
<1>7. \/ /\ Current(q) = NoLease
         /\ Fresh = {n + 1}
         /\ audit'[n + 1] = e
      \/ /\ Current(q) \in DOMAIN leases /\ Current(q) # NoLease
         /\ Fresh = {n + 1, n + 2}
         /\ audit'[n + 1] = SweepEntry(Current(q))
         /\ audit'[n + 2] = e
  BY <1>2, <1>4, AcquireLog
<1>8. Current(q)' = id /\ leases'[id] = lease
  BY <1>6, GrantTables
<1>9. \A p : audit'[p] = e => GrantsAt(p, q)
  BY <1>2, <1>5, <1>8 DEF GrantsAt, IsGrant
<1>10. Current(q) \in DOMAIN leases => leases[Current(q)].resource = q
  BY DEF Current, GetResource, LeaseInv, RowNamesLease, TypeOK
<1>11. /\ SweepEntry(Current(q)).action = "sweep"
       /\ SweepEntry(Current(q)).lease_id = Current(q)
       /\ SweepEntry(Current(q)).resource = leases[Current(q)].resource
       /\ SweepEntry(Current(q)).fencing_token = leases[Current(q)].fencing_token
  BY DEF SweepEntry, LeaseEntry, Entry
<1>12. n \in Nat
  BY DEF LeaseInv, TypeOK
<1> HIDE DEF n, active
<1>13. PICK p \in Fresh : audit'[p] = e /\ \A i \in Fresh \ {p} : audit'[i] = SweepEntry(Current(q))
  BY <1>7
<1>14. GrantRows(q, id)
  <2>1. CASE /\ Current(q) = NoLease
             /\ Fresh = {n + 1}
             /\ audit'[n + 1] = e
    BY <1>9, <2>1 DEF GrantRows
  <2>2. CASE /\ Current(q) \in DOMAIN leases /\ Current(q) # NoLease
             /\ Fresh = {n + 1, n + 2}
             /\ audit'[n + 1] = SweepEntry(Current(q))
             /\ audit'[n + 2] = e
    <3>1. EndsAt(n + 1, q) /\ audit'[n + 1].action = "sweep"
      BY <1>10, <1>11, <2>2 DEF EndsAt, IsRetirement
    <3>2. GrantsAt(n + 2, q) /\ n + 1 < n + 2
      BY <1>9, <1>12, <2>2
    <3> QED
      BY <2>2, <3>1, <3>2 DEF GrantRows
  <2> QED
    BY <1>7, <2>1, <2>2
<1>15. ReplayStep(r)
  BY <1>6, <1>14, GrantReplay
<1>16. \A i \in Fresh \ {p} : ~GateRow(audit'[i], r) /\ ~ExtensionRow(audit'[i], r)
  BY <1>11, <1>13 DEF GateRow, ExtensionRow, Extensions
<1>17. /\ Locked(r)' = Locked(r)
       /\ \A x : ActiveOf(r, x)' =>
            \/ r = q /\ x = id
            \/ r # q /\ ActiveOf(r, x) /\ leases'[x] = leases[x]
  BY <1>6, GrantTables DEF ActiveOf
<1>18. CASE r = q
  <2>1. GateStep(r)
    BY <1>2, <1>5, <1>13, <1>16, <1>17, <1>18 DEF GateStep
  <2>2. ExtensionRow(audit'[p], r) /\ audit'[p].at = now
    BY <1>2, <1>13, <1>18 DEF ExtensionRow, Extensions
  <2>3. \A x : ActiveOf(r, x)' => /\ leases'[x].ttl_seconds \in TTL
                                  /\ leases'[x].ttl_seconds > 0
                                  /\ leases'[x].expires_at = Add64(now, leases'[x].ttl_seconds)
    BY <1>1, <1>5, <1>8, <1>17, <1>18
  <2>4. DeadlineStep(r)
    BY <1>16, <2>2, <2>3 DEF DeadlineStep
  <2> QED
    BY <1>15, <2>1, <2>4 DEF HistoryStep
<1>19. CASE r # q
  <2>1. ~GateRow(audit'[p], r) /\ ~ExtensionRow(audit'[p], r)
    BY <1>2, <1>13, <1>19 DEF GateRow, ExtensionRow
  <2>2. \A i \in Fresh : ~GateRow(audit'[i], r) /\ ~ExtensionRow(audit'[i], r)
    BY <1>16, <2>1
  <2>3. GateStep(r)
    BY <1>17, <2>2 DEF GateStep
  <2>4. DeadlineStep(r)
    BY <1>17, <1>19, <2>2 DEF DeadlineStep
  <2> QED
    BY <1>15, <2>3, <2>4 DEF HistoryStep
<1> QED
  BY <1>18, <1>19

LEMMA TransferHistory ==
  ASSUME LeaseInv, NEW id \in LeaseId, NEW token, NEW newHolder \in Holder,
         NEW newID \in LeaseId, Transfer(id, token, newHolder, newID), NEW r
  PROVE  HistoryStep(r)
<1>0. PICK q \in Resource : q = leases[id].resource
  BY LeaseToken DEF Transfer, Usable, Presented
<1> DEFINE old == leases[id]
           fresh == [old EXCEPT !.holder = newHolder,
                                !.fencing_token = NextToken(q),
                                !.last_heartbeat = now]
           e == LeaseEntry("transfer", id, old, now, "to")
           f == LeaseEntry("transfer", newID, fresh, now, "from")
           n == Len(audit)
<1>1. /\ id \in DOMAIN leases /\ old \in LeaseRow /\ old.resource = q
      /\ old.status = "active" /\ newID # NoLease /\ id # NoLease
  BY <1>0 DEF Transfer, Usable, Presented, LeaseInv, TypeOK, LeaseRow, Status, IsTerminal
<1>2. NextToken(q) \in Nat /\ now \in Int64
  BY <1>1, RowType, TimeType DEF LeaseInv, TypeOK
<1>3. /\ fresh \in LeaseRow
      /\ fresh.resource = q
      /\ fresh.fencing_token = NextToken(q)
      /\ fresh.ttl_seconds = old.ttl_seconds
      /\ fresh.expires_at = old.expires_at
      /\ fresh.status = "active"
  BY <1>1, <1>2 DEF LeaseRow
<1>4. /\ newID \notin DOMAIN leases
      /\ leases' = InsertLease(
           SetLeaseStatus(leases, {id}, "active", "released"), newID, fresh)
      /\ resources' = UpsertResourceFencing(resources, q, NextToken(q), newID)
      /\ Log(<<e, f>>)
  BY <1>1 DEF Transfer
<1> HIDE DEF fresh
<1>5. /\ e \in AuditRow /\ e.action = "transfer" /\ e.lease_id = id /\ e.detail = "to"
      /\ e.resource = q /\ e.fencing_token = old.fencing_token
  BY <1>1, EntryType DEF LeaseInv, TypeOK, AuditAction, Detail, LeaseEntry, Entry
<1>6. /\ f \in AuditRow /\ f.action = "transfer" /\ f.lease_id = newID /\ f.detail = "from"
      /\ f.resource = q /\ f.fencing_token = fresh.fencing_token
  BY <1>3, EntryType DEF LeaseInv, TypeOK, AuditAction, Detail, LeaseEntry, Entry
<1> HIDE DEF e, f
<1>7. ActiveOf(q, id) /\ Current(q) = id
  BY <1>1, ActiveCurrent DEF ActiveOf
<1>8. Grants(q, newID, fresh, "released") /\ "released" \in Terminal
  <2>1. ActiveLeases(q) = {id}
    BY <1>1, <1>7, ActiveIsCurrent DEF CurrentLease
  <2> QED
    BY <1>3, <1>4, <2>1 DEF Grants, Terminal
<1>9. Fresh = {n + 1, n + 2} /\ audit'[n + 1] = e /\ audit'[n + 2] = f
  BY <1>4, <1>5, <1>6, TwoRows
<1>10. n \in Nat
  BY DEF LeaseInv, TypeOK
<1> HIDE DEF n
<1>11. Current(q)' = newID /\ leases'[newID] = fresh
  BY <1>1, <1>8, GrantTables
<1>12. GrantRows(q, newID)
  <2>1. EndsAt(n + 1, q) /\ audit'[n + 1].action = "transfer"
    BY <1>1, <1>5, <1>7, <1>9 DEF EndsAt, IsRetirement
  <2>2. GrantsAt(n + 2, q) /\ n + 1 < n + 2
    BY <1>1, <1>6, <1>9, <1>10, <1>11 DEF GrantsAt, IsGrant
  <2> QED
    BY <1>9, <2>1, <2>2 DEF GrantRows
<1>13. ReplayStep(r)
  BY <1>1, <1>8, <1>12, GrantReplay
<1>14. \A i \in Fresh : ~GateRow(audit'[i], r) /\ ~ExtensionRow(audit'[i], r)
  BY <1>5, <1>6, <1>9 DEF GateRow, ExtensionRow, Extensions
<1>15. /\ Locked(r)' = Locked(r)
       /\ \A x : ActiveOf(r, x)' =>
            \/ r = q /\ x = newID
            \/ r # q /\ ActiveOf(r, x) /\ leases'[x] = leases[x]
  BY <1>1, <1>8, GrantTables DEF ActiveOf
<1>16. GateStep(r)
  BY <1>14, <1>15 DEF GateStep
<1>17. \A x : ActiveOf(r, x)' =>
         \E y : /\ ActiveOf(r, y)
                /\ leases'[x].expires_at = leases[y].expires_at
                /\ leases'[x].ttl_seconds = leases[y].ttl_seconds
  <2> SUFFICES ASSUME NEW x, ActiveOf(r, x)'
               PROVE  \E y : /\ ActiveOf(r, y)
                             /\ leases'[x].expires_at = leases[y].expires_at
                             /\ leases'[x].ttl_seconds = leases[y].ttl_seconds
    OBVIOUS
  <2>1. CASE r = q
    BY <1>3, <1>7, <1>11, <1>15, <2>1
  <2>2. CASE r # q
    BY <1>15, <2>2
  <2> QED
    BY <2>1, <2>2
<1>18. DeadlineStep(r)
  BY <1>14, <1>17 DEF DeadlineStep
<1> QED
  BY <1>13, <1>16, <1>18 DEF HistoryStep

LEMMA StepHistory ==
  ASSUME LeaseInv, [Next]_vars, NEW r
  PROVE  HistoryStep(r)
<1>1. CASE UNCHANGED tables
  <2>1. Fresh = {}
    BY <1>1 DEF tables, Fresh, LeaseInv, TypeOK
  <2> QED
    BY <1>1, <2>1, IdleHistory DEF tables
<1>2. CASE AcquireRequest
  BY <1>2, AcquireHistory DEF AcquireRequest
<1>3. CASE LeaseRequest
  <2>1. PICK id \in LeaseId, token \in Token :
          \/ \E ttl \in TTL : Renew(id, token, ttl) \/ UpdateTTL(id, token, ttl)
          \/ Heartbeat(id, token)
          \/ Release(id, token)
          \/ \E h \in Holder, newID \in LeaseId : Transfer(id, token, h, newID)
    BY <1>3 DEF LeaseRequest
  <2>2. ASSUME NEW ttl \in TTL, Renew(id, token, ttl) \/ UpdateTTL(id, token, ttl)
        PROVE  HistoryStep(r)
    BY <2>2, ExtendHistory DEF Renew, UpdateTTL
  <2>3. CASE Release(id, token)
    BY <1>1, <2>3, RetireHistory DEF Release, Presented, vars
  <2> QED
    BY <2>1, <2>2, <2>3, HeartbeatHistory, TransferHistory
<1>4. CASE AdminRequest
  <2>1. ASSUME NEW id \in LeaseId, ForceRelease(id)
        PROVE  HistoryStep(r)
    BY <1>1, <2>1, RetireHistory DEF ForceRelease, vars
  <2>2. ASSUME NEW q \in Resource, LockResource(q) \/ UnlockResource(q)
        PROVE  HistoryStep(r)
    <3>1. PICK locked \in BOOLEAN : SetLock(q, locked, IF locked THEN "lock" ELSE "unlock")
      BY <2>2 DEF LockResource, UnlockResource
    <3>2. CASE ~AlreadyLocked(q, locked)
      BY <3>1, <3>2, LockHistory
    <3>3. CASE AlreadyLocked(q, locked)
      BY <1>1, <3>1, <3>3 DEF SetLock, vars
    <3> QED
      BY <3>2, <3>3
  <2> QED
    BY <1>4, <2>1, <2>2 DEF AdminRequest
<1>5. CASE Sweep \/ Recover
  BY <1>5, SweepHistory DEF Sweep, Recover
<1>6. CASE AuditRecover
  <2>1. UNCHANGED <<resources, leases>>
    BY <1>6 DEF AuditRecover
  <2>2. CASE UNCHANGED audit
    BY <1>1, <2>1, <2>2 DEF tables
  <2>3. CASE Log(<<Entry("recover", NoLease, NoResource, 0, now, "")>>)
    <3> DEFINE e == Entry("recover", NoLease, NoResource, 0, now, "")
    <3>1. e \in AuditRow /\ e.action = "recover"
      BY TimeType DEF LeaseInv, TypeOK, Entry, AuditRow, AuditAction, Detail
    <3> HIDE DEF e
    <3>2. Log(<<e>>)
      BY <2>3 DEF e
    <3>3. \A i \in Fresh : audit'[i].action \in {"recover", "heartbeat"}
      BY <3>1, <3>2, OneRow
    <3> QED
      BY <2>1, <3>3, IdleHistory
  <2> QED
    BY <1>6, <2>2, <2>3 DEF AuditRecover
<1>7. CASE Restart \/ ClockForward \/ ClockBack \/ UNCHANGED vars
  BY <1>1, <1>7 DEF Restart, ClockForward, ClockBack, vars
<1> QED
  BY <1>2, <1>3, <1>4, <1>5, <1>6, <1>7 DEF Next

-----------------------------------------------------------------------------
(* What the log says, at every commit *)

LEMMA InitHistory ==
  ASSUME Init, NEW r
  PROVE  GateOf(r) /\ DeadlineOf(r) /\ ReplayOf(r)
<1>1. audit = <<>> /\ DOMAIN resources = {} /\ DOMAIN leases = {}
  BY DEF Init, EmptyStore
<1>2. \A actions : RowsOf(r, actions) = {}
  BY <1>1 DEF RowsOf
<1>3. HandOvers(r) = {}
  BY <1>1 DEF HandOvers
<1>4. Current(r) = NoLease /\ ~Locked(r)
  BY <1>1 DEF Current, Locked, GetResource
<1>5. \A id : ~ActiveOf(r, id)
  BY <1>1 DEF ActiveOf
<1>6. GateOf(r)
  BY <1>2, <1>4 DEF GateOf
<1>7. ReplayOf(r)
  BY <1>3, <1>4 DEF ReplayOf, EndsWhatWasGranted, GrantsWhatHadEnded, SaysFree
<1> QED
  BY <1>5, <1>6, <1>7 DEF DeadlineOf

\* The audit log shows every lock with no second lock and no acquire before its
\* unlock, and its last lock or unlock agrees with the flag of the table.
THEOREM LocksHold == Spec => []LockGate
<1> DEFINE Inv == \A r \in Resource : GateOf(r)
<1>1. Init => Inv
  BY InitHistory
<1>2. ASSUME LeaseInv, Inv, [Next]_vars
      PROVE  Inv'
  <2>1. LogGrows /\ audit \in Seq(AuditRow)
    BY <1>2, StepGrows DEF LeaseInv, TypeOK
  <2> QED
    BY <1>2, <2>1, StepHistory, GateKept DEF HistoryStep
<1>3. Inv => LockGate
  BY DEF GateOf, LockGate, Locked
<1> QED
  BY <1>1, <1>2, <1>3, LeaseInvariant, PTL DEF Spec

\* The deadline of an active lease is that of the last acquire, renew or
\* ttl_update in the log, if no ttl that is asked for overflows the sum.
THEOREM DeadlinesFromLog ==
  ASSUME DeadlinesFit
  PROVE  Spec => []DeadlineFromLastExtension
<1> DEFINE Inv == \A r \in Resource : DeadlineOf(r)
<1>1. Init => Inv
  BY InitHistory
<1>2. ASSUME LeaseInv, Inv, [Next]_vars
      PROVE  Inv'
  <2>1. LogGrows /\ TypeOK
    BY <1>2, StepGrows DEF LeaseInv
  <2> QED
    BY <1>2, <2>1, DeadlinesFit, StepHistory, DeadlineKept DEF HistoryStep
<1>3. TypeOK /\ Inv => DeadlineFromLastExtension
  <2> SUFFICES ASSUME TypeOK, Inv, NEW id \in DOMAIN leases, leases[id].status = "active"
               PROVE  LET extensions == RowsOf(leases[id].resource, Extensions) IN
                      \E i \in extensions :
                        /\ IsLast(extensions, i)
                        /\ leases[id].expires_at = audit[i].at + leases[id].ttl_seconds
                        /\ leases[id].expires_at > audit[i].at
    BY DEF DeadlineFromLastExtension, Extensions
  <2>1. leases[id].resource \in Resource /\ ActiveOf(leases[id].resource, id)
    BY DEF TypeOK, LeaseRow, ActiveOf
  <2> QED
    BY <2>1 DEF DeadlineOf
<1> QED
  BY <1>1, <1>2, <1>3, LeaseInvariant, TypeCorrect, PTL DEF Spec

LEMMA ReplaysAll ==
  ASSUME \A r \in Resource : ReplayOf(r)
  PROVE  AuditReplays
<1> SUFFICES ASSUME NEW r \in Resource, ReplayOf(r)
             PROVE  IF HandOvers(r) = {}
                    THEN Current(r) = NoLease
                    ELSE \E i \in HandOvers(r) :
                           /\ IsLast(HandOvers(r), i)
                           /\ IF IsGrant(audit[i])
                              THEN /\ Current(r) = audit[i].lease_id
                                   /\ leases[Current(r)].fencing_token =
                                        audit[i].fencing_token
                              ELSE Current(r) = NoLease
  BY DEF AuditReplays, ReplayOf, EndsWhatWasGranted, GrantsWhatHadEnded
<1> QED
  BY GrantOrEnd DEF ReplayOf, SaysFree, SaysHeld

\* The audit log alone replays to the tables: grants and retirements of a
\* resource alternate, each retirement is of the lease granted just before it,
\* and the last row says which lease holds the resource now, under which token.
THEOREM LogReplays == Spec => []AuditReplays
<1> DEFINE Inv == \A r \in Resource : ReplayOf(r)
<1>1. Init => Inv
  BY InitHistory
<1>2. ASSUME LeaseInv, Inv, [Next]_vars
      PROVE  Inv'
  <2>1. LogGrows /\ audit \in Seq(AuditRow)
    BY <1>2, StepGrows DEF LeaseInv, TypeOK
  <2> QED
    BY <1>2, <2>1, StepHistory, ReplayKept DEF HistoryStep
<1>3. Inv => AuditReplays
  BY ReplaysAll
<1> QED
  BY <1>1, <1>2, <1>3, LeaseInvariant, PTL DEF Spec

-----------------------------------------------------------------------------
(* The log in the order of its times *)

NowRow == {e \in AuditRow : e.at = now}

\* A step logs what it does at the time it reads, or lets time pass.
Stamps ==
  \/ audit' = audit /\ (BackwardClock \/ now <= now')
  \/ now' = now /\ \E rows \in Seq(NowRow) : Log(rows)

LEMMA EntryNow ==
  ASSUME TypeOK, NEW action \in AuditAction, NEW id \in LeaseId, NEW l \in LeaseRow,
         NEW detail \in Detail
  PROVE  LeaseEntry(action, id, l, now, detail) \in NowRow
<1>1. LeaseEntry(action, id, l, now, detail) \in AuditRow
  BY EntryType DEF TypeOK
<1>2. LeaseEntry(action, id, l, now, detail).at = now
  BY DEF LeaseEntry, Entry
<1> QED
  BY <1>1, <1>2 DEF NowRow

LEMMA PlainNow ==
  ASSUME TypeOK, NEW action \in {"lock", "unlock", "recover"},
         NEW r \in Resource \cup {NoResource}
  PROVE  Entry(action, NoLease, r, 0, now, "") \in NowRow
BY TimeType DEF TypeOK, Entry, AuditRow, AuditAction, Detail, NowRow

LEMMA SweepRowsNow ==
  ASSUME TypeOK, NEW ids \in SUBSET (DOMAIN leases), NEW order \in SweepOrders(ids)
  PROVE  SweepRows(order) \in Seq(NowRow)
<1>1. order \in Seq(ids)
  BY OrderType
<1>2. ASSUME NEW i \in 1 .. Len(order)
      PROVE  LeaseEntry("sweep", order[i], leases[order[i]], now, "") \in NowRow
  <2>1. order[i] \in DOMAIN leases
    BY <1>1
  <2> QED
    BY <2>1, EntryNow DEF TypeOK, AuditAction, Detail
<1>3. DOMAIN order = 1 .. Len(order) /\ Len(order) \in Nat
  BY <1>1
<1>4. SweepRows(order) \in [1 .. Len(order) -> NowRow]
  BY <1>2, <1>3 DEF SweepRows
<1> QED
  BY <1>3, <1>4

LEMMA LoggedNow ==
  ASSUME TypeOK, NEW id \in DOMAIN leases,
         NEW action \in AuditAction,
         Log(<<LeaseEntry(action, id, leases[id], now, "")>>), now' = now
  PROVE  Stamps
<1>1. LeaseEntry(action, id, leases[id], now, "") \in NowRow
  BY EntryNow DEF TypeOK, Detail
<1>2. <<LeaseEntry(action, id, leases[id], now, "")>> \in Seq(NowRow)
  BY <1>1, SeqType
<1> QED
  BY <1>2 DEF Stamps

LEMMA ExtendStamps ==
  ASSUME TypeOK, NEW id \in LeaseId, NEW token, NEW ttl,
         Renew(id, token, ttl) \/ UpdateTTL(id, token, ttl)
  PROVE  Stamps
BY LoggedNow DEF Renew, UpdateTTL, Extend, Usable, Presented, AuditAction

LEMMA HeartbeatStamps ==
  ASSUME TypeOK, NEW id \in LeaseId, NEW token, Heartbeat(id, token)
  PROVE  Stamps
BY LoggedNow DEF Heartbeat, Usable, Presented, AuditAction

LEMMA RetireStamps ==
  ASSUME TypeOK, NEW id \in DOMAIN leases, NEW action \in {"release", "force_release"},
         Retire(id, action)
  PROVE  Stamps
BY LoggedNow DEF Retire, AuditAction

LEMMA AcquireStamps ==
  ASSUME TypeOK, NEW r \in Resource, NEW h \in Holder, NEW ttl \in TTL,
         NEW id \in LeaseId, Acquire(r, h, ttl, id)
  PROVE  Stamps
<1> DEFINE lease == [resource |-> r, holder |-> h, fencing_token |-> NextToken(r),
                     acquired_at |-> now, ttl_seconds |-> ttl,
                     expires_at |-> Add64(now, ttl), last_heartbeat |-> now,
                     status |-> "active"]
           row == LeaseEntry("acquire", id, lease, now, "")
<1>1. lease \in LeaseRow
  <2>1. Add64(now, ttl) \in Int64 /\ ttl \in Int64 /\ now \in Int64
    BY ManagerAssumption, DeadlineType, TimeType DEF Acquire, TypeOK
  <2> QED
    BY <2>1, RowType DEF LeaseRow, Status
<1>2. PICK existing \in GetActiveLeaseByResource(r) :
        \E order \in SweepOrders(existing) : Log(SweepRows(order) \o <<row>>)
  BY DEF Acquire
<1>3. existing \in SUBSET (DOMAIN leases)
  BY DEF GetActiveLeaseByResource, ActiveLeases
<1>4. row \in NowRow
  <2> HIDE DEF lease
  <2> QED
    BY <1>1, EntryNow DEF AuditAction, Detail
<1> HIDE DEF row
<1>5. PICK order \in SweepOrders(existing) : Log(SweepRows(order) \o <<row>>)
  BY <1>2
<1>6. SweepRows(order) \o <<row>> \in Seq(NowRow)
  BY <1>3, <1>4, SweepRowsNow, SeqType
<1>7. now' = now
  BY DEF Acquire
<1> QED
  BY <1>5, <1>6, <1>7 DEF Stamps

LEMMA TransferStamps ==
  ASSUME TypeOK, NEW id \in LeaseId, NEW token, NEW newHolder \in Holder,
         NEW newID \in LeaseId, Transfer(id, token, newHolder, newID)
  PROVE  Stamps
<1> DEFINE old == leases[id]
           fresh == [old EXCEPT !.holder = newHolder,
                                !.fencing_token = NextToken(old.resource),
                                !.last_heartbeat = now]
           one == LeaseEntry("transfer", id, old, now, "to")
           two == LeaseEntry("transfer", newID, fresh, now, "from")
<1>1. id \in DOMAIN leases /\ old \in LeaseRow /\ old.resource \in Resource
  BY DEF Transfer, Usable, Presented, TypeOK, LeaseRow
<1>2. NextToken(old.resource) \in Nat /\ now \in Int64
  BY <1>1, RowType, TimeType DEF TypeOK
<1>3. fresh \in LeaseRow
  BY <1>1, <1>2 DEF LeaseRow
<1>4. one \in NowRow /\ two \in NowRow
  <2> HIDE DEF old, fresh
  <2> QED
    BY <1>1, <1>3, EntryNow DEF AuditAction, Detail
<1>5. Log(<<one, two>>) /\ now' = now
  BY DEF Transfer
<1> HIDE DEF one, two
<1>6. <<one, two>> \in Seq(NowRow)
  BY <1>4, SeqType
<1> QED
  BY <1>5, <1>6 DEF Stamps

LEMMA SweepStamps ==
  ASSUME TypeOK, Sweep \/ Recover \/ AuditRecover
  PROVE  Stamps
<1>1. CASE Sweep \/ Recover
  <2>1. ListExpiredActive(now) \in SUBSET (DOMAIN leases)
    BY DEF ListExpiredActive
  <2>2. SweepCommit(ListExpiredActive(now))
    BY <1>1 DEF Sweep, Recover
  <2>3. PICK order \in SweepOrders(ListExpiredActive(now)) : Log(SweepRows(order))
    BY <2>2 DEF SweepCommit
  <2>4. SweepRows(order) \in Seq(NowRow)
    BY <2>1, SweepRowsNow
  <2> QED
    BY <2>2, <2>3, <2>4 DEF Stamps, SweepCommit
<1>2. CASE AuditRecover
  <2> DEFINE row == Entry("recover", NoLease, NoResource, 0, now, "")
  <2>1. row \in NowRow
    BY PlainNow
  <2>2. (Log(<<row>>) \/ audit' = audit) /\ now' = now
    BY <1>2 DEF AuditRecover
  <2> HIDE DEF row
  <2>3. <<row>> \in Seq(NowRow)
    BY <2>1, SeqType
  <2>4. now <= now
    BY ManagerAssumption DEF TypeOK, Time
  <2> QED
    BY <2>2, <2>3, <2>4 DEF Stamps
<1> QED
  BY <1>1, <1>2

LEMMA StepStamps ==
  ASSUME TypeOK, [Next]_vars
  PROVE  Stamps
<1>1. CASE UNCHANGED vars \/ Restart \/ ClockForward \/ ClockBack
  <2>1. now \in Int
    BY ManagerAssumption DEF TypeOK, Time
  <2>2. audit' = audit
    BY <1>1 DEF vars, tables, Restart, ClockForward, ClockBack
  <2>3. now <= now' \/ BackwardClock
    <3>1. now' = now \/ (\E t \in Time : t > now /\ now' = t) \/ BackwardClock
      BY <1>1 DEF vars, Restart, ClockForward, ClockBack
    <3> QED
      BY <2>1, <3>1, ManagerAssumption DEF Time
  <2> QED
    BY <2>2, <2>3 DEF Stamps
<1>2. CASE AcquireRequest
  BY <1>2, AcquireStamps DEF AcquireRequest
<1>3. ASSUME NEW id \in LeaseId, NEW token, id \in DOMAIN leases,
             Release(id, token) \/ ForceRelease(id)
      PROVE  Stamps
  BY <1>1, <1>3, RetireStamps DEF Release, ForceRelease
<1>4. CASE LeaseRequest
  <2>1. PICK id \in LeaseId, token \in Token :
          \/ \E ttl \in TTL : Renew(id, token, ttl) \/ UpdateTTL(id, token, ttl)
          \/ Heartbeat(id, token)
          \/ Release(id, token)
          \/ \E h \in Holder, newID \in LeaseId : Transfer(id, token, h, newID)
    BY <1>4 DEF LeaseRequest
  <2>2. CASE Release(id, token)
    BY <1>3, <2>2 DEF Release, Presented
  <2>3. CASE Heartbeat(id, token)
    BY <2>3, HeartbeatStamps
  <2> QED
    BY <2>1, <2>2, <2>3, ExtendStamps, TransferStamps
<1>5. ASSUME NEW r \in Resource, NEW locked, NEW action \in {"lock", "unlock"},
             SetLock(r, locked, action)
      PROVE  Stamps
  <2>1. CASE UNCHANGED vars
    BY <1>1, <2>1
  <2>2. CASE ~UNCHANGED vars
    <3> DEFINE row == Entry(action, NoLease, r, 0, now, "")
    <3>1. Log(<<row>>) /\ now' = now
      BY <1>5, <2>2 DEF SetLock
    <3>2. row \in NowRow
      BY PlainNow
    <3> HIDE DEF row
    <3>3. <<row>> \in Seq(NowRow)
      BY <3>2, SeqType
    <3> QED
      BY <3>1, <3>3 DEF Stamps
  <2> QED
    BY <2>1, <2>2
<1>6. CASE AdminRequest
  <2>1. \A id : ForceRelease(id) => id \in DOMAIN leases
    BY DEF ForceRelease
  <2> QED
    BY <1>3, <1>5, <1>6, <2>1 DEF AdminRequest, LockResource, UnlockResource
<1> QED
  BY <1>1, <1>2, <1>4, <1>6, SweepStamps DEF Next

\* No row is from the future, which is what keeps the next row in order.
PastInOrder ==
  ~BackwardClock =>
    /\ \A i \in DOMAIN audit : audit[i].at <= now
    /\ \A i, j \in DOMAIN audit : i < j => audit[i].at <= audit[j].at

LEMMA OrderKept ==
  ASSUME TypeOK, PastInOrder, now' \in Time, Stamps
  PROVE  PastInOrder'
<1> SUFFICES ASSUME ~BackwardClock
             PROVE  /\ \A i \in DOMAIN audit' : audit'[i].at <= now'
                    /\ \A i, j \in DOMAIN audit' : i < j => audit'[i].at <= audit'[j].at
  BY DEF PastInOrder
<1>1. /\ \A i \in DOMAIN audit : audit[i].at <= now
      /\ \A i, j \in DOMAIN audit : i < j => audit[i].at <= audit[j].at
  BY DEF PastInOrder
<1>2. /\ now \in Int /\ now' \in Int
      /\ audit \in Seq(AuditRow)
  BY ManagerAssumption DEF TypeOK, Time
<1>3. \A i \in DOMAIN audit : audit[i].at \in Int
  <2>1. \A i \in DOMAIN audit : audit[i] \in AuditRow
    BY <1>2
  <2>2. \A e \in AuditRow : e.at \in Int
    BY StoreAssumption DEF AuditRow, Int64
  <2> QED
    BY <2>1, <2>2
<1>4. CASE audit' = audit /\ now <= now'
  BY <1>1, <1>2, <1>3, <1>4
<1>5. ASSUME NEW rows \in Seq(NowRow), Log(rows), now' = now
      PROVE  /\ \A i \in DOMAIN audit' : audit'[i].at <= now'
             /\ \A i, j \in DOMAIN audit' : i < j => audit'[i].at <= audit'[j].at
  <2>1. rows \in Seq(AuditRow) /\ \A i \in DOMAIN rows : rows[i].at = now
    <3>1. \A i \in DOMAIN rows : rows[i] \in NowRow
      OBVIOUS
    <3>2. \A i \in 1 .. Len(rows) : rows[i] \in AuditRow /\ rows[i].at = now
      BY <3>1 DEF NowRow
    <3> QED
      BY <3>2
  <2>2. /\ Len(audit') = Len(audit) + Len(rows)
        /\ audit' \in Seq(AuditRow)
        /\ \A i \in DOMAIN audit : audit'[i] = audit[i]
        /\ \A i \in Len(audit) + 1 .. Len(audit') :
             i - Len(audit) \in DOMAIN rows /\ audit'[i] = rows[i - Len(audit)]
    BY <1>2, <1>5, <2>1 DEF Log
  <2>3. /\ Len(audit) \in Nat /\ DOMAIN audit = 1 .. Len(audit)
        /\ Len(audit') \in Nat /\ DOMAIN audit' = 1 .. Len(audit')
    BY <1>2, <2>2
  <2>4. \A i \in Len(audit) + 1 .. Len(audit') : audit'[i].at = now
    BY <2>1, <2>2
  <2>5. \A i \in DOMAIN audit' : i \in DOMAIN audit \/ i \in Len(audit) + 1 .. Len(audit')
    BY <2>3
  <2>6. \A i \in DOMAIN audit' : audit'[i].at \in Int /\ audit'[i].at <= now
    BY <1>1, <1>2, <1>3, <2>2, <2>4, <2>5
  <2>7. \A i, j \in DOMAIN audit' : i < j => audit'[i].at <= audit'[j].at
    <3> SUFFICES ASSUME NEW i \in DOMAIN audit', NEW j \in DOMAIN audit', i < j
                 PROVE  audit'[i].at <= audit'[j].at
      OBVIOUS
    <3>1. CASE j \in DOMAIN audit
      <4>1. i \in DOMAIN audit
        BY <2>3, <3>1
      <4> QED
        BY <1>1, <2>2, <3>1, <4>1
    <3>2. CASE j \in Len(audit) + 1 .. Len(audit')
      BY <2>4, <2>6, <3>2
    <3> QED
      BY <2>5, <3>1, <3>2
  <2> QED
    BY <1>5, <2>6, <2>7
<1> QED
  BY <1>4, <1>5 DEF Stamps

LEMMA PastOrdered == Spec => []PastInOrder
<1>1. Init => PastInOrder
  BY DEF Init, EmptyStore, PastInOrder
<1>2. TypeOK /\ PastInOrder /\ [Next]_vars => PastInOrder'
  <2>1. TypeOK /\ [Next]_vars => now' \in Time
    BY StepType DEF TypeOK, Time
  <2> QED
    BY <2>1, StepStamps, OrderKept
<1> QED
  BY <1>1, <1>2, TypeCorrect, PTL DEF Spec

=============================================================================
