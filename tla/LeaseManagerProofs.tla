------------------------- MODULE LeaseManagerProofs -------------------------
(***************************************************************************)
(* Theorems about LeaseManager for every value of its constants.  The      *)
(* first part is type correctness, the second the inductive invariant      *)
(* LeaseInv and what follows from it, the third the refinement of          *)
(* FencedLease.                                                            *)
(***************************************************************************)
EXTENDS LeaseProperties, FiniteSetTheorems, TLAPS

USE StoreAssumption, ManagerAssumption

-----------------------------------------------------------------------------
(* The types of what the statements return *)

LEMMA TimeType == Time \subseteq Int64
BY DEF Time, Int64

\* A deadline computed from a clock reading and a valid ttl is an int64,
\* whether or not the addition wraps.
LEMMA DeadlineType ==
  ASSUME NEW t \in Time, NEW ttl \in TTL, ValidTTL(ttl)
  PROVE  Add64(t, ttl) \in Int64
BY DEF Time, Int64, Add64, ValidTTL

LEMMA RowType ==
  ASSUME TypeOK, NEW r \in Resource
  PROVE  /\ GetResource(resources, r) \in ResourceRow
         /\ NextToken(r) \in Nat
BY DEF TypeOK, GetResource, NextToken, ResourceRow

\* Both upserts keep the table resources well formed.
LEMMA PutType ==
  ASSUME TypeOK, NEW r \in Resource, NEW row \in ResourceRow
  PROVE  LET tbl == PutResource(resources, r, row) IN
         /\ DOMAIN tbl \subseteq Resource
         /\ tbl \in [DOMAIN tbl -> ResourceRow]
BY DEF TypeOK, PutResource

LEMMA UpsertType ==
  ASSUME TypeOK, NEW r \in Resource, NEW token \in Nat,
         NEW id \in LeaseId \cup {NoLease}
  PROVE  LET tbl == UpsertResourceFencing(resources, r, token, id) IN
         /\ DOMAIN tbl \subseteq Resource
         /\ tbl \in [DOMAIN tbl -> ResourceRow]
<1> DEFINE row == [GetResource(resources, r) EXCEPT !.fencing_token = token,
                                                   !.current_lease_id = id]
<1>1. row \in ResourceRow
  BY RowType DEF ResourceRow
<1> QED
  BY <1>1, PutType DEF UpsertResourceFencing

LEMMA LockType ==
  ASSUME TypeOK, NEW r \in Resource, NEW locked \in BOOLEAN
  PROVE  LET tbl == SetResourceLocked(resources, r, locked) IN
         /\ DOMAIN tbl \subseteq Resource
         /\ tbl \in [DOMAIN tbl -> ResourceRow]
<1> DEFINE row == [GetResource(resources, r) EXCEPT !.locked = locked]
<1>1. row \in ResourceRow
  BY RowType DEF ResourceRow
<1> QED
  BY <1>1, PutType DEF SetResourceLocked

\* Every statement on the table leases keeps it well formed.
LEMMA StatusType ==
  ASSUME TypeOK, NEW ids, NEW status \in Status
  PROVE  LET tbl == SetLeaseStatus(leases, ids, "active", status) IN
         /\ DOMAIN tbl = DOMAIN leases
         /\ tbl \in [DOMAIN leases -> LeaseRow]
BY DEF TypeOK, SetLeaseStatus, LeaseRow

LEMMA InsertType ==
  ASSUME NEW tbl, NEW id \in LeaseId, NEW row \in LeaseRow,
         DOMAIN tbl \subseteq LeaseId, tbl \in [DOMAIN tbl -> LeaseRow]
  PROVE  LET new == InsertLease(tbl, id, row) IN
         /\ DOMAIN new \subseteq LeaseId
         /\ new \in [DOMAIN new -> LeaseRow]
BY DEF InsertLease

LEMMA ExpiryType ==
  ASSUME TypeOK, NEW id \in DOMAIN leases, NEW ttl \in Int64,
         NEW expires \in Int64, NEW at \in Int64
  PROVE  /\ UpdateLeaseExpiry(leases, id, ttl, expires, at)
              \in [DOMAIN leases -> LeaseRow]
         /\ UpdateLeaseHeartbeat(leases, id, at) \in [DOMAIN leases -> LeaseRow]
BY DEF TypeOK, UpdateLeaseExpiry, UpdateLeaseHeartbeat, LeaseRow

LEMMA EntryType ==
  ASSUME NEW action \in AuditAction, NEW id \in LeaseId, NEW l \in LeaseRow,
         NEW at \in Time, NEW detail \in Detail
  PROVE  LeaseEntry(action, id, l, at, detail) \in AuditRow
BY TimeType DEF LeaseEntry, Entry, LeaseRow, AuditRow

\* An order of a set of leases lists just these leases; its audit rows are
\* well formed.
LEMMA OrderType ==
  ASSUME TypeOK, NEW ids \in SUBSET (DOMAIN leases),
         NEW order \in SweepOrders(ids)
  PROVE  /\ order \in Seq(ids)
         /\ SweepRows(order) \in Seq(AuditRow)
<1>1. /\ IsFiniteSet(ids)
      /\ Cardinality(ids) \in Nat
  BY FS_Subset, FS_CardinalityType DEF TypeOK
<1>2. order \in [1 .. Cardinality(ids) -> ids]
  BY DEF SweepOrders, SetToSeqs
<1>3. order \in Seq(ids)
  BY <1>1, <1>2
<1>4. ASSUME NEW i \in 1 .. Cardinality(ids)
      PROVE  LeaseEntry("sweep", order[i], leases[order[i]], now, "") \in AuditRow
  <2>1. order[i] \in LeaseId /\ leases[order[i]] \in LeaseRow
    BY <1>2 DEF TypeOK
  <2> QED
    BY <2>1, EntryType DEF TypeOK, AuditAction, Detail
<1>5. SweepRows(order) \in [1 .. Cardinality(ids) -> AuditRow]
  BY <1>2, <1>4 DEF SweepRows
<1> QED
  BY <1>1, <1>3, <1>5

-----------------------------------------------------------------------------
(* Type correctness *)

LEMMA InitType == Init => TypeOK
<1> SUFFICES ASSUME Init PROVE TypeOK
  OBVIOUS
<1>1. DOMAIN resources = {} /\ DOMAIN leases = {}
  BY DEF Init, EmptyStore
<1> QED
  BY <1>1 DEF Init, EmptyStore, TypeOK

LEMMA SeqType ==
  ASSUME NEW S, NEW e \in S
  PROVE  /\ <<e>> \in Seq(S)
         /\ \A f \in S : <<e, f>> \in Seq(S)
         /\ \A s \in Seq(S) : s \o <<e>> \in Seq(S)
OBVIOUS

LEMMA LogType ==
  ASSUME TypeOK, NEW rows \in Seq(AuditRow), Log(rows)
  PROVE  audit' \in Seq(AuditRow)
BY DEF TypeOK, Log

LEMMA ExtendType ==
  ASSUME TypeOK, NEW id \in DOMAIN leases, NEW ttl \in TTL,
         NEW action \in {"renew", "ttl_update"}, Extend(id, ttl, action)
  PROVE  TypeOK'
<1>1. Add64(now, ttl) \in Int64 /\ ttl \in Int64 /\ now \in Int64
  BY DeadlineType, TimeType DEF Extend, TypeOK
<1>2. leases' \in [DOMAIN leases -> LeaseRow]
  BY <1>1, ExpiryType DEF Extend
<1>3. LeaseEntry(action, id, leases[id], now, "") \in AuditRow
  BY EntryType DEF TypeOK, AuditAction, Detail
<1>4. audit' \in Seq(AuditRow)
  <2>1. <<LeaseEntry(action, id, leases[id], now, "")>> \in Seq(AuditRow)
    BY <1>3, SeqType
  <2> QED
    BY <2>1, LogType DEF Extend
<1> QED
  BY <1>2, <1>4 DEF Extend, TypeOK, process

LEMMA RetireType ==
  ASSUME TypeOK, NEW id \in DOMAIN leases,
         NEW action \in {"release", "force_release"}, Retire(id, action)
  PROVE  TypeOK'
<1> DEFINE r == leases[id].resource
<1>1. r \in Resource
  BY DEF TypeOK, LeaseRow
<1>2. /\ DOMAIN resources' \subseteq Resource
      /\ resources' \in [DOMAIN resources' -> ResourceRow]
  BY <1>1, RowType, UpsertType DEF Retire, FreeResource
<1>3. leases' \in [DOMAIN leases -> LeaseRow]
  BY StatusType DEF Retire, Status, Terminal
<1>4. LeaseEntry(action, id, leases[id], now, "") \in AuditRow
  BY EntryType DEF TypeOK, AuditAction, Detail
<1>5. audit' \in Seq(AuditRow)
  <2>1. <<LeaseEntry(action, id, leases[id], now, "")>> \in Seq(AuditRow)
    BY <1>4, SeqType
  <2> QED
    BY <2>1, LogType DEF Retire
<1> QED
  BY <1>2, <1>3, <1>5 DEF Retire, TypeOK, process

\* What Acquire and Transfer have in common: the leases of gone end, a fresh
\* one is inserted and the resource row names it.
LEMMA GrantType ==
  ASSUME TypeOK, NEW r \in Resource, NEW id \in LeaseId, NEW row \in LeaseRow,
         NEW gone, NEW status \in Status,
         leases' = InsertLease(SetLeaseStatus(leases, gone, "active", status), id, row),
         resources' = UpsertResourceFencing(resources, r, NextToken(r), id),
         audit' \in Seq(AuditRow),
         UNCHANGED <<now, process>>
  PROVE  TypeOK'
<1>1. /\ DOMAIN resources' \subseteq Resource
      /\ resources' \in [DOMAIN resources' -> ResourceRow]
  BY RowType, UpsertType
<1> DEFINE tbl == SetLeaseStatus(leases, gone, "active", status)
<1>2. DOMAIN tbl \subseteq LeaseId /\ tbl \in [DOMAIN tbl -> LeaseRow]
  BY StatusType DEF TypeOK
<1>3. DOMAIN leases' \subseteq LeaseId /\ leases' \in [DOMAIN leases' -> LeaseRow]
  <2> HIDE DEF tbl
  <2>1. leases' = InsertLease(tbl, id, row)
    BY DEF tbl
  <2> QED
    BY <1>2, <2>1, InsertType
<1> QED
  BY <1>1, <1>3 DEF TypeOK, process

LEMMA AcquireType ==
  ASSUME TypeOK, NEW r \in Resource, NEW h \in Holder, NEW ttl \in TTL,
         NEW id \in LeaseId, Acquire(r, h, ttl, id)
  PROVE  TypeOK'
<1> DEFINE lease == [resource |-> r, holder |-> h, fencing_token |-> NextToken(r),
                     acquired_at |-> now, ttl_seconds |-> ttl,
                     expires_at |-> Add64(now, ttl), last_heartbeat |-> now,
                     status |-> "active"]
<1>1. lease \in LeaseRow
  <2>1. Add64(now, ttl) \in Int64 /\ ttl \in Int64 /\ now \in Int64
    BY DeadlineType, TimeType DEF Acquire, TypeOK
  <2> QED
    BY <2>1, RowType DEF LeaseRow, Status
<1>2. PICK existing \in GetActiveLeaseByResource(r) :
        \E order \in SweepOrders(existing) :
          /\ leases' = InsertLease(
               SetLeaseStatus(leases, existing, "active", "expired"), id, lease)
          /\ Log(SweepRows(order) \o <<LeaseEntry("acquire", id, lease, now, "")>>)
  BY DEF Acquire
<1>3. PICK order \in SweepOrders(existing) :
        /\ leases' = InsertLease(
             SetLeaseStatus(leases, existing, "active", "expired"), id, lease)
        /\ Log(SweepRows(order) \o <<LeaseEntry("acquire", id, lease, now, "")>>)
  BY <1>2
<1>4. existing \in SUBSET (DOMAIN leases)
  BY DEF GetActiveLeaseByResource, ActiveLeases
<1>5. SweepRows(order) \in Seq(AuditRow)
  BY <1>4, OrderType
<1>6. LeaseEntry("acquire", id, lease, now, "") \in AuditRow
  BY <1>1, EntryType DEF TypeOK, AuditAction, Detail
<1> HIDE DEF lease
<1>7. audit' \in Seq(AuditRow)
  <2>1. SweepRows(order) \o <<LeaseEntry("acquire", id, lease, now, "")>> \in Seq(AuditRow)
    BY <1>5, <1>6, SeqType
  <2> QED
    BY <1>3, <2>1, LogType
<1>8. /\ resources' = UpsertResourceFencing(resources, r, NextToken(r), id)
      /\ UNCHANGED <<now, process>>
  BY DEF Acquire
<1> QED
  BY <1>1, <1>3, <1>7, <1>8, GrantType DEF Status, Terminal

LEMMA TransferType ==
  ASSUME TypeOK, NEW id \in LeaseId, NEW token, NEW newHolder \in Holder,
         NEW newID \in LeaseId, Transfer(id, token, newHolder, newID)
  PROVE  TypeOK'
<1> DEFINE old == leases[id]
           fresh == [old EXCEPT !.holder = newHolder,
                                !.fencing_token = NextToken(old.resource),
                                !.last_heartbeat = now]
<1>1. id \in DOMAIN leases /\ old \in LeaseRow /\ old.resource \in Resource
  BY DEF Transfer, Usable, Presented, TypeOK, LeaseRow
<1>2. NextToken(old.resource) \in Nat /\ now \in Int64
  BY <1>1, RowType, TimeType DEF TypeOK
<1>3. fresh \in LeaseRow
  BY <1>1, <1>2 DEF LeaseRow
<1>4. /\ LeaseEntry("transfer", id, old, now, "to") \in AuditRow
      /\ LeaseEntry("transfer", newID, fresh, now, "from") \in AuditRow
  BY <1>1, <1>3, EntryType DEF TypeOK, AuditAction, Detail
<1> HIDE DEF old, fresh
<1>5. audit' \in Seq(AuditRow)
  <2>1. <<LeaseEntry("transfer", id, old, now, "to"),
          LeaseEntry("transfer", newID, fresh, now, "from")>> \in Seq(AuditRow)
    BY <1>4, SeqType
  <2> QED
    BY <2>1, LogType DEF Transfer, old, fresh
<1> QED
  BY <1>1, <1>3, <1>5, GrantType DEF Transfer, old, fresh, Status, Terminal

LEMMA SetLockType ==
  ASSUME TypeOK, NEW r \in Resource, NEW locked \in BOOLEAN,
         NEW action \in {"lock", "unlock"}, SetLock(r, locked, action)
  PROVE  TypeOK'
<1>1. CASE UNCHANGED vars
  BY <1>1 DEF TypeOK, vars, tables, process
<1>2. CASE ~AlreadyLocked(r, locked)
  <2>1. /\ DOMAIN resources' \subseteq Resource
        /\ resources' \in [DOMAIN resources' -> ResourceRow]
    BY <1>2, LockType DEF SetLock
  <2>2. Entry(action, NoLease, r, 0, now, "") \in AuditRow
    BY TimeType DEF TypeOK, Entry, AuditRow, AuditAction, Detail
  <2>3. <<Entry(action, NoLease, r, 0, now, "")>> \in Seq(AuditRow)
    BY <2>2, SeqType
  <2>4. audit' \in Seq(AuditRow)
    BY <1>2, <2>3, LogType DEF SetLock
  <2> QED
    BY <1>2, <2>1, <2>4 DEF SetLock, TypeOK, process
<1> QED
  BY <1>1, <1>2 DEF SetLock

LEMMA HeartbeatType ==
  ASSUME TypeOK, NEW id \in LeaseId, NEW token, Heartbeat(id, token)
  PROVE  TypeOK'
<1>1. id \in DOMAIN leases /\ now \in Int64
  BY TimeType DEF Heartbeat, Usable, Presented, TypeOK
<1>2. leases' \in [DOMAIN leases -> LeaseRow]
  BY <1>1, ExpiryType DEF Heartbeat
<1>3. LeaseEntry("heartbeat", id, leases[id], now, "") \in AuditRow
  BY <1>1, EntryType DEF TypeOK, AuditAction, Detail
<1>4. audit' \in Seq(AuditRow)
  <2>1. <<LeaseEntry("heartbeat", id, leases[id], now, "")>> \in Seq(AuditRow)
    BY <1>3, SeqType
  <2> QED
    BY <2>1, LogType DEF Heartbeat
<1> QED
  BY <1>2, <1>4 DEF Heartbeat, TypeOK, process

LEMMA BumpType ==
  ASSUME NEW row \in ResourceRow, NEW n \in Nat
  PROVE  [row EXCEPT !.fencing_token = @ + n, !.current_lease_id = NoLease]
           \in ResourceRow
<1> DEFINE token == row.fencing_token + n
<1>1. token \in Nat
  BY DEF ResourceRow
<1> HIDE DEF token
<1>2. [row EXCEPT !.fencing_token = token, !.current_lease_id = NoLease]
        \in ResourceRow
  BY <1>1 DEF ResourceRow
<1> QED
  BY <1>2 DEF token

LEMMA SweepType ==
  ASSUME TypeOK, NEW expired \in SUBSET (DOMAIN leases), SweepCommit(expired),
         phase' \in {"starting", "serving"}, owed' \in Nat
  PROVE  TypeOK'
<1> DEFINE on(r) == {id \in expired : leases[id].resource = r}
           touched == {leases[id].resource : id \in expired}
           after(r) == IF on(r) = {}
                       THEN resources[r]
                       ELSE [GetResource(resources, r) EXCEPT
                               !.fencing_token = @ + Cardinality(on(r)),
                               !.current_lease_id = NoLease]
<1>1. leases' \in [DOMAIN leases -> LeaseRow]
  BY StatusType DEF SweepCommit, Status, Terminal
<1>2. ASSUME NEW r \in DOMAIN resources \cup touched
      PROVE  r \in Resource /\ after(r) \in ResourceRow
  <2>1. r \in Resource
    BY DEF TypeOK, LeaseRow
  <2>2. CASE on(r) = {}
    BY <2>1, <2>2 DEF TypeOK
  <2>3. CASE on(r) # {}
    <3>1. Cardinality(on(r)) \in Nat
      BY FS_Subset, FS_CardinalityType DEF TypeOK
    <3>2. GetResource(resources, r) \in ResourceRow
      BY <2>1, RowType
    <3> HIDE DEF on
    <3>3. PICK row \in ResourceRow, n \in Nat :
            row = GetResource(resources, r) /\ n = Cardinality(on(r))
      BY <3>1, <3>2
    <3>4. after(r) = [row EXCEPT !.fencing_token = @ + n, !.current_lease_id = NoLease]
      BY <2>3, <3>3
    <3> HIDE DEF after
    <3>5. [row EXCEPT !.fencing_token = @ + n, !.current_lease_id = NoLease] \in ResourceRow
      BY BumpType
    <3> QED
      BY <2>1, <3>4, <3>5
  <2> QED
    BY <2>2, <2>3
<1>3. resources' = [r \in DOMAIN resources \cup touched |-> after(r)]
  BY DEF SweepCommit
<1>4. /\ DOMAIN resources' \subseteq Resource
      /\ resources' \in [DOMAIN resources' -> ResourceRow]
  <2> HIDE DEF touched, after
  <2> QED
    BY <1>2, <1>3
<1>5. audit' \in Seq(AuditRow)
  BY OrderType, LogType DEF SweepCommit
<1> QED
  BY <1>1, <1>4, <1>5 DEF SweepCommit, TypeOK

LEMMA RecoverType ==
  ASSUME TypeOK, Sweep \/ Recover \/ AuditRecover
  PROVE  TypeOK'
<1>1. ListExpiredActive(now) \in SUBSET (DOMAIN leases)
  BY DEF ListExpiredActive
<1>2. CASE Sweep
  BY <1>1, <1>2, SweepType DEF Sweep, TypeOK, process
<1>3. CASE Recover
  BY <1>1, <1>3, SweepType DEF Recover, TypeOK
<1>4. CASE AuditRecover
  <2>1. Entry("recover", NoLease, NoResource, 0, now, "") \in AuditRow
    BY TimeType DEF TypeOK, Entry, AuditRow, AuditAction, Detail
  <2>2. <<Entry("recover", NoLease, NoResource, 0, now, "")>> \in Seq(AuditRow)
    BY <2>1, SeqType
  <2>3. audit' \in Seq(AuditRow)
    BY <1>4, <2>2, LogType DEF AuditRecover, TypeOK
  <2>4. owed' \in Nat
    <3>1. owed \in Nat /\ owed > 0 /\ owed' = owed - 1
      BY <1>4 DEF AuditRecover, TypeOK
    <3> QED
      BY <3>1
  <2> QED
    BY <1>4, <2>3, <2>4 DEF AuditRecover, TypeOK
<1> QED
  BY <1>2, <1>3, <1>4

\* A request may carry any token at all, also one that is not in Token.
RequestOf(id, token) ==
  \/ \E ttl \in TTL : Renew(id, token, ttl) \/ UpdateTTL(id, token, ttl)
  \/ Heartbeat(id, token)
  \/ Release(id, token)
  \/ \E h \in Holder, newID \in LeaseId : Transfer(id, token, h, newID)

AnyRequest == \E id \in LeaseId : \E token : RequestOf(id, token)

AnyNext ==
  \/ AcquireRequest \/ AnyRequest \/ AdminRequest
  \/ Sweep \/ Recover \/ AuditRecover
  \/ Restart \/ ClockForward \/ ClockBack

LEMMA RequestIsAny == LeaseRequest => AnyRequest
BY DEF LeaseRequest, AnyRequest, RequestOf

LEMMA NextIsAny == [Next]_vars => [AnyNext]_vars
BY RequestIsAny DEF Next, AnyNext

LEMMA RequestType ==
  ASSUME TypeOK, AcquireRequest \/ AnyRequest \/ AdminRequest
  PROVE  TypeOK'
<1>1. CASE UNCHANGED vars
  BY <1>1 DEF TypeOK, vars, tables, process
<1>2. CASE AcquireRequest
  BY <1>2, AcquireType DEF AcquireRequest
<1>3. ASSUME NEW id \in LeaseId, NEW token, NEW ttl \in TTL,
             Renew(id, token, ttl) \/ UpdateTTL(id, token, ttl)
      PROVE  TypeOK'
  BY <1>3, ExtendType DEF Renew, UpdateTTL, Usable, Presented
<1>4. ASSUME NEW id \in LeaseId, NEW token, Release(id, token)
      PROVE  TypeOK'
  BY <1>1, <1>4, RetireType DEF Release, Presented
<1>5. ASSUME NEW id \in LeaseId, ForceRelease(id)
      PROVE  TypeOK'
  BY <1>1, <1>5, RetireType DEF ForceRelease
<1>6. CASE AnyRequest
  BY <1>3, <1>4, <1>6, HeartbeatType, TransferType DEF AnyRequest, RequestOf
<1>7. CASE AdminRequest
  BY <1>5, <1>7, SetLockType DEF AdminRequest, LockResource, UnlockResource
<1> QED
  BY <1>2, <1>6, <1>7

LEMMA AnyStepType == TypeOK /\ [AnyNext]_vars => TypeOK'
<1> SUFFICES ASSUME TypeOK, [AnyNext]_vars PROVE TypeOK'
  OBVIOUS
<1>1. CASE Restart \/ ClockForward \/ ClockBack \/ UNCHANGED vars
  BY <1>1 DEF Restart, ClockForward, ClockBack, TypeOK, vars, tables, process
<1> QED
  BY <1>1, RequestType, RecoverType DEF AnyNext

LEMMA StepType == TypeOK /\ [Next]_vars => TypeOK'
BY AnyStepType, NextIsAny

\* The rows of the three tables keep the types of their columns.
THEOREM TypeCorrect == Spec => []TypeOK
BY InitType, StepType, PTL DEF Spec

-----------------------------------------------------------------------------
(* The inductive invariant *)

\* LeaseInv leaves one candidate for the active lease of a resource.
LEMMA ActiveIsCurrent == LeaseInv => CurrentLease
<1> SUFFICES ASSUME LeaseInv, NEW r \in Resource
             PROVE  ActiveLeases(r) = {Current(r)} \ {NoLease}
  BY DEF CurrentLease
<1>1. ASSUME NEW id \in ActiveLeases(r)
      PROVE  id = Current(r) /\ id # NoLease
  BY <1>1, Zenon DEF ActiveLeases, Current, GetResource, LeaseInv, LeaseHasRow, TypeOK
<1>2. ASSUME Current(r) # NoLease
      PROVE  Current(r) \in ActiveLeases(r)
  BY <1>2 DEF ActiveLeases, Current, GetResource, LeaseInv, RowNamesLease
<1> QED
  BY <1>1, <1>2

LEMMA InvLedger == LeaseInv => TokenLedger
BY DEF LeaseInv, LeaseHasRow, TypeOK, LeaseRow, Status, IsTerminal, Terminal,
       TokenLedger, Counter, GetResource

LEMMA InitInv == Init => LeaseInv
<1> SUFFICES ASSUME Init PROVE LeaseInv
  OBVIOUS
<1>1. DOMAIN resources = {} /\ DOMAIN leases = {}
  BY DEF Init, EmptyStore
<1> QED
  BY <1>1, InitType DEF LeaseInv, LeaseHasRow, RowNamesLease

\* What a step can be.  It leaves alone what the invariant reads, and every
\* terminal row; only a flag of one resource may change, or its row appear.
Keeps ==
  /\ DOMAIN leases' = DOMAIN leases
  /\ \A id \in DOMAIN leases :
       /\ leases'[id].resource = leases[id].resource
       /\ leases'[id].fencing_token = leases[id].fencing_token
       /\ leases'[id].status = leases[id].status
       /\ IsTerminal(leases[id].status) => leases'[id] = leases[id]
  /\ DOMAIN resources \subseteq DOMAIN resources'
  /\ \A r \in DOMAIN resources :
       /\ resources'[r].fencing_token = resources[r].fencing_token
       /\ resources'[r].current_lease_id = resources[r].current_lease_id
  /\ \A r \in DOMAIN resources' \ DOMAIN resources :
       /\ resources'[r].fencing_token = 0
       /\ resources'[r].current_lease_id = NoLease
  /\ \E r \in Resource : \A q \in Resource \ {r} :
       GetResource(resources', q) = GetResource(resources, q)

\* It ends the active leases of gone, and clears the row and raises the
\* counter of just the resources that these leases are of.
Ends(gone, status) ==
  /\ \A id \in gone : leases[id].status = "active"
  /\ leases' = SetLeaseStatus(leases, gone, "active", status)
  /\ DOMAIN resources' = DOMAIN resources
  /\ \A r \in DOMAIN resources :
       IF \E id \in gone : leases[id].resource = r
       THEN /\ resources'[r].fencing_token > resources[r].fencing_token
            /\ resources'[r].current_lease_id = NoLease
            /\ resources'[r].locked = resources[r].locked
       ELSE resources'[r] = resources[r]

\* It ends the active lease of r, if there is one, and inserts one that
\* carries the next token; r was open or held.
Grants(r, id, row, status) ==
  /\ id \notin DOMAIN leases
  /\ row.resource = r
  /\ row.fencing_token = NextToken(r)
  /\ row.status = "active"
  /\ ~GetResource(resources, r).locked \/ ActiveLeases(r) # {}
  /\ leases' = InsertLease(
       SetLeaseStatus(leases, ActiveLeases(r), "active", status), id, row)
  /\ resources' = UpsertResourceFencing(resources, r, NextToken(r), id)

LEMMA KeptInv ==
  ASSUME LeaseInv, TypeOK', Keeps
  PROVE  LeaseInv'
BY DEF Keeps, LeaseInv, LeaseHasRow, RowNamesLease

LEMMA EndInv ==
  ASSUME LeaseInv, TypeOK', NEW gone \in SUBSET (DOMAIN leases),
         NEW status \in Terminal, Ends(gone, status)
  PROVE  LeaseInv'
<1> USE DEF Ends
<1>1. /\ DOMAIN leases' = DOMAIN leases
      /\ \A id \in DOMAIN leases :
           /\ leases'[id].resource = leases[id].resource
           /\ leases'[id].fencing_token = leases[id].fencing_token
           /\ leases'[id].status = IF id \in gone THEN status ELSE leases[id].status
  BY DEF SetLeaseStatus, LeaseInv, TypeOK, LeaseRow
<1>2. ASSUME NEW id \in DOMAIN leases,
             NEW r, r = leases[id].resource
      PROVE  /\ r \in DOMAIN resources'
             /\ leases'[id].fencing_token > 0
             /\ IF leases'[id].status = "active"
                THEN /\ leases'[id].fencing_token = resources'[r].fencing_token
                     /\ resources'[r].current_lease_id = id
                ELSE leases'[id].fencing_token < resources'[r].fencing_token
  <2>1. /\ r \in DOMAIN resources
        /\ leases[id].fencing_token \in Nat
        /\ resources[r].fencing_token \in Nat
        /\ resources'[r].fencing_token \in Nat
    BY <1>2 DEF LeaseInv, LeaseHasRow, TypeOK, LeaseRow, ResourceRow
  <2>2. /\ leases[id].fencing_token > 0
        /\ IF leases[id].status = "active"
           THEN /\ leases[id].fencing_token = resources[r].fencing_token
                /\ resources[r].current_lease_id = id
           ELSE leases[id].fencing_token < resources[r].fencing_token
    BY <1>2 DEF LeaseInv, LeaseHasRow
  <2>3. CASE \E x \in gone : leases[x].resource = r
    <3>1. PICK x \in gone : leases[x].resource = r
      BY <2>3
    <3>2. resources[r].current_lease_id = x
      BY <3>1 DEF LeaseInv, LeaseHasRow
    <3>3. leases[id].status = "active" => id \in gone
      BY <2>2, <3>2
    <3>4. leases'[id].status # "active"
      BY <1>1, <3>3 DEF Terminal
    <3>5. resources'[r].fencing_token > resources[r].fencing_token
      BY <2>1, <2>3
    <3> QED
      BY <1>1, <2>1, <2>2, <3>4, <3>5
  <2>4. CASE ~ \E x \in gone : leases[x].resource = r
    BY <1>1, <1>2, <2>1, <2>2, <2>4
  <2> QED
    BY <2>3, <2>4
<1>3. LeaseHasRow'
  BY <1>1, <1>2 DEF LeaseHasRow
<1>4. RowNamesLease'
  <2> SUFFICES ASSUME NEW r \in DOMAIN resources,
                      resources'[r].current_lease_id # NoLease
               PROVE  LET id == resources'[r].current_lease_id IN
                      /\ id \in DOMAIN leases'
                      /\ leases'[id].resource = r
                      /\ leases'[id].status = "active"
    BY DEF RowNamesLease
  <2> DEFINE id == resources[r].current_lease_id
  <2>1. /\ resources'[r] = resources[r]
        /\ ~ \E x \in gone : leases[x].resource = r
    OBVIOUS
  <2>2. id \in DOMAIN leases /\ leases[id].resource = r /\ leases[id].status = "active"
    BY <2>1 DEF LeaseInv, RowNamesLease
  <2> QED
    BY <1>1, <2>1, <2>2
<1> QED
  BY <1>3, <1>4 DEF LeaseInv

LEMMA GrantInv ==
  ASSUME LeaseInv, TypeOK', NEW r \in Resource, NEW id \in LeaseId,
         NEW row \in LeaseRow, NEW status \in Terminal, Grants(r, id, row, status)
  PROVE  LeaseInv'
<1> USE DEF Grants
<1> DEFINE counter == GetResource(resources, r).fencing_token
<1>1. /\ DOMAIN leases' = DOMAIN leases \cup {id}
      /\ leases'[id] = row
      /\ \A x \in DOMAIN leases :
           /\ leases'[x].resource = leases[x].resource
           /\ leases'[x].fencing_token = leases[x].fencing_token
           /\ leases'[x].status = IF x \in ActiveLeases(r)
                                  THEN status ELSE leases[x].status
  BY DEF InsertLease, SetLeaseStatus, ActiveLeases, LeaseInv, TypeOK, LeaseRow
<1>2. /\ DOMAIN resources' = DOMAIN resources \cup {r}
      /\ resources'[r].fencing_token = counter + 1
      /\ resources'[r].current_lease_id = id
      /\ \A x \in DOMAIN resources : x # r => resources'[x] = resources[x]
  BY RowType DEF LeaseInv, UpsertResourceFencing, PutResource, NextToken, ResourceRow
<1>3. counter \in Nat
  BY RowType DEF LeaseInv, ResourceRow
<1>4. ASSUME NEW x \in DOMAIN leases, NEW q, q = leases[x].resource
      PROVE  /\ q \in DOMAIN resources'
             /\ leases'[x].fencing_token > 0
             /\ IF leases'[x].status = "active"
                THEN /\ leases'[x].fencing_token = resources'[q].fencing_token
                     /\ resources'[q].current_lease_id = x
                ELSE leases'[x].fencing_token < resources'[q].fencing_token
  <2>1. /\ q \in DOMAIN resources
        /\ leases[x].fencing_token > 0
        /\ IF leases[x].status = "active"
           THEN /\ leases[x].fencing_token = resources[q].fencing_token
                /\ resources[q].current_lease_id = x
           ELSE leases[x].fencing_token < resources[q].fencing_token
    BY <1>4 DEF LeaseInv, LeaseHasRow
  <2>2. leases[x].fencing_token \in Nat
    BY DEF LeaseInv, TypeOK, LeaseRow
  <2>3. CASE q = r
    <3>1. leases'[x].status # "active"
      BY <1>1, <1>4, <2>3 DEF ActiveLeases, Terminal
    <3>2. leases[x].fencing_token <= counter
      BY <1>3, <2>1, <2>2, <2>3 DEF GetResource
    <3>3. leases[x].fencing_token < counter + 1
      BY <1>3, <2>2, <3>2
    <3> QED
      BY <1>1, <1>2, <2>1, <2>3, <3>1, <3>3
  <2>4. CASE q # r
    BY <1>1, <1>2, <1>4, <2>1, <2>4 DEF ActiveLeases
  <2> QED
    BY <2>3, <2>4
<1>5. LeaseHasRow'
  <2>1. /\ row.resource \in DOMAIN resources'
        /\ row.fencing_token = resources'[r].fencing_token
        /\ row.fencing_token > 0
    BY <1>2, <1>3 DEF NextToken
  <2> QED
    BY <1>1, <1>2, <1>4, <2>1 DEF LeaseHasRow
<1>6. RowNamesLease'
  <2> SUFFICES ASSUME NEW q \in DOMAIN resources',
                      resources'[q].current_lease_id # NoLease
               PROVE  LET x == resources'[q].current_lease_id IN
                      /\ x \in DOMAIN leases'
                      /\ leases'[x].resource = q
                      /\ leases'[x].status = "active"
    BY DEF RowNamesLease
  <2>1. CASE q = r
    BY <1>1, <1>2, <2>1
  <2>2. CASE q # r
    <3> DEFINE x == resources[q].current_lease_id
    <3>1. q \in DOMAIN resources /\ resources'[q] = resources[q]
      BY <1>2, <2>2
    <3>2. x \in DOMAIN leases /\ leases[x].resource = q /\ leases[x].status = "active"
      BY <3>1 DEF LeaseInv, RowNamesLease
    <3>3. x \notin ActiveLeases(r)
      BY <2>2, <3>2 DEF ActiveLeases
    <3> QED
      BY <1>1, <3>1, <3>2, <3>3
  <2> QED
    BY <2>1, <2>2
<1> QED
  BY <1>5, <1>6 DEF LeaseInv

-----------------------------------------------------------------------------
(* Every step has one of these shapes *)

LEMMA ExtendKeeps ==
  ASSUME TypeOK, NEW id, NEW token, Usable(id, token),
         NEW ttl, NEW action,
         Extend(id, ttl, action) \/ Heartbeat(id, token)
  PROVE  Keeps
<1>1. id \in DOMAIN leases /\ ~IsTerminal(leases[id].status)
  BY DEF Usable, Presented
<1>2. /\ DOMAIN leases' = DOMAIN leases
      /\ \A x \in DOMAIN leases :
           /\ leases'[x].resource = leases[x].resource
           /\ leases'[x].fencing_token = leases[x].fencing_token
           /\ leases'[x].status = leases[x].status
           /\ x # id => leases'[x] = leases[x]
  <2>1. CASE Extend(id, ttl, action)
    <3>1. leases' = UpdateLeaseExpiry(leases, id, ttl, Add64(now, ttl), now)
      BY <2>1 DEF Extend
    <3> QED
      BY <1>1, <3>1 DEF UpdateLeaseExpiry, TypeOK, LeaseRow
  <2>2. CASE Heartbeat(id, token)
    BY <1>1, <2>2 DEF Heartbeat, UpdateLeaseHeartbeat, TypeOK, LeaseRow
  <2> QED
    BY <2>1, <2>2
<1>3. UNCHANGED resources
  BY DEF Extend, Heartbeat
<1>4. \A q \in Resource : GetResource(resources', q) = GetResource(resources, q)
  BY <1>3
<1>5. leases[id].resource \in Resource
  BY <1>1 DEF TypeOK, LeaseRow
<1> QED
  BY <1>1, <1>2, <1>3, <1>4, <1>5 DEF Keeps

LEMMA LockKeeps ==
  ASSUME TypeOK, NEW r \in Resource, NEW locked \in BOOLEAN, NEW action,
         ~AlreadyLocked(r, locked), SetLock(r, locked, action)
  PROVE  Keeps
<1>1. UNCHANGED leases /\ resources' = SetResourceLocked(resources, r, locked)
  BY DEF SetLock
<1>2. /\ DOMAIN resources' = DOMAIN resources \cup {r}
      /\ \A q \in DOMAIN resources : q # r => resources'[q] = resources[q]
      /\ resources'[r].fencing_token = GetResource(resources, r).fencing_token
      /\ resources'[r].current_lease_id = GetResource(resources, r).current_lease_id
  BY <1>1, RowType DEF SetResourceLocked, PutResource, ResourceRow
<1>3. /\ r \in DOMAIN resources => GetResource(resources, r) = resources[r]
      /\ r \notin DOMAIN resources =>
           /\ GetResource(resources, r).fencing_token = 0
           /\ GetResource(resources, r).current_lease_id = NoLease
  BY DEF GetResource
<1>4. \A q \in Resource \ {r} : GetResource(resources', q) = GetResource(resources, q)
  BY <1>2 DEF GetResource
<1> QED
  BY <1>1, <1>2, <1>3, <1>4 DEF Keeps

LEMMA RetireEnds ==
  ASSUME LeaseInv, NEW id \in DOMAIN leases, ~IsTerminal(leases[id].status),
         NEW action, Retire(id, action)
  PROVE  Ends({id}, "released")
<1> DEFINE r == leases[id].resource
<1>1. r \in DOMAIN resources /\ r \in Resource /\ leases[id].status = "active"
  BY DEF LeaseInv, LeaseHasRow, TypeOK, LeaseRow, Status, IsTerminal
<1>2. GetResource(resources, r) = resources[r] /\ resources[r] \in ResourceRow
  BY <1>1 DEF GetResource, LeaseInv, TypeOK
<1>3. /\ DOMAIN resources' = DOMAIN resources
      /\ resources'[r].fencing_token = resources[r].fencing_token + 1
      /\ resources'[r].current_lease_id = NoLease
      /\ resources'[r].locked = resources[r].locked
      /\ \A q \in DOMAIN resources : q # r => resources'[q] = resources[q]
  BY <1>1, <1>2 DEF Retire, FreeResource, UpsertResourceFencing, PutResource,
                    NextToken, ResourceRow
<1>4. resources'[r].fencing_token > resources[r].fencing_token
  BY <1>2, <1>3 DEF ResourceRow
<1>5. leases' = SetLeaseStatus(leases, {id}, "active", "released")
  BY DEF Retire
<1> QED
  BY <1>1, <1>3, <1>4, <1>5 DEF Ends

\* A sweep raises the counter of each resource it touches because the set of
\* leases it ends there is not empty.
LEMMA SweepEnds ==
  ASSUME LeaseInv, NEW expired \in SUBSET (DOMAIN leases),
         \A id \in expired : leases[id].status = "active",
         SweepCommit(expired)
  PROVE  Ends(expired, "expired")
<1> DEFINE on(r) == {id \in expired : leases[id].resource = r}
           touched == {leases[id].resource : id \in expired}
<1>1. touched \subseteq DOMAIN resources
  BY DEF LeaseInv, LeaseHasRow
<1>2. DOMAIN resources' = DOMAIN resources
  BY <1>1 DEF SweepCommit
<1>3. ASSUME NEW r \in DOMAIN resources, on(r) = {}
      PROVE  resources'[r] = resources[r]
  BY <1>1, <1>3 DEF SweepCommit
<1>4. ASSUME NEW r \in DOMAIN resources, on(r) # {}
      PROVE  /\ resources'[r].fencing_token > resources[r].fencing_token
             /\ resources'[r].current_lease_id = NoLease
             /\ resources'[r].locked = resources[r].locked
  <2>1. resources'[r] = [GetResource(resources, r) EXCEPT
                           !.fencing_token = @ + Cardinality(on(r)),
                           !.current_lease_id = NoLease]
    BY <1>4 DEF SweepCommit
  <2>2. GetResource(resources, r) = resources[r] /\ resources[r] \in ResourceRow
    BY DEF GetResource, LeaseInv, TypeOK
  <2>3. Cardinality(on(r)) \in Nat /\ Cardinality(on(r)) # 0
    <3>1. IsFiniteSet(on(r))
      BY FS_Subset DEF LeaseInv, TypeOK
    <3> QED
      BY <1>4, <3>1, FS_CardinalityType, FS_EmptySet
  <2> HIDE DEF on
  <2>4. /\ resources'[r].fencing_token
             = resources[r].fencing_token + Cardinality(on(r))
        /\ resources'[r].current_lease_id = NoLease
        /\ resources'[r].locked = resources[r].locked
    BY <2>1, <2>2 DEF ResourceRow
  <2> QED
    BY <2>2, <2>3, <2>4 DEF ResourceRow
<1>5. leases' = SetLeaseStatus(leases, expired, "active", "expired")
  BY DEF SweepCommit
<1>6. \A r \in DOMAIN resources : on(r) # {} <=> \E id \in expired : leases[id].resource = r
  OBVIOUS
<1> HIDE DEF on
<1> QED
  BY <1>2, <1>3, <1>4, <1>5, <1>6 DEF Ends

LEMMA TransferGrants ==
  ASSUME LeaseInv, NEW id \in LeaseId, NEW token, NEW newHolder \in Holder,
         NEW newID \in LeaseId, Transfer(id, token, newHolder, newID)
  PROVE  \E r \in Resource, row \in LeaseRow : Grants(r, newID, row, "released")
<1> DEFINE old == leases[id]
           fresh == [old EXCEPT !.holder = newHolder,
                                !.fencing_token = NextToken(old.resource),
                                !.last_heartbeat = now]
<1>1. /\ id \in DOMAIN leases /\ old \in LeaseRow /\ old.resource \in Resource
      /\ old.status = "active"
  BY DEF Transfer, Usable, Presented, LeaseInv, TypeOK, LeaseRow, Status, IsTerminal
<1>2. NextToken(old.resource) \in Nat /\ now \in Int64 /\ newHolder \in Holder
  BY <1>1, RowType, TimeType DEF LeaseInv, TypeOK
<1>3. /\ fresh \in LeaseRow
      /\ fresh.resource = old.resource
      /\ fresh.fencing_token = NextToken(old.resource)
      /\ fresh.status = "active"
  BY <1>1, <1>2 DEF LeaseRow
<1>4. ActiveLeases(old.resource) = {id}
  <2>1. id \in ActiveLeases(old.resource)
    BY <1>1 DEF ActiveLeases
  <2> QED
    BY <1>1, <2>1, ActiveIsCurrent DEF CurrentLease
<1>5. /\ newID \notin DOMAIN leases
      /\ leases' = InsertLease(
           SetLeaseStatus(leases, {id}, "active", "released"), newID, fresh)
      /\ resources' = UpsertResourceFencing(
           resources, old.resource, NextToken(old.resource), newID)
  BY DEF Transfer
<1> HIDE DEF old, fresh
<1>6. Grants(old.resource, newID, fresh, "released")
  BY <1>3, <1>4, <1>5 DEF Grants
<1> QED
  BY <1>1, <1>3, <1>6

LEMMA AcquireGrants ==
  ASSUME LeaseInv, NEW r \in Resource, NEW h \in Holder, NEW ttl \in TTL,
         NEW id \in LeaseId, Acquire(r, h, ttl, id)
  PROVE  \E row \in LeaseRow : Grants(r, id, row, "expired")
<1> DEFINE lease == [resource |-> r, holder |-> h, fencing_token |-> NextToken(r),
                     acquired_at |-> now, ttl_seconds |-> ttl,
                     expires_at |-> Add64(now, ttl), last_heartbeat |-> now,
                     status |-> "active"]
<1>1. lease \in LeaseRow
  <2>1. Add64(now, ttl) \in Int64 /\ ttl \in Int64 /\ now \in Int64
    BY DeadlineType, TimeType DEF Acquire, LeaseInv, TypeOK
  <2> QED
    BY <2>1, RowType DEF LeaseRow, Status, LeaseInv
<1>2. \A existing \in GetActiveLeaseByResource(r) : existing = ActiveLeases(r)
  BY ActiveIsCurrent DEF CurrentLease, GetActiveLeaseByResource
<1>3. leases' = InsertLease(
        SetLeaseStatus(leases, ActiveLeases(r), "active", "expired"), id, lease)
  BY <1>2 DEF Acquire
<1>4. /\ id \notin DOMAIN leases
      /\ ~GetResource(resources, r).locked
      /\ resources' = UpsertResourceFencing(resources, r, NextToken(r), id)
  BY DEF Acquire
<1>5. /\ lease.resource = r
      /\ lease.fencing_token = NextToken(r)
      /\ lease.status = "active"
  OBVIOUS
<1> HIDE DEF lease
<1>6. Grants(r, id, lease, "expired")
  BY <1>3, <1>4, <1>5 DEF Grants
<1> QED
  BY <1>1, <1>6

\* The shapes together.
Shape ==
  \/ Keeps
  \/ \E gone \in SUBSET (DOMAIN leases), status \in Terminal : Ends(gone, status)
  \/ \E r \in Resource, id \in LeaseId, row \in LeaseRow, status \in Terminal :
       Grants(r, id, row, status)

LEMMA AnyStepShape ==
  ASSUME LeaseInv, AnyNext
  PROVE  Shape \/ UNCHANGED <<resources, leases>>
<1> USE DEF Shape
<1>1. "released" \in Terminal /\ "expired" \in Terminal
  BY DEF Terminal
<1>2. CASE AcquireRequest
  BY <1>1, <1>2, AcquireGrants DEF AcquireRequest
<1>3. CASE AnyRequest
  <2>0. PICK id \in LeaseId : \E token : RequestOf(id, token)
    BY <1>3 DEF AnyRequest
  <2>1. PICK token : RequestOf(id, token)
    BY <2>0
  <2>2. ASSUME NEW ttl \in TTL, Renew(id, token, ttl) \/ UpdateTTL(id, token, ttl)
        PROVE  Keeps
    BY <2>2, ExtendKeeps DEF Renew, UpdateTTL, LeaseInv
  <2>3. CASE Heartbeat(id, token)
    <3>1. Usable(id, token)
      BY <2>3 DEF Heartbeat
    <3> QED
      BY <2>3, <3>1, ExtendKeeps DEF LeaseInv
  <2>4. CASE Release(id, token)
    <3>1. UNCHANGED vars \/ (~IsTerminal(leases[id].status) /\ Retire(id, "release"))
      BY <2>4 DEF Release
    <3>2. id \in DOMAIN leases
      BY <2>4 DEF Release, Presented
    <3> QED
      BY <1>1, <3>1, <3>2, RetireEnds DEF vars, tables
  <2>5. ASSUME NEW h \in Holder, NEW newID \in LeaseId, Transfer(id, token, h, newID)
        PROVE  \E r \in Resource, row \in LeaseRow : Grants(r, newID, row, "released")
    BY <2>5, TransferGrants
  <2> QED
    BY <1>1, <2>1, <2>2, <2>3, <2>4, <2>5 DEF RequestOf
<1>4. CASE AdminRequest
  <2>1. ASSUME NEW id \in LeaseId, ForceRelease(id)
        PROVE  UNCHANGED <<resources, leases>> \/ Ends({id}, "released")
    BY <2>1, RetireEnds DEF ForceRelease, vars, tables
  <2>2. ASSUME NEW r \in Resource, LockResource(r) \/ UnlockResource(r)
        PROVE  UNCHANGED <<resources, leases>> \/ Keeps
    <3>1. PICK locked \in BOOLEAN, action \in {"lock", "unlock"} :
            SetLock(r, locked, action)
      BY <2>2 DEF LockResource, UnlockResource
    <3>2. UNCHANGED vars \/ ~AlreadyLocked(r, locked)
      BY <3>1 DEF SetLock
    <3> QED
      BY <3>1, <3>2, LockKeeps DEF LeaseInv, vars, tables
  <2>3. ASSUME NEW id \in LeaseId, ForceRelease(id)
        PROVE  {id} \in SUBSET (DOMAIN leases)
    BY <2>3 DEF ForceRelease
  <2> QED
    BY <1>1, <1>4, <2>1, <2>2, <2>3 DEF AdminRequest
<1>5. CASE Sweep \/ Recover
  <2> DEFINE expired == ListExpiredActive(now)
  <2>1. /\ expired \in SUBSET (DOMAIN leases)
        /\ \A id \in expired : leases[id].status = "active"
    BY DEF ListExpiredActive
  <2>2. SweepCommit(expired)
    BY <1>5 DEF Sweep, Recover
  <2>3. Ends(expired, "expired")
    BY <2>1, <2>2, SweepEnds
  <2> QED
    BY <1>1, <2>1, <2>3
<1>6. CASE AuditRecover
  BY <1>6 DEF AuditRecover
<1>7. CASE Restart \/ ClockForward \/ ClockBack
  BY <1>7 DEF Restart, ClockForward, ClockBack, tables
<1> QED
  BY <1>2, <1>3, <1>4, <1>5, <1>6, <1>7 DEF AnyNext

LEMMA StepShape ==
  ASSUME LeaseInv, Next
  PROVE  Shape \/ UNCHANGED <<resources, leases>>
BY AnyStepShape, RequestIsAny DEF Next, AnyNext

-----------------------------------------------------------------------------
(* The safety theorems *)

LEMMA AnyStepInv == LeaseInv /\ [AnyNext]_vars => LeaseInv'
<1> SUFFICES ASSUME LeaseInv, [AnyNext]_vars PROVE LeaseInv'
  OBVIOUS
<1>1. TypeOK'
  BY AnyStepType DEF LeaseInv
<1>2. CASE UNCHANGED <<resources, leases>>
  BY <1>1, <1>2 DEF LeaseInv, LeaseHasRow, RowNamesLease
<1>3. CASE Shape
  BY <1>1, <1>3, KeptInv, EndInv, GrantInv DEF Shape
<1>4. CASE UNCHANGED vars
  BY <1>2, <1>4 DEF vars, tables
<1> QED
  BY <1>2, <1>3, <1>4, AnyStepShape

LEMMA StepInv == LeaseInv /\ [Next]_vars => LeaseInv'
BY AnyStepInv, NextIsAny

\* The three tables are in step with each other at every commit.
THEOREM LeaseInvariant == Spec => []LeaseInv
BY InitInv, StepInv, PTL DEF Spec

\* current_lease_id names the one active lease of its resource: two clients
\* never hold a resource at the same time.
THEOREM OneHolder == Spec => []CurrentLease
BY LeaseInvariant, ActiveIsCurrent, PTL

\* The counter of a resource has gone past the token of every retired lease.
THEOREM RetiredTokensPassed == Spec => []TokenLedger
BY LeaseInvariant, InvLedger, PTL

\* A late call with a token that was once right changes no retired lease.
THEOREM RetiredRowsFrozen == Spec => TerminalRowsFrozen
<1> DEFINE Frozen == \A id \in DOMAIN leases :
             IsTerminal(leases[id].status) =>
               id \in DOMAIN leases' /\ leases'[id] = leases[id]
<1>1. ASSUME LeaseInv, [Next]_vars
      PROVE  [Frozen]_vars
  <2>1. CASE UNCHANGED <<resources, leases>>
    BY <2>1
  <2>2. CASE Keeps
    BY <2>2 DEF Keeps
  <2>3. ASSUME NEW gone, NEW status, NEW id, NEW row,
               \/ leases' = SetLeaseStatus(leases, gone, "active", status)
               \/ /\ id \notin DOMAIN leases
                  /\ leases' = InsertLease(
                       SetLeaseStatus(leases, gone, "active", status), id, row)
        PROVE  Frozen
    BY <2>3 DEF SetLeaseStatus, InsertLease, IsTerminal, Terminal
  <2>4. CASE Shape
    BY <2>2, <2>3, <2>4 DEF Shape, Ends, Grants
  <2> QED
    BY <1>1, <2>1, <2>4, StepShape
<1> QED
  BY <1>1, LeaseInvariant, PTL DEF Spec, TerminalRowsFrozen

\* The counter of a resource never decreases and every change of hands
\* increases it: no token is ever handed out twice.
THEOREM CountersRise == Spec => HandOverRaisesCounter
<1> DEFINE Rises == \A r \in DOMAIN resources :
             /\ r \in DOMAIN resources'
             /\ resources'[r].fencing_token >= resources[r].fencing_token
             /\ resources'[r].current_lease_id # resources[r].current_lease_id
                  => resources'[r].fencing_token > resources[r].fencing_token
<1>1. ASSUME LeaseInv, [Next]_vars
      PROVE  Rises
  <2>1. \A r \in DOMAIN resources : resources[r].fencing_token \in Nat
    BY <1>1 DEF LeaseInv, TypeOK, ResourceRow
  <2>2. CASE UNCHANGED resources
    BY <2>1, <2>2
  <2>3. CASE Keeps
    BY <2>1, <2>3 DEF Keeps
  <2>4. ASSUME NEW gone, NEW status, Ends(gone, status)
        PROVE  Rises
    <3>1. TypeOK'
      BY <1>1, StepType DEF LeaseInv
    <3>2. \A r \in DOMAIN resources : resources'[r].fencing_token \in Nat
      BY <2>4, <3>1 DEF Ends, TypeOK, ResourceRow
    <3> QED
      BY <2>1, <2>4, <3>2 DEF Ends
  <2>5. ASSUME NEW r \in Resource, NEW id, NEW row, NEW status,
               Grants(r, id, row, status)
        PROVE  Rises
    <3>1. /\ DOMAIN resources \subseteq DOMAIN resources'
          /\ \A q \in DOMAIN resources : q # r => resources'[q] = resources[q]
          /\ resources'[r].fencing_token = NextToken(r)
      BY <1>1, <2>5, RowType DEF Grants, UpsertResourceFencing, PutResource,
                                 LeaseInv, ResourceRow
    <3>2. r \in DOMAIN resources => NextToken(r) = resources[r].fencing_token + 1
      BY DEF NextToken, GetResource
    <3> QED
      BY <2>1, <3>1, <3>2
  <2> QED
    BY <1>1, <2>2, <2>3, <2>4, <2>5, StepShape DEF Shape, vars, tables
<1> QED
  BY <1>1, LeaseInvariant, PTL DEF Spec, HandOverRaisesCounter

-----------------------------------------------------------------------------
(* LeaseManager implements FencedLease: under LeaseInv every step is, read   *)
(* through the refinement mapping of LeaseProperties, a step of the abstract *)
(* specification or none                                                     *)

Locked(r) == GetResource(resources, r).locked

\* The mapping in terms of the resource row alone.
RowView ==
  \A r \in Resource :
    /\ Held(r) = IF Current(r) = NoLease THEN 0 ELSE Counter(r)
    /\ Counter(r) \in Nat
    /\ Locked(r) \in BOOLEAN
    /\ Current(r) # NoLease => Counter(r) > 0

LEMMA HeldIsCounter == LeaseInv => RowView
<1> SUFFICES ASSUME LeaseInv, NEW r \in Resource
             PROVE  /\ Held(r) = IF Current(r) = NoLease THEN 0 ELSE Counter(r)
                    /\ Counter(r) \in Nat
                    /\ Locked(r) \in BOOLEAN
                    /\ Current(r) # NoLease => Counter(r) > 0
  BY DEF RowView
<1>1. Counter(r) \in Nat /\ Locked(r) \in BOOLEAN
  BY RowType DEF LeaseInv, Counter, Locked, ResourceRow
<1>2. ActiveLeases(r) = {Current(r)} \ {NoLease}
  BY ActiveIsCurrent DEF CurrentLease
<1>3. CASE Current(r) = NoLease
  BY <1>1, <1>2, <1>3 DEF Held
<1>4. CASE Current(r) # NoLease
  <2> DEFINE id == Current(r)
  <2>1. ActiveLeases(r) = {id}
    BY <1>2, <1>4
  <2>2. (CHOOSE x \in ActiveLeases(r) : TRUE) = id
    BY <2>1
  <2>3. Held(r) = leases[id].fencing_token
    BY <2>1, <2>2 DEF Held
  <2>4. /\ id \in DOMAIN leases
        /\ leases[id].resource = r
        /\ leases[id].status = "active"
    BY <2>1 DEF ActiveLeases
  <2>5. /\ r \in DOMAIN resources
        /\ leases[id].fencing_token = resources[r].fencing_token
        /\ leases[id].fencing_token > 0
    BY <2>4 DEF LeaseInv, LeaseHasRow
  <2>6. Counter(r) = resources[r].fencing_token
    BY <2>5 DEF Counter, GetResource
  <2> QED
    BY <1>1, <1>4, <2>3, <2>5, <2>6
<1> QED
  BY <1>3, <1>4

LEMMA HeldIsCounterNext == LeaseInv' => RowView'
BY HeldIsCounter, PTL

\* The shapes of a step, seen on the resource rows.
LEMMA KeepsView ==
  ASSUME LeaseInv, Keeps, NEW r \in Resource
  PROVE  Counter(r)' = Counter(r) /\ Current(r)' = Current(r)
BY DEF Keeps, Counter, Current, GetResource

LEMMA EndsView ==
  ASSUME LeaseInv, NEW gone \in SUBSET (DOMAIN leases), NEW status \in Terminal,
         Ends(gone, status), NEW r \in Resource
  PROVE  /\ Locked(r)' = Locked(r)
         /\ IF \E id \in gone : leases[id].resource = r
            THEN /\ Current(r) # NoLease
                 /\ Current(r)' = NoLease
                 /\ Counter(r)' > Counter(r)
            ELSE Counter(r)' = Counter(r) /\ Current(r)' = Current(r)
<1>1. CASE r \notin DOMAIN resources
  <2>1. ~ \E id \in gone : leases[id].resource = r
    BY <1>1 DEF LeaseInv, LeaseHasRow
  <2> QED
    BY <1>1, <2>1 DEF Ends, Locked, Counter, Current, GetResource
<1>2. CASE r \in DOMAIN resources
  <2>1. ASSUME NEW id \in gone, leases[id].resource = r
        PROVE  resources[r].current_lease_id = id /\ id # NoLease
    BY <2>1 DEF Ends, LeaseInv, LeaseHasRow, TypeOK
  <2> QED
    BY <1>2, <2>1 DEF Ends, Locked, Counter, Current, GetResource
<1> QED
  BY <1>1, <1>2

LEMMA GrantsView ==
  ASSUME LeaseInv, NEW r \in Resource, NEW id \in LeaseId, NEW row, NEW status,
         Grants(r, id, row, status), NEW q \in Resource
  PROVE  /\ Locked(q)' = Locked(q)
         /\ IF q = r
            THEN /\ Current(q)' # NoLease
                 /\ Counter(q)' > Counter(q)
                 /\ ~Locked(q) \/ Current(q) # NoLease
            ELSE Counter(q)' = Counter(q) /\ Current(q)' = Current(q)
<1>1. GetResource(resources, r) \in ResourceRow
  BY RowType DEF LeaseInv
<1>2. /\ DOMAIN resources' = DOMAIN resources \cup {r}
      /\ \A x \in DOMAIN resources : x # r => resources'[x] = resources[x]
      /\ resources'[r].fencing_token = Counter(r) + 1
      /\ resources'[r].current_lease_id = id
      /\ resources'[r].locked = Locked(r)
  BY <1>1 DEF Grants, UpsertResourceFencing, PutResource, NextToken,
              ResourceRow, Counter, Locked
<1>3. Counter(r) \in Nat
  BY <1>1 DEF Counter, ResourceRow
<1>4. CASE q = r
  <2>1. Counter(q)' = Counter(q) + 1 /\ Current(q)' = id /\ Locked(q)' = Locked(q)
    BY <1>2, <1>4 DEF Counter, Current, Locked, GetResource
  <2>2. ~Locked(q) \/ Current(q) # NoLease
    BY <1>4, ActiveIsCurrent DEF Grants, Locked, CurrentLease
  <2> QED
    BY <1>3, <1>4, <2>1, <2>2
<1>5. CASE q # r
  BY <1>2, <1>5 DEF Counter, Current, Locked, GetResource
<1> QED
  BY <1>4, <1>5

-----------------------------------------------------------------------------

LEMMA InitRefines == Init => Fenced!Init
<1> SUFFICES ASSUME Init PROVE Fenced!Init
  OBVIOUS
<1>1. DOMAIN resources = {} /\ DOMAIN leases = {}
  BY DEF Init, EmptyStore
<1>2. \A r \in Resource : Held(r) = 0 /\ Counter(r) = 0 /\ Locked(r) = FALSE
  BY <1>1 DEF Held, ActiveLeases, Counter, Locked, GetResource
<1> QED
  BY <1>2 DEF Fenced!Init, Locked

LEMMA StepRefines == LeaseInv /\ LeaseInv' /\ [Next]_vars => [Fenced!Next]_(Fenced!fvars)
<1> SUFFICES ASSUME LeaseInv, LeaseInv', [Next]_vars
             PROVE  [Fenced!Next]_(Fenced!fvars)
  OBVIOUS
<1> USE DEF RowView
<1>1. RowView /\ RowView'
  BY HeldIsCounter, HeldIsCounterNext
<1>2. CASE UNCHANGED <<resources, leases>>
  <2>1. \A r \in Resource : /\ Held(r)' = Held(r)
                            /\ Counter(r)' = Counter(r)
                            /\ Locked(r)' = Locked(r)
    BY <1>2 DEF Held, ActiveLeases, Counter, Locked, GetResource
  <2> QED
    BY <2>1 DEF Fenced!fvars, Locked
<1>3. CASE Keeps
  <2>1. \A r \in Resource : Held(r)' = Held(r) /\ Counter(r)' = Counter(r)
    BY <1>1, <1>3, KeepsView
  <2>2. PICK r \in Resource : \A q \in Resource \ {r} : Locked(q)' = Locked(q)
    BY <1>3 DEF Keeps, Locked
  <2>3. CASE Locked(r)' = Locked(r)
    <3>1. \A q \in Resource : Locked(q)' = Locked(q)
      BY <2>2, <2>3
    <3> QED
      BY <2>1, <3>1 DEF Fenced!fvars, Locked
  <2>4. CASE Locked(r)' # Locked(r)
    <3>1. Locked(r)' = ~Locked(r)
      BY <1>1, <2>4
    <3>2. Fenced!Gate(r)
      BY <2>1, <2>2, <3>1 DEF Fenced!Gate, Locked
    <3> QED
      BY <3>2 DEF Fenced!Next
  <2> QED
    BY <2>3, <2>4
<1>4. ASSUME NEW gone \in SUBSET (DOMAIN leases), NEW status \in Terminal,
             Ends(gone, status)
      PROVE  Fenced!Next
  <2> DEFINE S == {r \in Resource : \E id \in gone : leases[id].resource = r}
  <2>1. \A r \in Resource : Locked(r)' = Locked(r)
    BY <1>4, EndsView
  <2>2. \A r \in S : Held(r) # 0 /\ Held(r)' = 0 /\ Counter(r)' > Counter(r)
    BY <1>1, <1>4, EndsView
  <2>3. \A r \in Resource \ S : Held(r)' = Held(r) /\ Counter(r)' = Counter(r)
    BY <1>1, <1>4, EndsView
  <2>4. S \in SUBSET Resource
    OBVIOUS
  <2> HIDE DEF S
  <2>5. Fenced!Raise(S)
    BY <1>1, <2>2, <2>3, <2>4 DEF Fenced!Raise
  <2>6. Fenced!Free(S)
    BY <2>1, <2>2, <2>3, <2>4, <2>5 DEF Fenced!Free, Locked
  <2> QED
    BY <2>4, <2>6 DEF Fenced!Next
<1>5. ASSUME NEW r \in Resource, NEW id \in LeaseId, NEW row, NEW status,
             Grants(r, id, row, status)
      PROVE  Fenced!Next
  <2>1. \A q \in Resource : Locked(q)' = Locked(q)
    BY <1>5, GrantsView
  <2>2. \A q \in Resource \ {r} : Held(q)' = Held(q) /\ Counter(q)' = Counter(q)
    BY <1>1, <1>5, GrantsView
  <2>3. /\ Held(r)' = Counter(r)'
        /\ Counter(r)' > Counter(r)
        /\ ~Locked(r) \/ Held(r) # 0
    <3>1. /\ Current(r)' # NoLease
          /\ Counter(r)' > Counter(r)
          /\ ~Locked(r) \/ Current(r) # NoLease
      BY <1>5, GrantsView
    <3> QED
      BY <1>1, <3>1
  <2>4. Fenced!Raise({r})
    BY <1>1, <2>2, <2>3 DEF Fenced!Raise
  <2>5. Fenced!HoldUnderNewToken(r)
    BY <2>1, <2>2, <2>3, <2>4 DEF Fenced!HoldUnderNewToken, Locked
  <2> QED
    BY <2>3, <2>5 DEF Fenced!Next, Fenced!Grant, Fenced!HandOver, Locked
<1>6. CASE UNCHANGED vars
  BY <1>2, <1>6 DEF vars, tables
<1> QED
  BY <1>2, <1>3, <1>4, <1>5, <1>6, StepShape DEF Shape

\* Whatever the clients, the clock and the restarts do, the service is a
\* fenced lease: each new hold of a resource is under a larger token.
THEOREM Refines == Spec => FencedSpec
<1>1. LeaseInv /\ LeaseInv' /\ [Next]_vars => [Fenced!Next]_(Fenced!fvars)
  BY StepRefines
<1> QED
  BY <1>1, InitRefines, LeaseInvariant, PTL DEF Spec, FencedSpec, Fenced!Spec

=============================================================================
