---------------------------- MODULE ClientsProofs ----------------------------
(***************************************************************************)
(* Theorems about clients that see only the answers of the service, for    *)
(* any number of them, of faults and of leases: 410 Gone is final, and     *)
(* what a holder relies on is so.                                          *)
(***************************************************************************)
EXTENDS LeaseClients, LeaseHistoryProofs

USE StoreAssumption, ManagerAssumption, ClientsAssumption

-----------------------------------------------------------------------------
(* What the clients know *)

RequestRow ==
  [op : Operation, by : Holder, resource : Resource \cup {NoResource},
   id : LeaseId \cup {NoLease}, token : Nat, ttl : Int64, to : Holder]

Claim == [id : LeaseId, token : Nat, until : Int]

\* A request that a client can send: it names a lease that is or was its own.
Fits(q) ==
  /\ q \in RequestRow
  /\ q.op = "acquire" => q.resource \in Resource
  /\ q.op \in {"acquire", "renew", "ttl_update"} => q.ttl \in TTL
  /\ q.op # "acquire" => q.id \in DOMAIN leases /\ leases[q.id].holder = q.by

\* The claim k is about a lease that c was granted.
Known(c, k) ==
  /\ k \in Claim
  /\ k.id \in DOMAIN leases
  /\ leases[k.id].holder = c
  /\ leases[k.id].fencing_token = k.token

Succeeded(open) == open.answer.outcome = "ok"

\* The client that an answer makes rely on a lease.
ToldTo(q) == IF q.op = "transfer" THEN q.to ELSE q.by

Tells == {"acquire", "renew", "ttl_update", "transfer"}

OpenCall(c, open) ==
  /\ open = [request |-> open.request, answer |-> open.answer]
  /\ open.request.by = c
  /\ Fits(open.request)
  /\ Succeeded(open) /\ open.request.op \in Tells =>
       Known(ToldTo(open.request), Lease(open.answer))

\* No method uses the lease again.
Unusable(id) ==
  /\ id \in DOMAIN leases
  /\ IsTerminal(leases[id].status) \/ now > leases[id].expires_at

KnownInv ==
  /\ DOMAIN call = Holder /\ DOMAIN belief = Holder
  /\ \A c \in Holder : \A open \in call[c] : OpenCall(c, open)
  /\ \A q \in orphans : Fits(q)
  /\ \A c \in Holder : \A b \in belief[c] : Known(c, b)
  /\ \A id \in refused : Unusable(id)

-----------------------------------------------------------------------------
(* What a step does to a lease *)

SameLease(id) ==
  /\ id \in DOMAIN leases'
  /\ leases'[id].holder = leases[id].holder
  /\ leases'[id].fencing_token = leases[id].fencing_token

SameTerm(id) ==
  /\ leases'[id].status = leases[id].status
  /\ leases'[id].expires_at = leases[id].expires_at

Ended(id) == IsTerminal(leases'[id].status)

LEMMA EndFate ==
  ASSUME TypeOK, NEW ids, NEW status \in Terminal,
         \/ leases' = SetLeaseStatus(leases, ids, "active", status)
         \/ \E new, row :
              /\ new \notin DOMAIN leases
              /\ leases' = InsertLease(
                   SetLeaseStatus(leases, ids, "active", status), new, row),
         NEW id \in DOMAIN leases
  PROVE  /\ SameLease(id)
         /\ SameTerm(id) \/ (id \in ids /\ Ended(id))
<1> DEFINE tbl == SetLeaseStatus(leases, ids, "active", status)
<1>1. /\ id \in DOMAIN tbl
      /\ tbl[id].holder = leases[id].holder
      /\ tbl[id].fencing_token = leases[id].fencing_token
      /\ tbl[id].expires_at = leases[id].expires_at
      /\ \/ tbl[id].status = leases[id].status
         \/ id \in ids /\ tbl[id].status = status
  BY DEF SetLeaseStatus, TypeOK, LeaseRow
<1>2. id \in DOMAIN leases' /\ leases'[id] = tbl[id]
  <2> HIDE DEF tbl
  <2>1. leases' = tbl \/ \E new, row : /\ new \notin DOMAIN leases
                                       /\ leases' = InsertLease(tbl, new, row)
    BY DEF tbl
  <2> QED
    BY <1>1, <2>1 DEF InsertLease
<1> HIDE DEF tbl
<1> QED
  BY <1>1, <1>2 DEF SameLease, SameTerm, Ended, IsTerminal

LEMMA WriteFate ==
  ASSUME TypeOK, NEW x, NEW token, NEW ttl, NEW action,
         Extend(x, ttl, action) \/ Heartbeat(x, token),
         NEW id \in DOMAIN leases
  PROVE  /\ SameLease(id)
         /\ id # x \/ Heartbeat(x, token) => SameTerm(id)
<1>1. CASE Extend(x, ttl, action) /\ ~Heartbeat(x, token)
  <2>1. leases' = UpdateLeaseExpiry(leases, x, ttl, Add64(now, ttl), now)
    BY <1>1 DEF Extend
  <2> QED
    BY <1>1, <2>1 DEF UpdateLeaseExpiry, TypeOK, LeaseRow, SameLease, SameTerm
<1>2. CASE Heartbeat(x, token)
  BY <1>2 DEF Heartbeat, UpdateLeaseHeartbeat, TypeOK, LeaseRow, SameLease, SameTerm
<1> QED
  BY <1>1, <1>2

LEMMA ExtendFate ==
  ASSUME TypeOK, NEW x, NEW token, NEW ttl, NEW action,
         Usable(x, token), Extend(x, ttl, action)
  PROVE  /\ leases'[x].status = "active"
         /\ leases'[x].expires_at = Add64(now, ttl)
<1>1. x \in DOMAIN leases /\ leases[x].status = "active"
  BY DEF Usable, Presented, IsTerminal, TypeOK, LeaseRow, Status
<1>2. leases' = UpdateLeaseExpiry(leases, x, ttl, Add64(now, ttl), now)
  BY DEF Extend
<1> QED
  BY <1>1, <1>2 DEF UpdateLeaseExpiry, TypeOK, LeaseRow

\* The lease is left alone, or it was due and has been retired.
Spared(id) == SameTerm(id) \/ (leases[id].expires_at <= now /\ Ended(id))

Extends == {"renew", "ttl_update"}

HandsBack == {"release", "transfer"}

HandedBack(q, id) == q.op \in HandsBack /\ q.id = id /\ Ended(id)

Extended(q, id) ==
  /\ q.op \in Extends
  /\ q.id = id
  /\ Usable(id, q.token)
  /\ ValidTTL(q.ttl)
  /\ leases'[id].status = "active"
  /\ leases'[id].expires_at = Add64(now, q.ttl)

LEMMA ServedFate ==
  ASSUME LeaseInv, NEW q, Fits(q), Served(q), NEW id \in DOMAIN leases
  PROVE  /\ UNCHANGED now
         /\ SameLease(id)
         /\ Spared(id) \/ HandedBack(q, id) \/ Extended(q, id)
<1>1. TypeOK /\ "released" \in Terminal /\ "expired" \in Terminal
  BY DEF LeaseInv, Terminal
<1>2. CASE UNCHANGED vars
  BY <1>2 DEF vars, tables, SameLease, Spared, SameTerm
<1>3. CASE q.op = "acquire" /\ \E new \in LeaseId : Acquire(q.resource, q.by, q.ttl, new)
  <2>1. PICK new \in LeaseId : Acquire(q.resource, q.by, q.ttl, new)
    BY <1>3
  <2>2. PICK existing \in GetActiveLeaseByResource(q.resource) :
          /\ \A old \in existing : Evictable(leases[old])
          /\ \E row : leases' = InsertLease(
               SetLeaseStatus(leases, existing, "active", "expired"), new, row)
    BY <2>1 DEF Acquire
  <2>3. new \notin DOMAIN leases /\ UNCHANGED now
    BY <2>1 DEF Acquire
  <2>4. SameLease(id) /\ (SameTerm(id) \/ (id \in existing /\ Ended(id)))
    BY <1>1, <2>2, <2>3, EndFate
  <2> QED
    BY <2>2, <2>3, <2>4 DEF Spared, Evictable
<1>4. CASE \/ q.op = "renew" /\ Renew(q.id, q.token, q.ttl)
           \/ q.op = "ttl_update" /\ UpdateTTL(q.id, q.token, q.ttl)
  <2>1. PICK action : Extend(q.id, q.ttl, action)
    BY <1>4 DEF Renew, UpdateTTL
  <2>2. q.op \in Extends /\ Usable(q.id, q.token) /\ ValidTTL(q.ttl) /\ UNCHANGED now
    BY <1>4 DEF Renew, UpdateTTL, Extends, Extend
  <2>3. SameLease(id) /\ (id # q.id => SameTerm(id))
    BY <1>1, <2>1, WriteFate
  <2>4. leases'[q.id].status = "active" /\ leases'[q.id].expires_at = Add64(now, q.ttl)
    BY <1>1, <2>1, <2>2, ExtendFate
  <2> QED
    BY <2>2, <2>3, <2>4 DEF Spared, Extended
<1>5. CASE q.op = "heartbeat" /\ Heartbeat(q.id, q.token)
  BY <1>1, <1>5, WriteFate DEF Spared, Heartbeat
<1>6. CASE q.op = "release" /\ Release(q.id, q.token)
  <2>1. CASE Retire(q.id, "release")
    <3>1. SameLease(id) /\ (SameTerm(id) \/ (id \in {q.id} /\ Ended(id)))
      BY <1>1, <2>1, EndFate DEF Retire
    <3> QED
      BY <1>6, <2>1, <3>1 DEF Retire, Spared, HandedBack, HandsBack
  <2> QED
    BY <1>2, <1>6, <2>1 DEF Release
<1>7. CASE q.op = "transfer" /\ \E new \in LeaseId : Transfer(q.id, q.token, q.to, new)
  <2>1. PICK new \in LeaseId : Transfer(q.id, q.token, q.to, new)
    BY <1>7
  <2>2. /\ new \notin DOMAIN leases
        /\ \E row : leases' = InsertLease(
             SetLeaseStatus(leases, {q.id}, "active", "released"), new, row)
        /\ UNCHANGED now
    BY <2>1 DEF Transfer
  <2>3. SameLease(id) /\ (SameTerm(id) \/ (id \in {q.id} /\ Ended(id)))
    BY <1>1, <2>2, EndFate
  <2> QED
    BY <1>7, <2>2, <2>3 DEF Spared, HandedBack, HandsBack
<1> QED
  BY <1>3, <1>4, <1>5, <1>6, <1>7 DEF Served

\* Only an administrator takes a lease that is not due.
LEMMA BackgroundFate ==
  ASSUME LeaseInv, Background, NEW id \in DOMAIN leases
  PROVE  /\ UNCHANGED now
         /\ SameLease(id)
         /\ \/ Spared(id)
            \/ /\ Ended(id)
               /\ \E i \in Fresh : /\ audit'[i].lease_id = id
                                   /\ audit'[i].action = "force_release"
<1>1. TypeOK /\ "released" \in Terminal /\ "expired" \in Terminal
  BY DEF LeaseInv, Terminal
<1>2. CASE UNCHANGED leases /\ UNCHANGED now
  BY <1>2 DEF SameLease, Spared, SameTerm
<1>3. ASSUME NEW x \in DOMAIN leases, Retire(x, "force_release")
      PROVE  /\ UNCHANGED now
             /\ SameLease(id)
             /\ \/ Spared(id)
                \/ /\ Ended(id)
                   /\ \E i \in Fresh : /\ audit'[i].lease_id = id
                                       /\ audit'[i].action = "force_release"
  <2> DEFINE e == LeaseEntry("force_release", x, leases[x], now, "")
  <2>1. SameLease(id) /\ (SameTerm(id) \/ (id \in {x} /\ Ended(id)))
    BY <1>1, <1>3, EndFate DEF Retire
  <2>2. e \in AuditRow /\ e.lease_id = x /\ e.action = "force_release"
    BY <1>1, EntryType DEF TypeOK, AuditAction, Detail, LeaseEntry, Entry
  <2>3. Log(<<e>>) /\ UNCHANGED now
    BY <1>3 DEF Retire
  <2> HIDE DEF e
  <2>4. Fresh = {Len(audit) + 1} /\ audit'[Len(audit) + 1] = e
    BY <2>2, <2>3, OneRow
  <2> QED
    BY <2>1, <2>2, <2>3, <2>4 DEF Spared
<1>4. CASE Sweep \/ Recover
  <2>1. /\ leases' = SetLeaseStatus(leases, ListExpiredActive(now), "active", "expired")
        /\ UNCHANGED now
    BY <1>4 DEF Sweep, Recover, SweepCommit
  <2>2. SameLease(id) /\ (SameTerm(id) \/ (id \in ListExpiredActive(now) /\ Ended(id)))
    BY <1>1, <2>1, EndFate
  <2> QED
    BY <2>1, <2>2 DEF ListExpiredActive, Spared
<1> QED
  BY <1>2, <1>3, <1>4 DEF Background, ClientsAdmin, ForceRelease, LockResource,
                          UnlockResource, SetLock, AuditRecover, vars, tables

LEMMA BackgroundIsAny == Background => AnyNext
BY DEF Background, ClientsAdmin, AnyNext, AdminRequest

-----------------------------------------------------------------------------
(* What a step of the clients is to the server *)

LEMMA ServedIsAny ==
  ASSUME TypeOK, NEW q, Fits(q), Served(q)
  PROVE  AcquireRequest \/ AnyRequest
<1>1. q.by \in Holder /\ q.to \in Holder
  BY DEF Fits, RequestRow
<1>2. CASE q.op = "acquire"
  BY <1>1, <1>2 DEF Served, Fits, AcquireRequest
<1>3. CASE q.op # "acquire"
  <2>1. q.id \in LeaseId
    BY <1>3 DEF Fits, TypeOK
  <2> QED
    BY <1>1, <1>3, <2>1 DEF Served, Fits, AnyRequest, RequestOf
<1> QED
  BY <1>2, <1>3

\* Time goes on, no lease changes hands, and what is unusable stays so.
Moves ==
  /\ now \in Int /\ now' \in Int /\ now <= now'
  /\ \A id \in DOMAIN leases : SameLease(id) /\ (Unusable(id) => Unusable(id)')

LEMMA UnusableKept ==
  ASSUME TypeOK, now \in Int, now' \in Int, now <= now',
         NEW id, Unusable(id), SameLease(id), Spared(id) \/ Ended(id)
  PROVE  Unusable(id)'
<1>1. leases[id].expires_at \in Int
  BY DEF Unusable, TypeOK, LeaseRow, Int64
<1>2. id \in DOMAIN leases'
  BY DEF SameLease
<1>3. CASE Ended(id)
  BY <1>2, <1>3 DEF Ended, Unusable
<1>4. CASE SameTerm(id)
  BY <1>1, <1>2, <1>4 DEF SameTerm, Unusable
<1> QED
  BY <1>3, <1>4 DEF Spared

LEMMA ServedMoves ==
  ASSUME LeaseInv, NEW q, Fits(q), Served(q)
  PROVE  Moves
<1>1. TypeOK /\ now \in Int
  BY TimeType DEF LeaseInv, TypeOK, Int64
<1>2. UNCHANGED now
  BY DEF Served, Acquire, Renew, UpdateTTL, Extend, Heartbeat, Release, Retire, Transfer, vars
<1>3. ASSUME NEW id \in DOMAIN leases
      PROVE  SameLease(id) /\ (Unusable(id) => Unusable(id)')
  <2>1. SameLease(id) /\ (Spared(id) \/ HandedBack(q, id) \/ Extended(q, id))
    BY ServedFate
  <2>2. Extended(q, id) => ~Unusable(id)
    <3>1. leases[id].expires_at \in Int
      BY <1>1 DEF TypeOK, LeaseRow, Int64
    <3> QED
      BY <1>1, <3>1 DEF Extended, Usable, Presented, Unexpired, Unusable
  <2>3. HandedBack(q, id) => Ended(id)
    BY DEF HandedBack
  <2> QED
    BY <1>1, <1>2, <2>1, <2>2, <2>3, UnusableKept
<1> QED
  BY <1>1, <1>2, <1>3 DEF Moves

LEMMA AroundMoves ==
  ASSUME LeaseInv, Background \/ ClockForward \/ Restart \/ UNCHANGED vars
  PROVE  Moves
<1>1. TypeOK /\ now \in Int
  BY TimeType DEF LeaseInv, TypeOK, Int64
<1>2. CASE Background
  <2>1. ASSUME NEW id \in DOMAIN leases
        PROVE  UNCHANGED now /\ SameLease(id) /\ (Spared(id) \/ Ended(id))
    BY <1>2, BackgroundFate
  <2>2. UNCHANGED now
    BY <1>2 DEF Background, ClientsAdmin, ForceRelease, LockResource, UnlockResource,
                SetLock, Retire, Sweep, Recover, SweepCommit, AuditRecover, vars
  <2> QED
    BY <1>1, <2>1, <2>2, UnusableKept DEF Moves
<1>3. CASE ClockForward \/ Restart \/ UNCHANGED vars
  <2>1. UNCHANGED leases /\ now' \in Int /\ now <= now'
    BY <1>1, <1>3 DEF ClockForward, Restart, Time, vars, tables
  <2>2. \A id \in DOMAIN leases : SameLease(id) /\ Spared(id)
    BY <2>1 DEF SameLease, Spared, SameTerm
  <2> QED
    BY <1>1, <2>1, <2>2, UnusableKept DEF Moves
<1> QED
  BY <1>2, <1>3

\* The calls that a step may run belong to somebody.
LEMMA ServerStep ==
  ASSUME ClientsNext
  PROVE  \/ Background \/ ClockForward \/ Restart \/ UNCHANGED vars
         \/ ClockSetBack
         \/ \E c \in Holder : \E open \in call[c] : Served(open.request)
         \/ \E q \in orphans : Served(q)
BY DEF ClientsNext, ClientStep, SendAcquire, SendExtension, SendHeartbeat, SendHandBack,
       Send, LetGo, GiveUp, Execute, ExecuteFails, PollTimesOut, ExecuteOrphan, Receive,
       Serve, CrashAll, ClockAdvances

\* Only a clock that is set back makes a lease usable again.
LEMMA ClientsMove ==
  ASSUME LeaseInv, KnownInv, [ClientsNext]_cvars
  PROVE  [AnyNext]_vars /\ (Moves \/ ClockSetBack)
<1>1. CASE Background \/ ClockForward \/ Restart \/ UNCHANGED vars
  BY <1>1, AroundMoves, BackgroundIsAny DEF AnyNext
<1>2. CASE ClockSetBack
  BY <1>2 DEF ClockSetBack, AnyNext
<1>3. ASSUME NEW q, Fits(q), Served(q)
      PROVE  Moves /\ [AnyNext]_vars
  BY <1>3, ServedMoves, ServedIsAny DEF AnyNext, LeaseInv
<1>4. CASE UNCHANGED cvars
  BY <1>1, <1>4 DEF cvars
<1> QED
  BY <1>1, <1>2, <1>3, <1>4, ServerStep DEF KnownInv, OpenCall

-----------------------------------------------------------------------------
(* What an answer says *)

\* A check whose failure, if it means 410, says that the lease is unusable.
Check(id) ==
  {e \in BOOLEAN \X Err :
     ~e[1] /\ e[2] \in {"ErrTerminal", "ErrLeaseExpired"} => Unusable(id)}

LEMMA FirstOfSix ==
  ASSUME NEW S \in SUBSET (1 .. 6), S # {}
  PROVE  \E i \in S : \A j \in S : i <= j
<1>1. CASE 1 \in S
  BY <1>1
<1>2. CASE 1 \notin S /\ 2 \in S
  BY <1>2
<1>3. CASE 1 \notin S /\ 2 \notin S /\ 3 \in S
  BY <1>3
<1>4. CASE 1 \notin S /\ 2 \notin S /\ 3 \notin S /\ 4 \in S
  BY <1>4
<1>5. CASE 1 \notin S /\ 2 \notin S /\ 3 \notin S /\ 4 \notin S /\ 5 \in S
  BY <1>5
<1>6. CASE 1 \notin S /\ 2 \notin S /\ 3 \notin S /\ 4 \notin S /\ 5 \notin S
  <2>1. \A i \in S : i = 6
    BY <1>6
  <2>2. PICK i \in S : TRUE
    OBVIOUS
  <2>3. \A j \in S : i <= j
    BY <2>1
  <2> QED
    BY <2>3
<1> QED
  BY <1>1, <1>2, <1>3, <1>4, <1>5, <1>6

\* A list of n such checks; no method makes more than six.
Checks(id, n, checks) == checks \in Seq(Check(id)) /\ Len(checks) = n

LEMMA ChecksConcat ==
  ASSUME NEW id, NEW m \in Nat, NEW n \in Nat, NEW s, NEW t,
         Checks(id, m, s), Checks(id, n, t), NEW k, k = m + n
  PROVE  Checks(id, k, s \o t)
<1> DEFINE S == Check(id)
<1>1. s \in Seq(S) /\ t \in Seq(S) /\ Len(s) = m /\ Len(t) = n
  BY DEF Checks
<1> HIDE DEF S
<1>2. s \o t \in Seq(S) /\ Len(s \o t) = m + n
  BY <1>1
<1> QED
  BY <1>2 DEF Checks, S

LEMMA FirstFailureFails ==
  ASSUME NEW id, NEW n \in 0 .. 6, NEW checks, Checks(id, n, checks)
  PROVE  \/ FirstFailure(checks) = "ok"
         \/ \E i \in DOMAIN checks : /\ ~checks[i][1]
                                     /\ FirstFailure(checks) = checks[i][2]
                                     /\ checks[i] \in Check(id)
<1> DEFINE failed == {i \in DOMAIN checks : ~checks[i][1]}
<1>1. failed \in SUBSET (1 .. 6) /\ \A i \in failed : checks[i] \in Check(id)
  BY DEF Checks
<1>2. CASE failed = {}
  BY <1>2 DEF FirstFailure
<1>3. CASE failed # {}
  <2> DEFINE first == CHOOSE i \in failed : \A j \in failed : i <= j
  <2>1. first \in failed
    BY <1>1, <1>3, FirstOfSix
  <2>2. FirstFailure(checks) = checks[first][2]
    BY <1>3 DEF FirstFailure
  <2> QED
    BY <1>1, <2>1, <2>2
<1> QED
  BY <1>2, <1>3

LEMMA GoneOutcome ==
  ASSUME NEW id, NEW n \in 0 .. 6, NEW checks, Checks(id, n, checks),
         HttpStatus[FirstFailure(checks)] = 410
  PROVE  Unusable(id)
<1> DEFINE o == FirstFailure(checks)
<1>1. \/ o = "ok"
      \/ \E i \in DOMAIN checks :
           ~checks[i][1] /\ o = checks[i][2] /\ checks[i] \in Check(id)
  BY FirstFailureFails
<1>2. o = "ok" \/ (o \in Err /\ (o \in {"ErrTerminal", "ErrLeaseExpired"} => Unusable(id)))
  BY <1>1 DEF Check
<1> HIDE DEF o
<1>3. o \in Outcome
  BY <1>2 DEF Outcome
<1>4. HttpStatus[o] = 410
  BY DEF o
<1>5. o \in {"ErrTerminal", "ErrLeaseExpired"}
  BY <1>3, <1>4 DEF HttpStatus, Outcome, Err
<1> QED
  BY <1>2, <1>5

LEMMA CheckType ==
  ASSUME NEW id, NEW passed \in BOOLEAN, NEW error \in Err,
         ~passed /\ error \in {"ErrTerminal", "ErrLeaseExpired"} => Unusable(id)
  PROVE  <<passed, error>> \in Check(id)
BY DEF Check

LEMMA ChecksOf ==
  ASSUME TypeOK, NEW id, NEW token, id \in DOMAIN leases
  PROVE  /\ Checks(id, 2, PresentedChecks(id, token))
         /\ Checks(id, 4, UsableChecks(id, token))
<1> DEFINE S == Check(id)
           a == <<Found(id), "ErrNotFound">>
           b == <<Presented(id, token), "ErrFencingMismatch">>
           c == <<Found(id) => ~IsTerminal(leases[id].status), "ErrTerminal">>
           d == <<Found(id) => Unexpired(leases[id]), "ErrLeaseExpired">>
<1>1. a \in S /\ b \in S
  BY DEF Check, Err, Found, Presented
<1>2. c \in S
  BY DEF Check, Err, Found, IsTerminal, Unusable
<1>3. d \in S
  <2>1. leases[id].expires_at \in Int /\ now \in Int
    BY TimeType DEF TypeOK, LeaseRow, Int64
  <2>2. /\ (Found(id) => Unexpired(leases[id])) \in BOOLEAN
        /\ ~(Found(id) => Unexpired(leases[id])) => now > leases[id].expires_at
    BY <2>1 DEF Unexpired
  <2> QED
    BY <2>2, CheckType DEF Err, Unusable
<1>4. PresentedChecks(id, token) = <<a, b>>
  BY DEF PresentedChecks
<1>5. UsableChecks(id, token) = PresentedChecks(id, token) \o <<c, d>>
  BY DEF UsableChecks
<1> HIDE DEF S, a, b, c, d
<1>6. <<a, b>> \in Seq(S) /\ <<c, d>> \in Seq(S) /\ Len(<<a, b>>) = 2 /\ Len(<<c, d>>) = 2
  BY <1>1, <1>2, <1>3
<1>7. Checks(id, 2, <<a, b>>) /\ Checks(id, 2, <<c, d>>)
  BY <1>6 DEF Checks, S
<1>8. Checks(id, 2 + 2, <<a, b>> \o <<c, d>>)
  BY <1>7, ChecksConcat
<1> QED
  BY <1>4, <1>5, <1>7, <1>8

\* 410 Gone is only ever said of a lease that no method uses again.
LEMMA GoneIsUnusable ==
  ASSUME TypeOK, NEW q, Fits(q), q.op # "acquire", HttpStatus[ResultOf(q)] = 410
  PROVE  Unusable(q.id)
<1> DEFINE p == PresentedChecks(q.id, q.token)
           u == UsableChecks(q.id, q.token)
           valid == <<ValidTTL(q.ttl), "other">>
           inWindow == <<Found(q.id) => InRenewWindow(leases[q.id]), "ErrRenewTooEarly">>
           v == <<valid>>
           w == <<inWindow>>
<1>1. q.id \in DOMAIN leases /\ q.op \in Operation
  BY DEF Fits, RequestRow
<1>2. Checks(q.id, 2, p) /\ Checks(q.id, 4, u)
  BY <1>1, ChecksOf
<1>3. ASSUME NEW e \in Check(q.id)
      PROVE  Checks(q.id, 1, <<e>>)
  BY <1>3 DEF Checks
<1>4. Checks(q.id, 1, v)
  <2>1. ValidTTL(q.ttl) \in BOOLEAN
    BY DEF ValidTTL
  <2>2. valid \in Check(q.id)
    BY <2>1, CheckType DEF Err
  <2> QED
    BY <1>3, <2>2
<1>5. Checks(q.id, 1, w)
  <2>1. inWindow \in Check(q.id)
    BY CheckType DEF Err
  <2> QED
    BY <1>3, <2>1
<1>6. \/ ResultOf(q) = FirstFailure(p)
      \/ ResultOf(q) = FirstFailure(u)
      \/ ResultOf(q) = FirstFailure(v \o u)
      \/ ResultOf(q) = FirstFailure((v \o u) \o w)
  BY <1>1 DEF ResultOf, Operation, RenewOutcome, UpdateTTLOutcome, ReleaseOutcome, UseOutcome
<1> HIDE DEF p, u, v, w
<1>7. Checks(q.id, 5, v \o u)
  <2>1. Checks(q.id, 4, u) /\ Checks(q.id, 1, v)
    BY <1>2, <1>4
  <2>2. ASSUME NEW m \in Nat, NEW n \in Nat, m + n = 5,
               Checks(q.id, m, v), Checks(q.id, n, u)
        PROVE  Checks(q.id, 5, v \o u)
    BY <2>2, ChecksConcat
  <2> QED
    BY <2>1, <2>2
<1>8. Checks(q.id, 6, (v \o u) \o w)
  BY <1>5, <1>7, ChecksConcat
<1>9. ASSUME NEW n \in 0 .. 6, NEW checks, Checks(q.id, n, checks),
             ResultOf(q) = FirstFailure(checks)
      PROVE  Unusable(q.id)
  BY <1>9, GoneOutcome
<1>10. 2 \in 0 .. 6 /\ 4 \in 0 .. 6 /\ 5 \in 0 .. 6 /\ 6 \in 0 .. 6
  OBVIOUS
<1>11. CASE ResultOf(q) = FirstFailure(p)
  BY <1>2, <1>9, <1>10, <1>11
<1>12. CASE ResultOf(q) = FirstFailure(u)
  BY <1>2, <1>9, <1>10, <1>12
<1>13. CASE ResultOf(q) = FirstFailure(v \o u)
  BY <1>7, <1>9, <1>10, <1>13
<1>14. CASE ResultOf(q) = FirstFailure((v \o u) \o w)
  BY <1>8, <1>9, <1>10, <1>14
<1> QED
  BY <1>6, <1>11, <1>12, <1>13, <1>14

\* A grant inserts an active lease, and the row of its resource names it.
LEMMA GrantGives ==
  ASSUME LeaseInv, NEW r \in Resource, NEW id, NEW row, NEW status, Grants(r, id, row, status)
  PROVE  /\ id \notin DOMAIN leases
         /\ id \in DOMAIN leases' /\ leases'[id] = row
         /\ leases'[id].status = "active"
         /\ resources'[r].current_lease_id = id
<1>1. /\ id \notin DOMAIN leases
      /\ row.status = "active"
      /\ resources' = UpsertResourceFencing(resources, r, NextToken(r), id)
      /\ \E tbl : leases' = InsertLease(tbl, id, row)
  BY DEF Grants
<1>2. resources'[r].current_lease_id = id
  BY <1>1, RowType DEF LeaseInv, UpsertResourceFencing, PutResource, ResourceRow
<1> QED
  BY <1>1, <1>2 DEF InsertLease

LEMMA TransferGives ==
  ASSUME LeaseInv, NEW id \in LeaseId, NEW token, NEW h \in Holder,
         NEW new \in LeaseId, Transfer(id, token, h, new)
  PROVE  /\ new \notin DOMAIN leases
         /\ new \in DOMAIN leases'
         /\ leases'[new].holder = h
         /\ leases'[new].status = "active"
         /\ resources'[leases[id].resource].current_lease_id = new
<1> DEFINE old == leases[id]
           fresh == [old EXCEPT !.holder = h,
                                !.fencing_token = NextToken(old.resource),
                                !.last_heartbeat = now]
<1>1. /\ id \in DOMAIN leases /\ old \in LeaseRow /\ old.resource \in Resource
      /\ old.status = "active"
  BY DEF Transfer, Usable, Presented, LeaseInv, TypeOK, LeaseRow, Status, IsTerminal
<1>2. fresh.holder = h /\ fresh.status = "active"
  BY <1>1 DEF LeaseRow
<1>3. PICK r \in Resource : r = leases[id].resource
  BY <1>1
<1>4. /\ new \notin DOMAIN leases
      /\ \E tbl : leases' = InsertLease(tbl, new, fresh)
      /\ resources' = UpsertResourceFencing(resources, r, NextToken(r), new)
  BY <1>3 DEF Transfer
<1> HIDE DEF fresh
<1>5. resources'[r].current_lease_id = new
  BY <1>4, RowType DEF LeaseInv, UpsertResourceFencing, PutResource, ResourceRow
<1> QED
  BY <1>2, <1>3, <1>4, <1>5 DEF InsertLease

\* What a client learns from an answer that says ok is so when it is written.
LEMMA Reply ==
  ASSUME LeaseInv, NEW q, Fits(q), q.op \in Tells, Serve(q), ResultOf(q) = "ok",
         NEW a, a = Response(q)
  PROVE  /\ a.outcome = "ok"
         /\ Known(ToldTo(q), Lease(a))'
         /\ leases'[a.id].status = "active"
         /\ leases'[a.id].expires_at = a.until
         /\ IF q.op \in Extends THEN a.id = q.id ELSE a.id \notin DOMAIN leases
<1>1. Served(q)
  BY DEF Serve
<1>2. TypeOK'
  <2>1. [AnyNext]_vars
    BY <1>1, ServedIsAny DEF AnyNext, LeaseInv
  <2> QED
    BY <2>1, AnyStepType DEF LeaseInv
<1>3. ASSUME NEW id \in DOMAIN leases', leases'[id].holder = ToldTo(q),
             leases'[id].status = "active",
             a = Done(id, leases'[id].fencing_token, leases'[id].expires_at),
             IF q.op \in Extends THEN id = q.id ELSE id \notin DOMAIN leases
      PROVE  /\ a.outcome = "ok"
             /\ Known(ToldTo(q), Lease(a))'
             /\ leases'[a.id].status = "active"
             /\ leases'[a.id].expires_at = a.until
             /\ IF q.op \in Extends THEN a.id = q.id ELSE a.id \notin DOMAIN leases
  <2>1. id \in LeaseId /\ leases'[id].fencing_token \in Nat /\ leases'[id].expires_at \in Int
    BY <1>2 DEF TypeOK, LeaseRow, Int64
  <2>2. /\ a.id = id /\ a.token = leases'[id].fencing_token
        /\ a.until = leases'[id].expires_at /\ a.outcome = "ok"
    BY <1>3 DEF Done
  <2>3. Lease(a) = [id |-> id, token |-> leases'[id].fencing_token,
                    until |-> leases'[id].expires_at]
    BY <2>2 DEF Lease
  <2>4. Known(ToldTo(q), Lease(a))'
    BY <1>3, <2>1, <2>3 DEF Known, Claim, ToldTo, Lease
  <2> QED
    BY <1>3, <2>2, <2>4
<1>4. CASE q.op = "acquire"
  <2>1. /\ q.resource \in Resource /\ q.by \in Holder /\ q.ttl \in TTL
        /\ ToldTo(q) = q.by /\ q.op \notin Extends
    BY <1>4 DEF Fits, RequestRow, ToldTo, Extends
  <2>2. PICK id \in LeaseId : Acquire(q.resource, q.by, q.ttl, id)
    BY <1>1, <1>4 DEF Served
  <2>3. PICK row : Grants(q.resource, id, row, "expired")
    BY <2>1, <2>2, AcquireGrants
  <2>4. id \in DOMAIN leases' /\ leases'[id].holder = q.by
    BY <2>1, <2>2, AcquireAppends
  <2>5. /\ id \notin DOMAIN leases
        /\ leases'[id].status = "active"
        /\ resources'[q.resource].current_lease_id = id
    BY <2>1, <2>3, GrantGives
  <2>6. a = Done(id, leases'[id].fencing_token, leases'[id].expires_at)
    BY <1>4, <2>5 DEF Response
  <2> QED
    BY <1>3, <2>1, <2>4, <2>5, <2>6
<1>5. CASE q.op = "transfer"
  <2>1. /\ q.id \in DOMAIN leases /\ q.id \in LeaseId /\ q.to \in Holder
        /\ ToldTo(q) = q.to /\ q.op \notin Extends
    BY <1>5 DEF Fits, RequestRow, ToldTo, Extends, LeaseInv, TypeOK
  <2>2. PICK id \in LeaseId : Transfer(q.id, q.token, q.to, id)
    BY <1>1, <1>5 DEF Served
  <2>3. /\ id \notin DOMAIN leases
        /\ id \in DOMAIN leases'
        /\ leases'[id].holder = q.to
        /\ leases'[id].status = "active"
        /\ resources'[leases[q.id].resource].current_lease_id = id
    BY <2>1, <2>2, TransferGives
  <2>4. a = Done(id, leases'[id].fencing_token, leases'[id].expires_at)
    BY <1>5, <2>3 DEF Response
  <2> QED
    BY <1>3, <2>1, <2>3, <2>4
<1>6. CASE q.op \in Extends
  <2>1. q.id \in DOMAIN leases /\ leases[q.id].holder = q.by /\ ToldTo(q) = q.by
    BY <1>6 DEF Fits, ToldTo, Extends
  <2>2. PICK action : Extend(q.id, q.ttl, action) /\ Usable(q.id, q.token)
    BY <1>1, <1>6 DEF Served, Extends, Renew, UpdateTTL
  <2>3. leases'[q.id].status = "active" /\ SameLease(q.id)
    BY <2>1, <2>2, ExtendFate, WriteFate DEF LeaseInv
  <2>4. a = Done(q.id, leases'[q.id].fencing_token, leases'[q.id].expires_at)
    BY <1>6 DEF Response, Extends
  <2> QED
    BY <1>3, <1>6, <2>1, <2>3, <2>4 DEF SameLease
<1> QED
  BY <1>4, <1>5, <1>6 DEF Tells, Extends

-----------------------------------------------------------------------------
(* What the clients know stays true *)

LEMMA FitsKept ==
  ASSUME Moves, NEW q, Fits(q)
  PROVE  Fits(q)'
<1>1. q.op # "acquire" => SameLease(q.id)
  BY DEF Moves, Fits
<1> QED
  BY <1>1 DEF Fits, SameLease

LEMMA ClaimKept ==
  ASSUME Moves, NEW c, NEW k, Known(c, k)
  PROVE  Known(c, k)'
<1>1. SameLease(k.id)
  BY DEF Moves, Known
<1> QED
  BY <1>1 DEF Known, SameLease

LEMMA CallKept ==
  ASSUME Moves, NEW c, NEW open, OpenCall(c, open)
  PROVE  OpenCall(c, open)'
<1>1. Fits(open.request)'
  BY FitsKept DEF OpenCall
<1>2. ASSUME Succeeded(open), open.request.op \in Tells
      PROVE  Known(ToldTo(open.request), Lease(open.answer))'
  <2>1. PICK d, k : d = ToldTo(open.request) /\ k = Lease(open.answer)
    OBVIOUS
  <2>2. Known(d, k)'
    BY <1>2, <2>1, ClaimKept DEF OpenCall
  <2> QED
    BY <2>1, <2>2 DEF ToldTo, Lease
<1> QED
  BY <1>1, <1>2 DEF OpenCall, Succeeded

\* A step that adds nothing unfit keeps the invariant.
LEMMA KnownFrom ==
  ASSUME KnownInv, Moves,
         DOMAIN call' = Holder, DOMAIN belief' = Holder,
         \A c \in Holder : \A open \in call'[c] : open \in call[c] \/ OpenCall(c, open)',
         \A q \in orphans' : q \in orphans \/ Fits(q),
         \A c \in Holder : \A b \in belief'[c] : b \in belief[c] \/ Known(c, b),
         \A id \in refused' : id \in refused \/ Unusable(id)
  PROVE  KnownInv'
<1>1. \A c \in Holder : \A open \in call'[c] : OpenCall(c, open)'
  BY CallKept DEF KnownInv
<1>2. \A q \in orphans' : Fits(q)'
  BY FitsKept DEF KnownInv
<1>3. \A c \in Holder : \A b \in belief'[c] : Known(c, b)'
  BY ClaimKept DEF KnownInv
<1>4. \A id \in refused' : Unusable(id)'
  <2> SUFFICES ASSUME NEW id \in refused' PROVE Unusable(id)'
    OBVIOUS
  <2>1. Unusable(id)
    BY DEF KnownInv
  <2>2. id \in DOMAIN leases
    BY <2>1 DEF Unusable
  <2> QED
    BY <2>1, <2>2 DEF Moves
<1> QED
  BY <1>1, <1>2, <1>3, <1>4 DEF KnownInv

LEMMA SendKnown ==
  ASSUME KnownInv, Moves, NEW c \in Holder, NEW q, NEW believed, Send(c, q, believed),
         Fits(q), q.by = c, \A b \in believed : Known(c, b)
  PROVE  KnownInv'
<1> DEFINE new == [request |-> q, answer |-> NoAnswer]
<1>1. Fits(q)'
  BY FitsKept
<1>2. OpenCall(c, new)'
  BY <1>1 DEF OpenCall, Succeeded, NoAnswer
<1>3. /\ call' = [call EXCEPT ![c] = {new}]
      /\ belief' = [belief EXCEPT ![c] = believed]
      /\ UNCHANGED <<orphans, refused>>
  BY DEF Send
<1> HIDE DEF new
<1>4. DOMAIN call = Holder /\ DOMAIN belief = Holder
  BY DEF KnownInv
<1>5. \A d \in Holder : \A open \in call'[d] : open \in call[d] \/ OpenCall(d, open)'
  BY <1>2, <1>3, <1>4
<1>6. \A d \in Holder : \A b \in belief'[d] : b \in belief[d] \/ Known(d, b)
  BY <1>3, <1>4
<1> QED
  BY <1>3, <1>4, <1>5, <1>6, KnownFrom

LEMMA MinOfTwo ==
  ASSUME NEW a \in Int, NEW b \in Int
  PROVE  Min({a, b}) \in Int /\ Min({a, b}) <= a /\ Min({a, b}) <= b
<1>1. \E x \in {a, b} : \A y \in {a, b} : x <= y
  <2>1. CASE a <= b
    BY <2>1
  <2>2. CASE b <= a
    BY <2>2
  <2> QED
    BY <2>1, <2>2
<1>2. Min({a, b}) \in {a, b} /\ \A y \in {a, b} : Min({a, b}) <= y
  BY <1>1 DEF Min
<1> QED
  BY <1>2

\* What a client relies on, and may put into a request.
LEMMA BeliefFits ==
  ASSUME TypeOK, KnownInv, NEW c \in Holder, NEW b \in belief[c], NEW to \in Holder
  PROVE  /\ Known(c, b)
         /\ \A op \in {"heartbeat", "release", "transfer"} :
              Fits(Request(op, c, NoResource, b.id, b.token, 0, to))
         /\ \A op \in Extends, ttl \in TTL :
              Fits(Request(op, c, NoResource, b.id, b.token, ttl, to))
<1>1. Known(c, b)
  BY DEF KnownInv
<1>2. /\ b.id \in LeaseId /\ b.token \in Nat /\ b.id \in DOMAIN leases
      /\ leases[b.id].holder = c
  BY <1>1 DEF Known, Claim
<1>3. ASSUME NEW op \in {"heartbeat", "release", "transfer"}
      PROVE  Fits(Request(op, c, NoResource, b.id, b.token, 0, to))
  BY <1>2 DEF Request, Fits, RequestRow, Operation, Int64
<1>4. ASSUME NEW op \in Extends, NEW ttl \in TTL
      PROVE  Fits(Request(op, c, NoResource, b.id, b.token, ttl, to))
  BY <1>2 DEF Request, Fits, RequestRow, Operation, Extends
<1> QED
  BY <1>1, <1>3, <1>4

LEMMA SendersKnown ==
  ASSUME LeaseInv, KnownInv, Moves, NEW c \in Holder,
         SendAcquire(c) \/ SendExtension(c) \/ SendHeartbeat(c) \/ SendHandBack(c)
  PROVE  KnownInv'
<1>1. TypeOK
  BY DEF LeaseInv
<1>2. CASE SendAcquire(c)
  <2>1. PICK r \in Resource, ttl \in TTL :
          Send(c, Request("acquire", c, r, NoLease, 0, ttl, c), {})
    BY <1>2 DEF SendAcquire
  <2> DEFINE q == Request("acquire", c, r, NoLease, 0, ttl, c)
  <2>2. Fits(q) /\ q.by = c
    BY DEF Request, Fits, RequestRow, Operation
  <2> HIDE DEF q
  <2>3. Send(c, q, {})
    BY <2>1 DEF q
  <2> QED
    BY <2>2, <2>3, SendKnown
<1>3. CASE SendExtension(c)
  <2>1. PICK b \in belief[c], ttl \in TTL, op \in {"renew", "ttl_update"} :
          Send(c, Request(op, c, NoResource, b.id, b.token, ttl, c),
               {[b EXCEPT !.until = Min({b.until, now + ttl})]})
    BY <1>3 DEF SendExtension
  <2> DEFINE q == Request(op, c, NoResource, b.id, b.token, ttl, c)
             m == Min({b.until, now + ttl})
  <2>2. Fits(q) /\ q.by = c /\ Known(c, b)
    BY <1>1, BeliefFits DEF Extends, Request
  <2>3. m \in Int
    <3>1. b.until \in Int /\ now + ttl \in Int
      BY <1>1, <2>2, TimeType DEF Known, Claim, TypeOK, Int64
    <3> QED
      BY <3>1, MinOfTwo
  <2> HIDE DEF m, q
  <2>4. \A k \in {[b EXCEPT !.until = m]} : Known(c, k)
    BY <2>2, <2>3 DEF Known, Claim
  <2>5. Send(c, q, {[b EXCEPT !.until = m]})
    BY <2>1 DEF m, q
  <2> QED
    BY <2>2, <2>4, <2>5, SendKnown
<1>4. CASE SendHeartbeat(c)
  <2>1. PICK b \in belief[c] :
          Send(c, Request("heartbeat", c, NoResource, b.id, b.token, 0, c), {b})
    BY <1>4 DEF SendHeartbeat
  <2> DEFINE q == Request("heartbeat", c, NoResource, b.id, b.token, 0, c)
  <2>2. Fits(q) /\ q.by = c /\ Known(c, b)
    BY <1>1, BeliefFits DEF Request
  <2> HIDE DEF q
  <2>3. Send(c, q, {b})
    BY <2>1 DEF q
  <2> QED
    BY <2>2, <2>3, SendKnown
<1>5. CASE SendHandBack(c)
  <2>1. PICK b \in belief[c], op \in {"release", "transfer"}, to \in Holder :
          Send(c, Request(op, c, NoResource, b.id, b.token, 0, to), {})
    BY <1>5 DEF SendHandBack
  <2> DEFINE q == Request(op, c, NoResource, b.id, b.token, 0, to)
  <2>2. Fits(q) /\ q.by = c
    BY <1>1, BeliefFits DEF Request
  <2> HIDE DEF q
  <2>3. Send(c, q, {})
    BY <2>1 DEF q
  <2> QED
    BY <2>2, <2>3, SendKnown
<1> QED
  BY <1>2, <1>3, <1>4, <1>5

\* The clients give up, let go or lose the connection.
LEMMA LossKnown ==
  ASSUME KnownInv, Moves, NEW c \in Holder, LetGo(c) \/ GiveUp(c) \/ CrashAll
  PROVE  KnownInv'
<1>1. DOMAIN call = Holder /\ DOMAIN belief = Holder
  BY DEF KnownInv
<1>2. \A d : Unanswered(d) \subseteq belief[d]
  BY DEF Unanswered
<1>3. CASE LetGo(c)
  BY <1>1, <1>3, KnownFrom DEF LetGo
<1>4. CASE GiveUp(c)
  <2>1. PICK open \in call[c] :
          /\ call' = [call EXCEPT ![c] = {}]
          /\ belief' = [belief EXCEPT ![c] = Unanswered(c)]
          /\ orphans' \subseteq orphans \cup {open.request}
          /\ UNCHANGED refused
    BY <1>4 DEF GiveUp
  <2>2. Fits(open.request)
    BY DEF KnownInv, OpenCall
  <2> QED
    BY <1>1, <1>2, <2>1, <2>2, KnownFrom
<1>5. CASE CrashAll
  BY <1>1, <1>2, <1>5, KnownFrom DEF CrashAll
<1> QED
  BY <1>3, <1>4, <1>5

LEMMA ExecuteKnown ==
  ASSUME LeaseInv, KnownInv, Moves, NEW c \in Holder,
         Execute(c) \/ ExecuteFails(c) \/ PollTimesOut(c)
  PROVE  KnownInv'
<1>1. DOMAIN call = Holder /\ DOMAIN belief = Holder
  BY DEF KnownInv
<1>2. ASSUME NEW open \in call[c], NEW a,
             Succeeded([request |-> open.request, answer |-> a]) /\ open.request.op \in Tells =>
               Known(ToldTo(open.request), Lease(a))',
             call' = [call EXCEPT ![c] = {[open EXCEPT !.answer = a]}],
             UNCHANGED <<orphans, belief>>,
             \A id \in refused' : id \in refused \/ Unusable(id)
      PROVE  KnownInv'
  <2>1. OpenCall(c, open)
    BY DEF KnownInv
  <2> DEFINE new == [request |-> open.request, answer |-> a]
  <2>2. [open EXCEPT !.answer = a] = new
    BY <2>1 DEF OpenCall
  <2>3. new.request = open.request /\ new.answer = a
    OBVIOUS
  <2>4. Fits(open.request)'
    BY <2>1, FitsKept DEF OpenCall
  <2>5. OpenCall(c, new)'
    BY <1>2, <2>1, <2>3, <2>4 DEF OpenCall, Succeeded
  <2> HIDE DEF new
  <2>6. \A d \in Holder : \A o \in call'[d] : o \in call[d] \/ OpenCall(d, o)'
    BY <1>1, <1>2, <2>2, <2>5
  <2> QED
    BY <1>1, <1>2, <2>6, KnownFrom
<1>3. CASE Execute(c)
  <2>0. PICK open \in call[c] :
          /\ Serve(open.request)
          /\ call' = [call EXCEPT ![c] = {[open EXCEPT !.answer = Response(open.request)]}]
          /\ refused' = refused \cup Gone(open.request, Response(open.request))
          /\ UNCHANGED <<orphans, belief>>
    BY <1>3 DEF Execute
  <2>7. PICK a : a = Response(open.request)
    OBVIOUS
  <2>1. /\ Serve(open.request)
        /\ a = Response(open.request)
        /\ call' = [call EXCEPT ![c] = {[open EXCEPT !.answer = a]}]
        /\ refused' = refused \cup Gone(open.request, a)
        /\ UNCHANGED <<orphans, belief>>
    BY <2>0, <2>7
  <2> DEFINE q == open.request
  <2>2. Fits(q)
    BY DEF KnownInv, OpenCall
  <2>3. a.outcome = "ok" \/ a.outcome = ResultOf(q)
    BY <2>1 DEF Response, Done, Refusal
  <2>4. a.outcome = "ok" => ResultOf(q) = "ok"
    BY <2>1 DEF Response, Refusal
  <2>5. a.outcome = "ok" /\ q.op \in Tells => Known(ToldTo(q), Lease(a))'
    BY <2>1, <2>2, <2>4, Reply
  <2>6. \A id \in Gone(q, a) : Unusable(id)
    <3>1. HttpStatus["ok"] # 410
      BY DEF HttpStatus, Outcome
    <3>2. Gone(q, a) # {} =>
            q.op # "acquire" /\ HttpStatus[ResultOf(q)] = 410 /\ Gone(q, a) = {q.id}
      BY <2>3, <3>1 DEF Gone
    <3> QED
      BY <2>2, <3>2, GoneIsUnusable DEF LeaseInv
  <2> QED
    BY <1>2, <2>1, <2>5, <2>6 DEF Succeeded
<1>4. CASE ExecuteFails(c) \/ PollTimesOut(c)
  <2>1. PICK open \in call[c], outcome \in {"other", "ErrTimeout"} :
          /\ call' = [call EXCEPT ![c] = {[open EXCEPT !.answer = Refusal(outcome)]}]
          /\ UNCHANGED <<orphans, belief, refused>>
    BY <1>4 DEF ExecuteFails, PollTimesOut
  <2> QED
    BY <1>2, <2>1 DEF Succeeded, Refusal
<1> QED
  BY <1>3, <1>4

LEMMA ReceiveKnown ==
  ASSUME KnownInv, Moves, NEW c \in Holder, Receive(c)
  PROVE  KnownInv'
<1>1. DOMAIN call = Holder /\ DOMAIN belief = Holder
  BY DEF KnownInv
<1>2. PICK open \in call[c] :
        /\ call' = [call EXCEPT ![c] = {}]
        /\ belief' =
             IF open.request.op = "transfer" /\ open.answer.outcome = "ok"
             THEN [belief EXCEPT ![open.request.to] =
                     IF @ = {} /\ call[open.request.to] \in {{}, {open}}
                     THEN {Lease(open.answer)} ELSE @]
             ELSE [belief EXCEPT ![c] = Learned(open.request, open.answer)]
        /\ UNCHANGED <<orphans, refused>>
  BY DEF Receive
<1> DEFINE q == open.request
           a == open.answer
<1>3. OpenCall(c, open)
  BY DEF KnownInv
<1>4. q.op = "transfer" /\ a.outcome = "ok" => Known(q.to, Lease(a))
  BY <1>3 DEF OpenCall, Succeeded, Tells, ToldTo
<1>5. \A k \in Learned(q, a) : k \in belief[c] \/ Known(c, k)
  <2>1. q.by = c
    BY <1>3 DEF OpenCall
  <2>2. CASE a.outcome = "ok" /\ q.op \in {"acquire", "renew", "ttl_update"}
    <3>1. Known(c, Lease(a))
      BY <1>3, <2>1, <2>2 DEF OpenCall, Succeeded, Tells, ToldTo
    <3> QED
      BY <2>2, <3>1 DEF Learned
  <2>3. CASE ~(a.outcome = "ok" /\ q.op \in {"acquire", "renew", "ttl_update"})
    BY <2>1, <2>3 DEF Learned
  <2> QED
    BY <2>2, <2>3
<1>6. \A d \in Holder : \A b \in belief'[d] : b \in belief[d] \/ Known(d, b)
  BY <1>1, <1>2, <1>4, <1>5
<1>7. DOMAIN belief' = Holder /\ DOMAIN call' = Holder
  BY <1>1, <1>2
<1>8. \A d \in Holder : call'[d] \subseteq call[d]
  BY <1>1, <1>2
<1> QED
  BY <1>2, <1>6, <1>7, <1>8, KnownFrom

\* The clock is set back: the tables stay as they are, and of the leases that
\* were answered to be gone those that have ended.
LEMMA SetBackKnown ==
  ASSUME KnownInv, ClockSetBack
  PROVE  KnownInv'
<1>1. UNCHANGED <<leases, call, orphans, belief>>
  BY DEF ClockSetBack, ClockBack, tables
<1>2. \A id \in refused' : Unusable(id)'
  BY <1>1 DEF ClockSetBack, KnownInv, Unusable
<1>3. \A q : Fits(q) => Fits(q)'
  BY <1>1 DEF Fits
<1>4. \A c, k : Known(c, k) => Known(c, k)'
  BY <1>1 DEF Known
<1>5. \A c, open : OpenCall(c, open) => OpenCall(c, open)'
  BY <1>3, <1>4 DEF OpenCall
<1> QED
  BY <1>1, <1>2, <1>3, <1>4, <1>5 DEF KnownInv

LEMMA StepKnown ==
  ASSUME LeaseInv, KnownInv, [ClientsNext]_cvars
  PROVE  KnownInv'
<1> SUFFICES ASSUME ~ClockSetBack PROVE KnownInv'
  BY SetBackKnown
<1>1. Moves
  BY ClientsMove
<1>2. ASSUME NEW c \in Holder, ClientStep(c)
      PROVE  KnownInv'
  BY <1>1, <1>2, SendersKnown, LossKnown, ExecuteKnown, ReceiveKnown DEF ClientStep
<1>3. CASE /\ orphans' \subseteq orphans
           /\ UNCHANGED <<call, belief, refused>>
  BY <1>1, <1>3, KnownFrom DEF KnownInv
<1>4. CASE ExecuteOrphan
  BY <1>3, <1>4 DEF ExecuteOrphan
<1>5. CASE Background \/ ClockAdvances \/ UNCHANGED cvars
  BY <1>3, <1>5 DEF Background, ClockAdvances, clients, cvars
<1>6. CASE CrashAll
  <2>1. CASE Holder = {}
    BY <1>1, <1>6, <2>1, KnownFrom DEF CrashAll, KnownInv
  <2> QED
    BY <1>1, <1>6, <2>1, LossKnown
<1> QED
  BY <1>2, <1>4, <1>5, <1>6 DEF ClientsNext

LEMMA InitKnown == ClientsInit => LeaseInv /\ KnownInv
BY InitInv DEF ClientsInit, KnownInv

-----------------------------------------------------------------------------
(* 410 Gone is final *)

\* The audit row of a call that used a lease.
Uses(e) ==
  /\ e.action \in {"renew", "ttl_update", "heartbeat", "transfer"}
  /\ e.detail # "from"

UsesUsable == \A i \in Fresh : Uses(audit'[i]) => ~Unusable(audit'[i].lease_id)

LEMMA RowUses ==
  ASSUME LeaseInv, NEW e \in AuditRow, Log(<<e>>), Uses(e) => ~Unusable(e.lease_id)
  PROVE  UsesUsable
BY OneRow DEF UsesUsable

LEMMA UsableIsUsable ==
  ASSUME LeaseInv, NEW id, NEW token, Usable(id, token)
  PROVE  /\ id \in DOMAIN leases /\ id \in LeaseId /\ leases[id] \in LeaseRow
         /\ ~Unusable(id)
<1>1. id \in DOMAIN leases
  BY DEF Usable, Presented
<1>2. id \in LeaseId /\ leases[id] \in LeaseRow
  BY <1>1 DEF LeaseInv, TypeOK
<1>3. leases[id].expires_at \in Int
  BY <1>2 DEF LeaseRow, Int64
<1>4. now \in Int
  BY TimeType DEF LeaseInv, TypeOK, Int64
<1>5. ~(now > leases[id].expires_at)
  BY <1>3, <1>4 DEF Usable, Unexpired
<1> QED
  BY <1>1, <1>2, <1>5 DEF Usable, Unusable

LEMMA UsableUses ==
  ASSUME LeaseInv, NEW id, NEW token, Usable(id, token), NEW action \in AuditAction,
         Log(<<LeaseEntry(action, id, leases[id], now, "")>>)
  PROVE  UsesUsable
<1> DEFINE e == LeaseEntry(action, id, leases[id], now, "")
<1>1. id \in LeaseId /\ leases[id] \in LeaseRow /\ ~Unusable(id)
  BY UsableIsUsable
<1>2. e \in AuditRow /\ e.lease_id = id
  BY <1>1, EntryType DEF LeaseInv, TypeOK, Detail, LeaseEntry, Entry
<1> HIDE DEF e
<1>3. Log(<<e>>)
  BY DEF e
<1> QED
  BY <1>1, <1>2, <1>3, RowUses

LEMMA TransferUses ==
  ASSUME LeaseInv, NEW id \in LeaseId, NEW token, NEW h \in Holder,
         NEW new \in LeaseId, Transfer(id, token, h, new)
  PROVE  UsesUsable
<1> DEFINE old == leases[id]
           fresh == [old EXCEPT !.holder = h,
                                !.fencing_token = NextToken(old.resource),
                                !.last_heartbeat = now]
           e == LeaseEntry("transfer", id, old, now, "to")
           f == LeaseEntry("transfer", new, fresh, now, "from")
<1>1. /\ id \in DOMAIN leases /\ old \in LeaseRow /\ old.resource \in Resource
      /\ old.expires_at \in Int /\ now \in Int64 /\ now \in Int
  BY TimeType DEF Transfer, Usable, Presented, LeaseInv, TypeOK, LeaseRow, Int64
<1>2. fresh \in LeaseRow
  BY <1>1, RowType DEF LeaseInv, LeaseRow
<1>3. ~Unusable(id)
  BY <1>1 DEF Transfer, Usable, Unexpired, Unusable
<1>4. Log(<<e, f>>)
  BY DEF Transfer
<1> HIDE DEF fresh
<1>5. /\ e \in AuditRow /\ e.lease_id = id
      /\ f \in AuditRow /\ f.detail = "from"
  BY <1>1, <1>2, EntryType DEF LeaseInv, TypeOK, AuditAction, Detail, LeaseEntry, Entry
<1> HIDE DEF e, f
<1> QED
  BY <1>3, <1>4, <1>5, TwoRows DEF UsesUsable, Uses

LEMMA SweepUses ==
  ASSUME LeaseInv, NEW ids \in SUBSET (DOMAIN leases), NEW order \in SweepOrders(ids)
  PROVE  /\ SweepRows(order) \in Seq(AuditRow)
         /\ \A i \in DOMAIN SweepRows(order) : ~Uses(SweepRows(order)[i])
<1>1. SweepRows(order) \in Seq(AuditRow)
  BY OrderType DEF LeaseInv
<1> QED
  BY <1>1 DEF SweepRows, LeaseEntry, Entry, Uses

LEMMA AcquireUses ==
  ASSUME LeaseInv, NEW r \in Resource, NEW h \in Holder, NEW ttl \in TTL,
         NEW id \in LeaseId, Acquire(r, h, ttl, id)
  PROVE  UsesUsable
<1>1. PICK existing \in GetActiveLeaseByResource(r) :
        \E order \in SweepOrders(existing) : \E row :
          Log(SweepRows(order) \o <<LeaseEntry("acquire", id, row, now, "")>>)
  BY DEF Acquire
<1>2. PICK order \in SweepOrders(existing) : \E row :
        Log(SweepRows(order) \o <<LeaseEntry("acquire", id, row, now, "")>>)
  BY <1>1
<1>3. PICK row : Log(SweepRows(order) \o <<LeaseEntry("acquire", id, row, now, "")>>)
  BY <1>2
<1> DEFINE e == LeaseEntry("acquire", id, row, now, "")
           old == SweepRows(order)
<1>4. old \in Seq(AuditRow) /\ \A i \in DOMAIN old : ~Uses(old[i])
  <2>1. existing \in SUBSET (DOMAIN leases)
    BY DEF GetActiveLeaseByResource, ActiveLeases
  <2> QED
    BY <2>1, SweepUses
<1>5. ~Uses(e)
  BY DEF LeaseEntry, Entry, Uses
<1> HIDE DEF e, old
<1>6. audit \in Seq(AuditRow) /\ audit' = audit \o (old \o <<e>>)
  BY <1>3 DEF LeaseInv, TypeOK, Log, e, old
<1>7. \A i \in Fresh : ~Uses(audit'[i])
  <2>1. old \in Seq(AuditRow \cup {e}) /\ audit \in Seq(AuditRow \cup {e})
    BY <1>4, <1>6
  <2> DEFINE new == old \o <<e>>
  <2>2. /\ new \in Seq(AuditRow \cup {e})
        /\ \A i \in DOMAIN new : ~Uses(new[i])
    BY <1>4, <1>5, <2>1
  <2>3. audit' = audit \o new
    BY <1>6
  <2> HIDE DEF new
  <2>4. \A i \in Fresh : i - Len(audit) \in DOMAIN new /\ audit'[i] = new[i - Len(audit)]
    BY <2>1, <2>2, <2>3 DEF Fresh
  <2> QED
    BY <2>2, <2>4
<1> QED
  BY <1>7 DEF UsesUsable

LEMMA SweepStepUses ==
  ASSUME LeaseInv, NEW ids \in SUBSET (DOMAIN leases),
         \E order \in SweepOrders(ids) : Log(SweepRows(order))
  PROVE  UsesUsable
<1>1. PICK order \in SweepOrders(ids) : Log(SweepRows(order))
  OBVIOUS
<1> DEFINE rows == SweepRows(order)
<1>2. rows \in Seq(AuditRow) /\ \A i \in DOMAIN rows : ~Uses(rows[i])
  BY SweepUses
<1>3. Log(rows)
  BY <1>1
<1> HIDE DEF rows
<1>4. \A i \in Fresh : i - Len(audit) \in DOMAIN rows /\ audit'[i] = rows[i - Len(audit)]
  BY <1>2, <1>3, LogFacts DEF Fresh
<1> QED
  BY <1>2, <1>4 DEF UsesUsable

\* A row that is of no use of a lease.
LEMMA OtherRowUses ==
  ASSUME LeaseInv, NEW e \in AuditRow, Log(<<e>>), ~Uses(e)
  PROVE  UsesUsable
BY RowUses

LEMMA NoRowUses ==
  ASSUME LeaseInv, UNCHANGED audit
  PROVE  UsesUsable
<1>1. Fresh = {}
  <2>1. Len(audit) \in Nat /\ Len(audit') = Len(audit)
    BY DEF LeaseInv, TypeOK
  <2> QED
    BY <2>1 DEF Fresh
<1> QED
  BY <1>1 DEF UsesUsable

\* Whatever a step logs, a lease is only used while it is usable.
LEMMA StepUses ==
  ASSUME LeaseInv, [AnyNext]_vars
  PROVE  UsesUsable
<1>1. ASSUME UNCHANGED audit PROVE UsesUsable
  BY <1>1, NoRowUses
<1>2. ASSUME NEW x \in DOMAIN leases, NEW action \in {"release", "force_release"},
             Retire(x, action)
      PROVE  UsesUsable
  <2> DEFINE e == LeaseEntry(action, x, leases[x], now, "")
  <2>1. x \in LeaseId /\ leases[x] \in LeaseRow
    BY DEF LeaseInv, TypeOK
  <2>2. e \in AuditRow /\ ~Uses(e)
    BY <2>1, EntryType DEF LeaseInv, TypeOK, AuditAction, Detail, LeaseEntry, Entry, Uses
  <2>3. Log(<<e>>)
    BY <1>2 DEF Retire
  <2> HIDE DEF e
  <2> QED
    BY <2>2, <2>3, OtherRowUses
<1>3. ASSUME NEW r \in Resource \cup {NoResource}, NEW action \in {"lock", "unlock", "recover"},
             Log(<<Entry(action, NoLease, r, 0, now, "")>>)
      PROVE  UsesUsable
  <2> DEFINE e == Entry(action, NoLease, r, 0, now, "")
  <2>1. e \in PlainRow
    BY OtherEntryPlain
  <2>2. e \in AuditRow /\ ~Uses(e)
    BY <2>1 DEF PlainRow, Entry, Uses
  <2>3. Log(<<e>>)
    BY <1>3
  <2> HIDE DEF e
  <2> QED
    BY <2>2, <2>3, OtherRowUses
<1>4. CASE AcquireRequest
  BY <1>4, AcquireUses DEF AcquireRequest
<1>5. CASE AnyRequest
  <2>0. PICK id \in LeaseId : \E token : RequestOf(id, token)
    BY <1>5 DEF AnyRequest
  <2>1. PICK token : RequestOf(id, token)
    BY <2>0
  <2>2. CASE \/ \E ttl \in TTL : Renew(id, token, ttl) \/ UpdateTTL(id, token, ttl)
             \/ Heartbeat(id, token)
    BY <2>2, UsableUses DEF Renew, UpdateTTL, Extend, Heartbeat, AuditAction
  <2>3. CASE Release(id, token)
    BY <1>1, <1>2, <2>3 DEF Release, Presented, vars, tables
  <2>4. CASE \E h \in Holder, newID \in LeaseId : Transfer(id, token, h, newID)
    BY <2>4, TransferUses
  <2> QED
    BY <2>1, <2>2, <2>3, <2>4 DEF RequestOf
<1>6. CASE AdminRequest
  <2>1. ASSUME NEW id \in LeaseId, ForceRelease(id) PROVE UsesUsable
    BY <1>1, <1>2, <2>1 DEF ForceRelease, vars, tables
  <2>2. ASSUME NEW r \in Resource, LockResource(r) \/ UnlockResource(r) PROVE UsesUsable
    BY <1>1, <1>3, <2>2 DEF LockResource, UnlockResource, SetLock, vars, tables
  <2> QED
    BY <1>6, <2>1, <2>2 DEF AdminRequest
<1>7. CASE Sweep \/ Recover
  <2>1. ListExpiredActive(now) \in SUBSET (DOMAIN leases)
    BY DEF ListExpiredActive
  <2> QED
    BY <1>7, <2>1, SweepStepUses DEF Sweep, Recover, SweepCommit
<1>8. CASE AuditRecover
  BY <1>1, <1>3, <1>8 DEF AuditRecover
<1>9. CASE Restart \/ ClockForward \/ ClockBack \/ UNCHANGED vars
  BY <1>1, <1>9 DEF Restart, ClockForward, ClockBack, vars, tables
<1> QED
  BY <1>4, <1>5, <1>6, <1>7, <1>8, <1>9 DEF AnyNext

\* The clients only make requests that the lease manager allows for, so what
\* holds of it holds behind HTTP, and what they know is about leases that were
\* theirs: the invariant of the two theorems below.
THEOREM ClientsInvariant == ClientsSpec => [](LeaseInv /\ KnownInv)
<1>1. ClientsInit => LeaseInv /\ KnownInv
  BY InitKnown
<1>2. (LeaseInv /\ KnownInv) /\ [ClientsNext]_cvars => (LeaseInv /\ KnownInv)'
  BY ClientsMove, AnyStepInv, StepKnown
<1> QED
  BY <1>1, <1>2, PTL DEF ClientsSpec

\* 410 Gone is final, for any number of clients, lost answers, retries and
\* abandoned calls: GoneOutcome shows that every check that ends in 410 means an
\* unusable lease, and nothing but a clock that is set back makes an unusable
\* lease usable again, and that only if it is not terminal.  Such leases leave
\* refused when the clock is set back.
THEOREM GoneStaysGone == ClientsSpec => GoneIsFinal
<1> DEFINE StillGone ==
      \A i \in Len(audit) + 1 .. Len(audit') :
        (/\ audit'[i].action \in {"renew", "ttl_update", "heartbeat", "transfer"}
         /\ audit'[i].detail # "from")
          => audit'[i].lease_id \notin refused
<1>1. LeaseInv /\ KnownInv /\ [ClientsNext]_cvars => StillGone
  <2> SUFFICES ASSUME LeaseInv, KnownInv, [ClientsNext]_cvars
               PROVE  StillGone
    OBVIOUS
  <2>1. UsesUsable
    BY ClientsMove, StepUses
  <2> QED
    BY <2>1 DEF UsesUsable, Uses, Fresh, KnownInv
<1>2. ClientsSpec => [][StillGone]_cvars
  <2>1. LeaseInv /\ KnownInv /\ [ClientsNext]_cvars => [StillGone]_cvars
    BY <1>1
  <2> HIDE DEF StillGone
  <2> QED
    BY <2>1, ClientsInvariant, PTL DEF ClientsSpec
<1> QED
  BY <1>2 DEF GoneIsFinal

-----------------------------------------------------------------------------
(* What a client relies on is so *)

\* What HolderIsProtected says of a lease, but for what Known says.
Sound(id, until) ==
  now < until /\ ~Revoked(id) =>
    leases[id].status = "active" /\ leases[id].expires_at >= until

Names(q, id) == q.op # "acquire" /\ q.id = id

\* The answer grants a lease that nobody knows of before it is received.
Grant(open) == Succeeded(open) /\ open.request.op \in {"acquire", "transfer"}

SoundBeliefs == \A c \in Holder : \A b \in belief[c] : Sound(b.id, b.until)

SoundAnswers ==
  \A c \in Holder : \A open \in call[c] :
    /\ Succeeded(open) /\ open.request.op \in Tells =>
         Sound(open.answer.id, open.answer.until)
    /\ Succeeded(open) /\ open.request.op \in Extends =>
         open.answer.id = open.request.id

\* The lease id, granted by an answer to c, is known to nobody else.
GrantApart(c, id) ==
  /\ \A d \in Holder : \A b \in belief[d] : b.id # id
  /\ \A d \in Holder : \A p \in call[d] : ~Names(p.request, id)
  /\ \A q \in orphans : ~Names(q, id)
  /\ \A d \in Holder \ {c} : \A p \in call[d] : Grant(p) => p.answer.id # id

GrantsApart ==
  \A c \in Holder : \A open \in call[c] : Grant(open) => GrantApart(c, open.answer.id)

\* With the call q open a client reckons with all that it may do.
ReckonsWith(c, q) ==
  /\ q.op \in {"acquire"} \cup HandsBack => belief[c] = {}
  /\ q.op \in Extends => \A b \in belief[c] : b.until <= now + q.ttl

Reckoned == \A c \in Holder : \A open \in call[c] : ReckonsWith(c, open.request)

\* Nobody relies on a lease, or asks for it, that the orphan q may still change.
OrphanApart(q) ==
  q.op \in Extends \cup HandsBack =>
    /\ \A c \in Holder : \A b \in belief[c] : b.id # q.id
    /\ \A c \in Holder : \A open \in call[c] : ~Names(open.request, q.id)

OrphansApart == \A q \in orphans : OrphanApart(q)

HeldInv ==
  /\ SoundBeliefs
  /\ SoundAnswers
  /\ GrantsApart
  /\ Reckoned
  /\ OrphansApart

LEMMA HeldProtects == KnownInv /\ (~BackwardClock => HeldInv) => HolderIsProtected
BY DEF KnownInv, Known, HeldInv, SoundBeliefs, Sound, HolderIsProtected

LEMMA RevokedKept ==
  ASSUME LeaseInv, [AnyNext]_vars, NEW id, Revoked(id)
  PROVE  Revoked(id)'
<1>1. /\ DOMAIN audit' = DOMAIN audit \cup Fresh
      /\ \A i \in DOMAIN audit : audit'[i] = audit[i]
  BY AnyStepGrows, OldAndFresh DEF LeaseInv, TypeOK
<1> QED
  BY <1>1 DEF Revoked

LEMMA SoundKept ==
  ASSUME LeaseInv, [AnyNext]_vars, Moves, NEW id \in DOMAIN leases, NEW until \in Int,
         Spared(id), Sound(id, until)
  PROVE  Sound(id, until)'
<1>1. now \in Int /\ now' \in Int /\ now <= now'
  BY DEF Moves
<1>2. leases[id].expires_at \in Int
  BY DEF LeaseInv, TypeOK, LeaseRow, Int64
<1>3. ASSUME now' < until, ~Revoked(id)'
      PROVE  leases'[id].status = "active" /\ leases'[id].expires_at >= until
  <2>1. now < until
    BY <1>1, <1>3
  <2>2. leases[id].status = "active" /\ leases[id].expires_at >= until
    BY <1>3, <2>1, RevokedKept DEF Sound
  <2>3. ~(leases[id].expires_at <= now)
    BY <1>1, <1>2, <2>1, <2>2
  <2>4. SameTerm(id)
    BY <2>3 DEF Spared
  <2> QED
    BY <2>2, <2>4 DEF SameTerm
<1> QED
  BY <1>3 DEF Sound

\* What a step may do to a lease that a client is told of: nothing that the
\* client has not reckoned with.
Harmless(id, until) ==
  \/ Spared(id)
  \/ Revoked(id)'
  \/ leases'[id].status = "active" /\ leases'[id].expires_at >= until

LEMMA HarmlessKeeps ==
  ASSUME LeaseInv, [AnyNext]_vars, Moves, NEW id \in DOMAIN leases, NEW until \in Int,
         Harmless(id, until), Sound(id, until)
  PROVE  Sound(id, until)'
<1>1. CASE Spared(id)
  BY <1>1, SoundKept
<1>2. CASE ~Spared(id)
  BY <1>2 DEF Harmless, Sound
<1> QED
  BY <1>1, <1>2

LEMMA BackgroundHarmless ==
  ASSUME LeaseInv, Background \/ ClockForward \/ Restart \/ UNCHANGED vars,
         NEW id \in DOMAIN leases, NEW until
  PROVE  Harmless(id, until)
<1>1. CASE Background
  <2>1. CASE Spared(id)
    BY <2>1 DEF Harmless
  <2>2. CASE \E i \in Fresh : audit'[i].lease_id = id /\ audit'[i].action = "force_release"
    <3>1. Fresh \subseteq DOMAIN audit'
      <4>1. [AnyNext]_vars
        BY <1>1, BackgroundIsAny
      <4> QED
        BY <4>1, AnyStepGrows, OldAndFresh DEF LeaseInv, TypeOK
    <3> QED
      BY <2>2, <3>1 DEF Harmless, Revoked
  <2> QED
    BY <1>1, <2>1, <2>2, BackgroundFate
<1>2. CASE ClockForward \/ Restart \/ UNCHANGED vars
  BY <1>2 DEF ClockForward, Restart, vars, tables, Harmless, Spared, SameTerm
<1> QED
  BY <1>1, <1>2

\* A request does no harm to a lease that it does not name or may only extend.
LEMMA ServedHarmless ==
  ASSUME DeadlinesFit, LeaseInv, NEW q, Fits(q), Served(q),
         NEW id \in DOMAIN leases, NEW until \in Int,
         q.op \in HandsBack => q.id # id,
         q.op \in Extends /\ q.id = id => until <= now + q.ttl
  PROVE  Harmless(id, until)
<1>1. Spared(id) \/ Extended(q, id)
  BY ServedFate DEF HandedBack
<1>2. CASE Extended(q, id)
  <2>1. q.op \in Extends /\ q.id = id /\ q.ttl \in TTL /\ q.ttl > 0
    BY <1>2 DEF Extended, ValidTTL, Fits, Extends
  <2>2. Add64(now, q.ttl) = now + q.ttl /\ now \in Int /\ q.ttl \in Int
    BY <2>1, DeadlineSum DEF LeaseInv
  <2>3. leases'[id].status = "active" /\ leases'[id].expires_at = now + q.ttl
    BY <1>2, <2>2 DEF Extended
  <2>4. until <= now + q.ttl
    BY <2>1
  <2> QED
    BY <2>2, <2>3, <2>4 DEF Harmless
<1> QED
  BY <1>1, <1>2 DEF Harmless

\* What the clients know of the leases named by beliefs and answers.
LEMMA ToldLeases ==
  ASSUME KnownInv, NEW c \in Holder
  PROVE  /\ \A b \in belief[c] :
              b.id \in DOMAIN leases /\ leases[b.id].holder = c /\ b.until \in Int
         /\ \A p \in call[c] : Succeeded(p) /\ p.request.op \in Tells =>
              p.answer.id \in DOMAIN leases /\ p.answer.until \in Int
         /\ \A p \in call[c] : p.request.op # "acquire" =>
              p.request.id \in DOMAIN leases /\ leases[p.request.id].holder = c
         /\ \A p \in call[c] : p.request.by = c /\ Fits(p.request)
BY DEF KnownInv, Known, Claim, OpenCall, Lease, Fits

\* The step of the server does no harm to what the clients were told.
HarmlessStep ==
  \A c \in Holder :
    /\ \A b \in belief[c] : Harmless(b.id, b.until)
    /\ \A p \in call[c] : Succeeded(p) /\ p.request.op \in Tells =>
         Harmless(p.answer.id, p.answer.until)

LEMMA SoundStep ==
  ASSUME LeaseInv, KnownInv, HeldInv, [AnyNext]_vars, Moves, NEW c \in Holder
  PROVE  /\ \A b \in belief[c] : Harmless(b.id, b.until) => Sound(b.id, b.until)'
         /\ \A p \in call[c] :
              Succeeded(p) /\ p.request.op \in Tells /\ Harmless(p.answer.id, p.answer.until) =>
                Sound(p.answer.id, p.answer.until)'
<1>1. ASSUME NEW b \in belief[c], Harmless(b.id, b.until)
      PROVE  Sound(b.id, b.until)'
  <2>1. b.id \in DOMAIN leases /\ b.until \in Int
    BY ToldLeases
  <2>2. Sound(b.id, b.until)
    BY DEF HeldInv, SoundBeliefs
  <2> QED
    BY <1>1, <2>1, <2>2, HarmlessKeeps
<1>2. ASSUME NEW p \in call[c], Succeeded(p), p.request.op \in Tells,
             Harmless(p.answer.id, p.answer.until)
      PROVE  Sound(p.answer.id, p.answer.until)'
  <2>1. p.answer.id \in DOMAIN leases /\ p.answer.until \in Int
    BY <1>2, ToldLeases
  <2>2. Sound(p.answer.id, p.answer.until)
    BY <1>2 DEF HeldInv, SoundAnswers
  <2> QED
    BY <1>2, <2>1, <2>2, HarmlessKeeps
<1> QED
  BY <1>1, <1>2

LEMMA ReckonsKept ==
  ASSUME KnownInv, Moves, NEW c \in Holder, belief'[c] \subseteq belief[c],
         NEW q, Fits(q), ReckonsWith(c, q)
  PROVE  ReckonsWith(c, q)'
<1>1. ASSUME NEW b \in belief'[c], q.op \in Extends
      PROVE  b.until <= now' + q.ttl
  <2>1. b.until <= now + q.ttl
    BY <1>1 DEF ReckonsWith
  <2>2. b.until \in Int /\ q.ttl \in Int
    BY ToldLeases DEF Fits, RequestRow, Int64
  <2>3. now \in Int /\ now' \in Int /\ now <= now'
    BY DEF Moves
  <2> QED
    BY <2>1, <2>2, <2>3
<1> QED
  BY <1>1 DEF ReckonsWith

\* A step that adds no belief and no answer; an orphan that it adds was open.
LEMMA HeldShrinks ==
  ASSUME LeaseInv, KnownInv, HeldInv, [AnyNext]_vars, Moves, HarmlessStep,
         \A c \in Holder : belief'[c] \subseteq belief[c] /\ call'[c] \subseteq call[c],
         \A q \in orphans' :
           \/ q \in orphans
           \/ OrphanApart(q)' /\ \E c \in Holder : \E p \in call[c] : q = p.request
  PROVE  HeldInv'
<1>1. SoundBeliefs'
  BY SoundStep DEF SoundBeliefs, HarmlessStep
<1>2. SoundAnswers'
  <2> SUFFICES ASSUME NEW c \in Holder, NEW p \in call'[c], Succeeded(p)
               PROVE  /\ p.request.op \in Tells => Sound(p.answer.id, p.answer.until)'
                      /\ p.request.op \in Extends => p.answer.id = p.request.id
    BY DEF SoundAnswers, Succeeded
  <2>1. p \in call[c]
    OBVIOUS
  <2>2. p.request.op \in Tells => Sound(p.answer.id, p.answer.until)'
    BY <2>1, SoundStep DEF HarmlessStep
  <2> QED
    BY <2>1, <2>2 DEF HeldInv, SoundAnswers
<1>3. GrantsApart'
  <2> SUFFICES ASSUME NEW c \in Holder, NEW p \in call'[c], Grant(p)
               PROVE  GrantApart(c, p.answer.id)'
    BY DEF GrantsApart, Grant, Succeeded
  <2> DEFINE id == p.answer.id
  <2>1. GrantApart(c, id)
    BY DEF HeldInv, GrantsApart
  <2> HIDE DEF id
  <2>2. \A q \in orphans' : ~Names(q, id)
    BY <2>1 DEF GrantApart
  <2>3. GrantApart(c, id)'
    BY <2>1, <2>2 DEF GrantApart, Names, Grant, Succeeded
  <2> QED
    BY <2>3 DEF id
<1>4. Reckoned'
  <2> SUFFICES ASSUME NEW c \in Holder, NEW p \in call'[c]
               PROVE  ReckonsWith(c, p.request)'
    BY DEF Reckoned
  <2>1. ReckonsWith(c, p.request) /\ Fits(p.request)
    BY ToldLeases DEF HeldInv, Reckoned
  <2> QED
    BY <2>1, ReckonsKept
<1>5. OrphansApart'
  <2> SUFFICES ASSUME NEW q \in orphans' PROVE OrphanApart(q)'
    BY DEF OrphansApart
  <2>1. CASE q \in orphans
    BY <2>1 DEF HeldInv, OrphansApart, OrphanApart, Names
  <2> QED
    BY <2>1
<1> QED
  BY <1>1, <1>2, <1>3, <1>4, <1>5 DEF HeldInv

LEMMA QuietHarmless ==
  ASSUME LeaseInv, KnownInv, Background \/ ClockForward \/ Restart \/ UNCHANGED vars
  PROVE  HarmlessStep
BY BackgroundHarmless, ToldLeases DEF HarmlessStep

\* Only the client that a lease was granted to names it.
LEMMA OwnNames ==
  ASSUME KnownInv, NEW c \in Holder, NEW d \in Holder, c # d, NEW p \in call[c],
         p.request.op # "acquire"
  PROVE  /\ \A b \in belief[d] : b.id # p.request.id
         /\ \A o \in call[d] : ~Names(o.request, p.request.id)
BY ToldLeases DEF Names

\* What serving q may do harm to is what its client has reckoned with, or, for
\* an orphan, what nobody relies on.
LEMMA CallHarmless ==
  ASSUME DeadlinesFit, LeaseInv, KnownInv, HeldInv, NEW c \in Holder, NEW open \in call[c],
         Served(open.request)
  PROVE  \A d \in Holder :
           /\ \A b \in belief[d] : Harmless(b.id, b.until)
           /\ d # c => \A p \in call[d] : Succeeded(p) /\ p.request.op \in Tells =>
                         Harmless(p.answer.id, p.answer.until)
<1> DEFINE q == open.request
<1>1. Fits(q) /\ q.by = c /\ ReckonsWith(c, q)
  BY ToldLeases DEF HeldInv, Reckoned
<1>2. ASSUME NEW d \in Holder, NEW b \in belief[d]
      PROVE  Harmless(b.id, b.until)
  <2>1. b.id \in DOMAIN leases /\ b.until \in Int /\ leases[b.id].holder = d
    BY ToldLeases
  <2>2. q.op \in HandsBack => q.id # b.id
    BY <1>1, <2>1 DEF ReckonsWith, HandsBack, Fits
  <2>3. q.op \in Extends /\ q.id = b.id => b.until <= now + q.ttl
    BY <1>1, <2>1 DEF ReckonsWith, Extends, Fits
  <2> QED
    BY <1>1, <2>1, <2>2, <2>3, ServedHarmless
<1>3. ASSUME NEW d \in Holder, d # c, NEW p \in call[d], Succeeded(p), p.request.op \in Tells
      PROVE  Harmless(p.answer.id, p.answer.until)
  <2>1. p.answer.id \in DOMAIN leases /\ p.answer.until \in Int
    BY <1>3, ToldLeases
  <2>2. ~Names(q, p.answer.id)
    <3>1. CASE Grant(p)
      BY <3>1 DEF HeldInv, GrantsApart, GrantApart
    <3>2. CASE p.request.op \in Extends
      <4>1. p.answer.id = p.request.id /\ p.request.op # "acquire"
        BY <1>3, <3>2 DEF HeldInv, SoundAnswers, Extends
      <4> QED
        BY <1>3, <4>1, OwnNames
    <3> QED
      BY <1>3, <3>1, <3>2 DEF Grant, Tells, Extends
  <2> QED
    BY <1>1, <2>1, <2>2, ServedHarmless DEF Names, HandsBack, Extends
<1> QED
  BY <1>2, <1>3

LEMMA OrphanHarmless ==
  ASSUME DeadlinesFit, LeaseInv, KnownInv, HeldInv, NEW q \in orphans, Served(q)
  PROVE  HarmlessStep
<1>1. Fits(q) /\ OrphanApart(q)
  BY DEF KnownInv, HeldInv, OrphansApart
<1>2. ASSUME NEW d \in Holder, NEW b \in belief[d]
      PROVE  Harmless(b.id, b.until)
  <2>1. b.id \in DOMAIN leases /\ b.until \in Int
    BY ToldLeases
  <2>2. q.op \in Extends \cup HandsBack => q.id # b.id
    BY <1>1 DEF OrphanApart
  <2> QED
    BY <1>1, <2>1, <2>2, ServedHarmless
<1>3. ASSUME NEW d \in Holder, NEW p \in call[d], Succeeded(p), p.request.op \in Tells
      PROVE  Harmless(p.answer.id, p.answer.until)
  <2>1. p.answer.id \in DOMAIN leases /\ p.answer.until \in Int
    BY <1>3, ToldLeases
  <2>2. q.op \in Extends \cup HandsBack => q.id # p.answer.id
    <3>1. CASE Grant(p)
      BY <3>1 DEF HeldInv, GrantsApart, GrantApart, Names, Extends, HandsBack
    <3>2. CASE p.request.op \in Extends
      <4>1. p.answer.id = p.request.id /\ p.request.op # "acquire"
        BY <1>3, <3>2 DEF HeldInv, SoundAnswers, Extends
      <4> QED
        BY <1>1, <4>1 DEF OrphanApart, Names
    <3> QED
      BY <1>3, <3>1, <3>2 DEF Grant, Tells, Extends
  <2> QED
    BY <1>1, <2>1, <2>2, ServedHarmless
<1> QED
  BY <1>2, <1>3 DEF HarmlessStep

\* The clients let go, give up or lose the connection, the server acts of its own
\* accord or serves an orphan, time goes on.
LEMMA QuietHeld ==
  ASSUME DeadlinesFit, LeaseInv, KnownInv, HeldInv, [AnyNext]_vars, Moves,
         \/ \E c \in Holder : LetGo(c) \/ GiveUp(c)
         \/ ExecuteOrphan \/ Background \/ CrashAll \/ ClockAdvances
         \/ UNCHANGED cvars
  PROVE  HeldInv'
<1>1. /\ DOMAIN call = Holder /\ DOMAIN belief = Holder
      /\ \A d : Unanswered(d) \subseteq belief[d]
  BY DEF KnownInv, Unanswered
<1>2. Moves /\ [AnyNext]_vars
  OBVIOUS
<1>3. ASSUME NEW c \in Holder, LetGo(c)
      PROVE  HeldInv'
  <2>1. HarmlessStep
    BY <1>3, QuietHarmless DEF LetGo
  <2> QED
    BY <1>1, <1>2, <1>3, <2>1, HeldShrinks DEF LetGo
<1>4. ASSUME NEW c \in Holder, GiveUp(c)
      PROVE  HeldInv'
  <2>1. PICK open \in call[c] :
          /\ call' = [call EXCEPT ![c] = {}]
          /\ belief' = [belief EXCEPT ![c] = Unanswered(c)]
          /\ orphans' \subseteq orphans \cup {open.request}
    BY <1>4 DEF GiveUp
  <2>2. HarmlessStep
    BY <1>4, QuietHarmless DEF GiveUp
  <2>3. OrphanApart(open.request)'
    <3> DEFINE q == open.request
    <3> SUFFICES ASSUME q.op \in Extends \cup HandsBack
                 PROVE  /\ \A d \in Holder : \A b \in belief'[d] : b.id # q.id
                        /\ \A d \in Holder : \A p \in call'[d] : ~Names(p.request, q.id)
      BY DEF OrphanApart, Names
    <3>1. q.op # "acquire" /\ q.op # "heartbeat"
      BY DEF Extends, HandsBack
    <3>2. belief'[c] = {} /\ call'[c] = {}
      BY <1>1, <2>1, <3>1 DEF Unanswered
    <3>3. \A d \in Holder : d # c => belief'[d] = belief[d] /\ call'[d] = call[d]
      BY <1>1, <2>1
    <3>4. \A d \in Holder : d # c =>
            /\ \A b \in belief[d] : b.id # q.id
            /\ \A p \in call[d] : ~Names(p.request, q.id)
      BY <3>1, OwnNames
    <3> QED
      BY <3>2, <3>3, <3>4
  <2>4. \A d \in Holder : belief'[d] \subseteq belief[d] /\ call'[d] \subseteq call[d]
    BY <1>1, <2>1
  <2>5. \A q \in orphans' : q \in orphans \/ q = open.request
    BY <2>1
  <2> QED
    BY <1>2, <2>2, <2>3, <2>4, <2>5, HeldShrinks
<1>5. CASE ExecuteOrphan
  <2>1. PICK q \in orphans : Serve(q) /\ orphans' = orphans \ {q} /\ UNCHANGED <<call, belief>>
    BY <1>5 DEF ExecuteOrphan
  <2>2. HarmlessStep
    BY <2>1, OrphanHarmless, QuietHarmless DEF Serve
  <2> QED
    BY <1>2, <2>1, <2>2, HeldShrinks
<1>6. CASE Background \/ ClockAdvances \/ UNCHANGED cvars
  <2>1. HarmlessStep
    BY <1>6, QuietHarmless DEF ClockAdvances, cvars
  <2>2. UNCHANGED <<call, orphans, belief>>
    BY <1>6 DEF Background, ClockAdvances, clients, cvars
  <2> QED
    BY <1>2, <2>1, <2>2, HeldShrinks
<1>7. CASE CrashAll
  <2>1. HarmlessStep
    BY <1>7, QuietHarmless DEF CrashAll
  <2> QED
    BY <1>1, <1>2, <1>7, <2>1, HeldShrinks DEF CrashAll
<1> QED
  BY <1>3, <1>4, <1>5, <1>6, <1>7

\* A request sent about a lease that c relies on, or about none.
LEMMA SendHeld ==
  ASSUME LeaseInv, KnownInv, HeldInv, NEW c \in Holder, NEW q, NEW believed,
         Send(c, q, believed),
         \A b \in believed : \E k \in belief[c] :
           b.id = k.id /\ b.until \in Int /\ b.until <= k.until,
         q.op # "acquire" => \E k \in belief[c] : q.id = k.id,
         q.op \in {"acquire"} \cup HandsBack => believed = {},
         q.op \in Extends => \A b \in believed : b.until <= now + q.ttl
  PROVE  HeldInv'
<1> DEFINE new == [request |-> q, answer |-> NoAnswer]
<1>1. new.request = q /\ ~Succeeded(new) /\ ~Grant(new)
  BY DEF Succeeded, Grant, NoAnswer
<1>2. /\ call[c] = {}
      /\ call' = [call EXCEPT ![c] = {new}]
      /\ belief' = [belief EXCEPT ![c] = believed]
      /\ UNCHANGED <<vars, orphans>>
  BY DEF Send
<1> HIDE DEF new
<1>3. /\ call'[c] = {new} /\ belief'[c] = believed
      /\ \A d \in Holder : d # c => call'[d] = call[d] /\ belief'[d] = belief[d]
  BY <1>2 DEF KnownInv
<1>4. \A id, until : Sound(id, until)' = Sound(id, until)
  BY <1>2 DEF Sound, Revoked, vars, tables
<1>5. \A d \in Holder : \A b \in belief'[d] : \E k \in belief[d] : b.id = k.id
  BY <1>3
<1>6. SoundBeliefs'
  <2>1. ASSUME NEW b \in believed
        PROVE  Sound(b.id, b.until)
    <3>1. PICK k \in belief[c] : b.id = k.id /\ b.until \in Int /\ b.until <= k.until
      OBVIOUS
    <3>2. k.id \in DOMAIN leases /\ k.until \in Int /\ Sound(k.id, k.until)
      BY ToldLeases DEF HeldInv, SoundBeliefs
    <3>3. leases[k.id].expires_at \in Int
      BY <3>2 DEF LeaseInv, TypeOK, LeaseRow, Int64
    <3>4. now \in Int
      BY TimeType DEF LeaseInv, TypeOK, Int64
    <3>5. now < b.until => now < k.until
      BY <3>1, <3>2, <3>4
    <3>6. leases[k.id].expires_at >= k.until => leases[k.id].expires_at >= b.until
      BY <3>1, <3>2, <3>3
    <3> QED
      BY <3>1, <3>2, <3>5, <3>6 DEF Sound
  <2> QED
    BY <1>3, <1>4, <2>1 DEF HeldInv, SoundBeliefs
<1>7. SoundAnswers'
  BY <1>1, <1>3, <1>4 DEF HeldInv, SoundAnswers, Succeeded
<1>8. GrantsApart'
  <2> SUFFICES ASSUME NEW d \in Holder, NEW p \in call'[d], Grant(p)
               PROVE  GrantApart(d, p.answer.id)'
    BY DEF GrantsApart, Grant, Succeeded
  <2> DEFINE id == p.answer.id
  <2>1. d # c /\ p \in call[d]
    BY <1>1, <1>3
  <2>2. GrantApart(d, id)
    BY <2>1 DEF HeldInv, GrantsApart
  <2> HIDE DEF id
  <2>3. ~Names(q, id)
    BY <2>2 DEF GrantApart, Names
  <2>4. /\ \A e \in Holder : \A b \in belief'[e] : b.id # id
        /\ \A e \in Holder : \A o \in call'[e] : ~Names(o.request, id)
        /\ \A e \in Holder \ {d} : \A o \in call'[e] : Grant(o) => o.answer.id # id
    BY <1>1, <1>3, <1>5, <2>2, <2>3 DEF GrantApart
  <2>5. GrantApart(d, id)'
    BY <1>2, <2>2, <2>4 DEF GrantApart, Names, Grant, Succeeded
  <2> QED
    BY <2>5 DEF id
<1>9. Reckoned'
  <2>1. ASSUME NEW d \in Holder, NEW p \in call'[d]
        PROVE  ReckonsWith(d, p.request)'
    <3>1. CASE d = c
      BY <1>1, <1>2, <1>3, <3>1 DEF ReckonsWith, vars
    <3>2. CASE d # c
      BY <1>2, <1>3, <3>2 DEF HeldInv, Reckoned, ReckonsWith, vars
    <3> QED
      BY <3>1, <3>2
  <2> QED
    BY <2>1 DEF Reckoned
<1>10. OrphansApart'
  <2> SUFFICES ASSUME NEW x \in orphans, x.op \in Extends \cup HandsBack
               PROVE  /\ \A d \in Holder : \A b \in belief'[d] : b.id # x.id
                      /\ \A d \in Holder : \A p \in call'[d] : ~Names(p.request, x.id)
    BY <1>2 DEF OrphansApart, OrphanApart, Names
  <2>1. /\ \A d \in Holder : \A b \in belief[d] : b.id # x.id
        /\ \A d \in Holder : \A p \in call[d] : ~Names(p.request, x.id)
    BY DEF HeldInv, OrphansApart, OrphanApart
  <2>2. ~Names(q, x.id)
    BY <2>1 DEF Names
  <2> QED
    BY <1>1, <1>3, <1>5, <2>1, <2>2
<1> QED
  BY <1>6, <1>7, <1>8, <1>9, <1>10 DEF HeldInv

LEMMA SendersHeld ==
  ASSUME LeaseInv, KnownInv, HeldInv, NEW c \in Holder,
         SendAcquire(c) \/ SendExtension(c) \/ SendHeartbeat(c) \/ SendHandBack(c)
  PROVE  HeldInv'
<1>1. CASE SendAcquire(c)
  <2>1. PICK r \in Resource, ttl \in TTL :
          Send(c, Request("acquire", c, r, NoLease, 0, ttl, c), {})
    BY <1>1 DEF SendAcquire
  <2> DEFINE q == Request("acquire", c, r, NoLease, 0, ttl, c)
  <2>2. q.op = "acquire"
    BY DEF Request
  <2> HIDE DEF q
  <2>3. Send(c, q, {})
    BY <2>1 DEF q
  <2> QED
    BY <2>2, <2>3, SendHeld DEF Extends
<1>2. CASE SendExtension(c)
  <2>1. PICK b \in belief[c], ttl \in TTL, op \in {"renew", "ttl_update"} :
          Send(c, Request(op, c, NoResource, b.id, b.token, ttl, c),
               {[b EXCEPT !.until = Min({b.until, now + ttl})]})
    BY <1>2 DEF SendExtension
  <2> DEFINE q == Request(op, c, NoResource, b.id, b.token, ttl, c)
             m == Min({b.until, now + ttl})
             k == [b EXCEPT !.until = m]
  <2>2. q.op \in Extends /\ q.id = b.id /\ q.ttl = ttl
    BY DEF Request, Extends
  <2>3. b \in Claim
    BY DEF KnownInv, Known
  <2>4. m \in Int /\ m <= b.until /\ m <= now + ttl
    <3>1. b.until \in Int /\ now + ttl \in Int
      BY <2>3, TimeType DEF Claim, LeaseInv, TypeOK, Int64
    <3> QED
      BY <3>1, MinOfTwo
  <2>5. Send(c, q, {k})
    BY <2>1
  <2> HIDE DEF m, q
  <2>6. k.id = b.id /\ k.until = m
    BY <2>3 DEF Claim
  <2> HIDE DEF k
  <2>7. q.op # "acquire" /\ q.op \notin {"acquire"} \cup HandsBack
    BY <2>2 DEF Extends, HandsBack
  <2> QED
    BY <2>2, <2>4, <2>5, <2>6, <2>7, SendHeld
<1>3. CASE SendHeartbeat(c)
  <2>1. PICK b \in belief[c] :
          Send(c, Request("heartbeat", c, NoResource, b.id, b.token, 0, c), {b})
    BY <1>3 DEF SendHeartbeat
  <2> DEFINE q == Request("heartbeat", c, NoResource, b.id, b.token, 0, c)
  <2>2. q.op = "heartbeat" /\ q.id = b.id
    BY DEF Request
  <2>3. b.until \in Int /\ b.until <= b.until
    BY ToldLeases
  <2> HIDE DEF q
  <2>4. Send(c, q, {b})
    BY <2>1 DEF q
  <2>5. q.op \notin {"acquire"} \cup HandsBack /\ q.op \notin Extends
    BY <2>2 DEF HandsBack, Extends
  <2> QED
    BY <2>2, <2>3, <2>4, <2>5, SendHeld
<1>4. CASE SendHandBack(c)
  <2>1. PICK b \in belief[c], op \in {"release", "transfer"}, to \in Holder :
          Send(c, Request(op, c, NoResource, b.id, b.token, 0, to), {})
    BY <1>4 DEF SendHandBack
  <2> DEFINE q == Request(op, c, NoResource, b.id, b.token, 0, to)
  <2>2. q.id = b.id
    BY DEF Request
  <2> HIDE DEF q
  <2>3. Send(c, q, {})
    BY <2>1 DEF q
  <2> QED
    BY <2>2, <2>3, SendHeld
<1> QED
  BY <1>1, <1>2, <1>3, <1>4

\* The answer a to the open call of c is written.  It says what is so, and what
\* it grants is new.
LEMMA AnswerHeld ==
  ASSUME LeaseInv, KnownInv, HeldInv, [AnyNext]_vars, Moves,
         NEW c \in Holder, NEW open \in call[c], NEW a,
         call' = [call EXCEPT ![c] = {[open EXCEPT !.answer = a]}],
         UNCHANGED <<orphans, belief>>,
         \A d \in Holder :
           /\ \A b \in belief[d] : Harmless(b.id, b.until)
           /\ d # c => \A p \in call[d] : Succeeded(p) /\ p.request.op \in Tells =>
                         Harmless(p.answer.id, p.answer.until),
         a.outcome = "ok" /\ open.request.op \in Tells =>
           /\ Sound(a.id, a.until)'
           /\ IF open.request.op \in Extends THEN a.id = open.request.id
                                             ELSE a.id \notin DOMAIN leases
  PROVE  HeldInv'
<1> DEFINE q == open.request
           new == [request |-> q, answer |-> a]
<1>1. new.request = q /\ new.answer = a
  OBVIOUS
<1>2. [open EXCEPT !.answer = a] = new
  BY DEF KnownInv, OpenCall
<1>3. Fits(q)
  BY ToldLeases
<1> HIDE DEF new
<1>4. /\ call'[c] = {new}
      /\ \A d \in Holder : d # c => call'[d] = call[d]
  BY <1>2 DEF KnownInv
<1>5. \A d \in Holder : \A p \in call'[d] : \E o \in call[d] : p.request = o.request
  BY <1>1, <1>4
<1>6. SoundBeliefs'
  BY SoundStep DEF SoundBeliefs
<1>7. SoundAnswers'
  <2>1. ASSUME NEW d \in Holder, NEW p \in call'[d], Succeeded(p)
        PROVE  /\ p.request.op \in Tells => Sound(p.answer.id, p.answer.until)'
               /\ p.request.op \in Extends => p.answer.id = p.request.id
    <3>1. CASE d = c
      <4>1. p.request = q /\ p.answer = a
        BY <1>1, <1>4, <3>1
      <4>2. a.outcome = "ok"
        BY <2>1, <4>1 DEF Succeeded
      <4>3. q.op \in Tells => Sound(p.answer.id, p.answer.until)'
        BY <4>1, <4>2
      <4>4. q.op \in Extends => a.id = q.id
        BY <4>2 DEF Extends, Tells
      <4> QED
        BY <4>1, <4>3, <4>4
    <3>2. CASE d # c
      <4>1. p \in call[d]
        BY <1>4, <3>2
      <4>2. p.request.op \in Tells => Sound(p.answer.id, p.answer.until)'
        BY <2>1, <3>2, <4>1, SoundStep
      <4> QED
        BY <2>1, <4>1, <4>2 DEF HeldInv, SoundAnswers
    <3> QED
      BY <3>1, <3>2
  <2> QED
    BY <2>1 DEF SoundAnswers, Succeeded
<1>8. Grant(new) => a.id \notin DOMAIN leases
  BY <1>1 DEF Grant, Succeeded, Tells, Extends
<1>9. GrantsApart'
  <2> SUFFICES ASSUME NEW d \in Holder, NEW p \in call'[d], Grant(p)
               PROVE  GrantApart(d, p.answer.id)'
    BY DEF GrantsApart, Grant, Succeeded
  <2> DEFINE id == p.answer.id
  <2>1. /\ \A e \in Holder : \A b \in belief[e] : b.id # id
        /\ \A e \in Holder : \A o \in call[e] : ~Names(o.request, id)
        /\ \A x \in orphans : ~Names(x, id)
        /\ \A e \in Holder \ {d} : \A o \in call'[e] : Grant(o) => o.answer.id # id
    <3>1. CASE d = c
      <4>1. id = a.id /\ id \notin DOMAIN leases
        BY <1>1, <1>4, <1>8, <3>1
      <4>2. \A e \in Holder : \A o \in call[e] : Grant(o) => o.answer.id \in DOMAIN leases
        BY ToldLeases DEF Grant, Tells
      <4>3. \A x \in orphans : x.op # "acquire" => x.id \in DOMAIN leases
        BY DEF KnownInv, Fits
      <4> HIDE DEF id
      <4>4. \A e \in Holder \ {d} : \A o \in call'[e] : Grant(o) => o.answer.id # id
        BY <1>4, <3>1, <4>1, <4>2
      <4>5. /\ \A e \in Holder : \A b \in belief[e] : b.id # id
            /\ \A e \in Holder : \A o \in call[e] : ~Names(o.request, id)
        BY <4>1, ToldLeases DEF Names
      <4> QED
        BY <4>1, <4>3, <4>4, <4>5 DEF Names
    <3>2. CASE d # c
      <4>1. p \in call[d]
        BY <1>4, <3>2
      <4>2. GrantApart(d, id) /\ id \in DOMAIN leases
        BY <4>1, ToldLeases DEF HeldInv, GrantsApart, Grant, Tells
      <4> HIDE DEF id
      <4>3. Grant(new) => new.answer.id # id
        BY <1>1, <1>8, <4>2
      <4> QED
        BY <1>4, <4>2, <4>3 DEF GrantApart
    <3> QED
      BY <3>1, <3>2
  <2> HIDE DEF id
  <2>2. \A e \in Holder : \A o \in call'[e] : ~Names(o.request, id)
    BY <1>5, <2>1
  <2>3. GrantApart(d, id)'
    BY <2>1, <2>2 DEF GrantApart, Names, Grant, Succeeded
  <2> QED
    BY <2>3 DEF id
<1>10. Reckoned'
  <2>1. ASSUME NEW d \in Holder, NEW p \in call'[d]
        PROVE  ReckonsWith(d, p.request)'
    <3>1. PICK o \in call[d] : p.request = o.request
      BY <1>5
    <3>2. ReckonsWith(d, o.request) /\ Fits(o.request)
      BY ToldLeases DEF HeldInv, Reckoned
    <3>3. belief'[d] \subseteq belief[d]
      OBVIOUS
    <3>4. ReckonsWith(d, o.request)'
      BY <3>2, <3>3, ReckonsKept
    <3> QED
      BY <3>1, <3>4 DEF ReckonsWith
  <2> QED
    BY <2>1 DEF Reckoned
<1>11. OrphansApart'
  BY <1>5 DEF HeldInv, OrphansApart, OrphanApart, Names
<1> QED
  BY <1>6, <1>7, <1>9, <1>10, <1>11 DEF HeldInv

LEMMA ExecuteHeld ==
  ASSUME DeadlinesFit, LeaseInv, KnownInv, HeldInv, [AnyNext]_vars, Moves,
         NEW c \in Holder, Execute(c) \/ ExecuteFails(c) \/ PollTimesOut(c)
  PROVE  HeldInv'
<1>1. CASE Execute(c)
  <2>0. PICK open \in call[c] :
          /\ Serve(open.request)
          /\ call' = [call EXCEPT ![c] = {[open EXCEPT !.answer = Response(open.request)]}]
          /\ UNCHANGED <<orphans, belief>>
    BY <1>1 DEF Execute
  <2>7. PICK a : a = Response(open.request)
    OBVIOUS
  <2>1. /\ Serve(open.request)
        /\ a = Response(open.request)
        /\ call' = [call EXCEPT ![c] = {[open EXCEPT !.answer = a]}]
        /\ UNCHANGED <<orphans, belief>>
    BY <2>0, <2>7
  <2> DEFINE q == open.request
  <2>2. Fits(q)
    BY ToldLeases
  <2>3. \A d \in Holder :
          /\ \A b \in belief[d] : Harmless(b.id, b.until)
          /\ d # c => \A p \in call[d] : Succeeded(p) /\ p.request.op \in Tells =>
                        Harmless(p.answer.id, p.answer.until)
    <3>1. CASE Served(q)
      BY <3>1, CallHarmless
    <3>2. CASE UNCHANGED vars
      BY <3>2, QuietHarmless DEF HarmlessStep
    <3> QED
      BY <2>1, <3>1, <3>2 DEF Serve
  <2>4. ASSUME a.outcome = "ok", q.op \in Tells
        PROVE  /\ Sound(a.id, a.until)'
               /\ IF q.op \in Extends THEN a.id = q.id ELSE a.id \notin DOMAIN leases
    <3>1. ResultOf(q) = "ok"
      BY <2>1, <2>4 DEF Response, Refusal
    <3>2. /\ Known(ToldTo(q), Lease(a))'
          /\ leases'[a.id].status = "active"
          /\ leases'[a.id].expires_at = a.until
          /\ IF q.op \in Extends THEN a.id = q.id ELSE a.id \notin DOMAIN leases
      BY <2>1, <2>2, <2>4, <3>1, Reply
    <3>3. a.until \in Int
      BY <3>2 DEF Known, Claim, Lease
    <3> QED
      BY <3>2, <3>3 DEF Sound
  <2> QED
    BY <2>1, <2>3, <2>4, AnswerHeld
<1>2. CASE ExecuteFails(c) \/ PollTimesOut(c)
  <2>1. PICK open \in call[c], outcome \in {"other", "ErrTimeout"} :
          /\ call' = [call EXCEPT ![c] = {[open EXCEPT !.answer = Refusal(outcome)]}]
          /\ UNCHANGED <<vars, orphans, belief>>
    BY <1>2 DEF ExecuteFails, PollTimesOut
  <2>2. Refusal(outcome).outcome # "ok"
    BY DEF Refusal
  <2>3. HarmlessStep
    BY <2>1, QuietHarmless
  <2> QED
    BY <2>1, <2>2, <2>3, AnswerHeld DEF HarmlessStep
<1> QED
  BY <1>1, <1>2

\* Whoever comes to rely on a lease has no other call open.
LEMMA ReceiveHeld ==
  ASSUME LeaseInv, KnownInv, HeldInv, NEW c \in Holder, Receive(c)
  PROVE  HeldInv'
<1>1. DOMAIN call = Holder /\ DOMAIN belief = Holder
  BY DEF KnownInv
<1>2. PICK open \in call[c] :
        /\ call' = [call EXCEPT ![c] = {}]
        /\ belief' =
             IF open.request.op = "transfer" /\ open.answer.outcome = "ok"
             THEN [belief EXCEPT ![open.request.to] =
                     IF @ = {} /\ call[open.request.to] \in {{}, {open}}
                     THEN {Lease(open.answer)} ELSE @]
             ELSE [belief EXCEPT ![c] = Learned(open.request, open.answer)]
        /\ UNCHANGED <<vars, orphans>>
  BY DEF Receive
<1> DEFINE q == open.request
           a == open.answer
           told == Succeeded(open) /\ q.op \in Tells
<1>3. q.by = c
  BY ToldLeases
<1>4. /\ call'[c] = {}
      /\ \A d \in Holder : d # c => call'[d] = call[d]
  BY <1>1, <1>2
<1>5. \A d \in Holder : \A b \in belief'[d] :
        b \in belief[d] \/ (told /\ b = Lease(a) /\ call'[d] = {})
  <2>1. CASE q.op = "transfer" /\ a.outcome = "ok"
    <3>1. told
      BY <2>1 DEF Succeeded, Tells
    <3>2. \A d \in Holder : d # q.to => belief'[d] = belief[d]
      BY <1>1, <1>2, <2>1
    <3>3. CASE q.to \in Holder /\ call[q.to] \in {{}, {open}}
      <4>1. belief'[q.to] \subseteq belief[q.to] \cup {Lease(a)}
        BY <1>1, <1>2, <2>1, <3>3
      <4>2. call'[q.to] = {}
        BY <1>3, <1>4, <3>3, ToldLeases
      <4> QED
        BY <3>1, <3>2, <4>1, <4>2
    <3>4. CASE ~(q.to \in Holder /\ call[q.to] \in {{}, {open}})
      BY <1>1, <1>2, <2>1, <3>2, <3>4
    <3> QED
      BY <3>3, <3>4
  <2>2. CASE ~(q.op = "transfer" /\ a.outcome = "ok")
    <3>1. \A k \in Learned(q, a) : k \in belief[c] \/ (told /\ k = Lease(a))
      <4>1. CASE a.outcome = "ok" /\ q.op \in {"acquire", "renew", "ttl_update"}
        BY <4>1 DEF Learned, Succeeded, Tells
      <4>2. CASE ~(a.outcome = "ok" /\ q.op \in {"acquire", "renew", "ttl_update"})
        BY <1>3, <4>2 DEF Learned
      <4> QED
        BY <4>1, <4>2
    <3>2. belief' = [belief EXCEPT ![c] = Learned(q, a)]
      BY <1>2, <2>2
    <3> HIDE DEF told
    <3> QED
      BY <1>1, <1>4, <3>1, <3>2
  <2> QED
    BY <2>1, <2>2
<1>6. Lease(a).id = a.id /\ Lease(a).until = a.until
  BY DEF Lease
<1>7. told => (q.op \in Extends /\ a.id = q.id) \/ Grant(open)
  BY DEF HeldInv, SoundAnswers, Grant, Tells, Extends
<1>8. \A id, until : Sound(id, until)' = Sound(id, until)
  BY <1>2 DEF Sound, Revoked, vars, tables
<1>9. SoundBeliefs'
  <2>1. told => Sound(a.id, a.until)
    BY DEF HeldInv, SoundAnswers
  <2> HIDE DEF told
  <2> QED
    BY <1>5, <1>6, <1>8, <2>1 DEF HeldInv, SoundBeliefs
<1>10. SoundAnswers'
  BY <1>4, <1>8 DEF HeldInv, SoundAnswers, Succeeded
<1>11. GrantsApart'
  <2> SUFFICES ASSUME NEW d \in Holder, NEW p \in call'[d], Grant(p)
               PROVE  GrantApart(d, p.answer.id)'
    BY DEF GrantsApart, Grant, Succeeded
  <2> DEFINE id == p.answer.id
  <2>1. d # c /\ p \in call[d]
    BY <1>4
  <2>2. GrantApart(d, id)
    BY <2>1 DEF HeldInv, GrantsApart
  <2> HIDE DEF id
  <2>3. told => a.id # id
    <3>1. CASE Grant(open)
      BY <2>1, <2>2, <3>1 DEF GrantApart
    <3>2. CASE q.op \in Extends /\ a.id = q.id
      BY <2>2, <3>2 DEF GrantApart, Names, Extends
    <3> QED
      BY <1>7, <3>1, <3>2
  <2> HIDE DEF told
  <2>4. \A e \in Holder : \A b \in belief'[e] : b.id # id
    BY <1>5, <1>6, <2>2, <2>3 DEF GrantApart
  <2>5. GrantApart(d, id)'
    BY <1>2, <1>4, <2>2, <2>4 DEF GrantApart, Names, Grant, Succeeded
  <2> QED
    BY <2>5 DEF id
<1>12. Reckoned'
  <2>1. ASSUME NEW d \in Holder, NEW p \in call'[d]
        PROVE  ReckonsWith(d, p.request)'
    <3>1. p \in call[d] /\ belief'[d] \subseteq belief[d]
      BY <1>4, <1>5
    <3>2. ReckonsWith(d, p.request) /\ UNCHANGED now
      BY <1>2, <3>1 DEF HeldInv, Reckoned, vars
    <3> QED
      BY <3>1, <3>2 DEF ReckonsWith
  <2> QED
    BY <2>1 DEF Reckoned
<1>13. OrphansApart'
  <2> SUFFICES ASSUME NEW x \in orphans, x.op \in Extends \cup HandsBack
               PROVE  /\ \A d \in Holder : \A b \in belief'[d] : b.id # x.id
                      /\ \A d \in Holder : \A p \in call'[d] : ~Names(p.request, x.id)
    BY <1>2 DEF OrphansApart, OrphanApart, Names
  <2>1. /\ \A d \in Holder : \A b \in belief[d] : b.id # x.id
        /\ \A d \in Holder : \A p \in call[d] : ~Names(p.request, x.id)
    BY DEF HeldInv, OrphansApart, OrphanApart
  <2>2. told => a.id # x.id
    <3>1. CASE Grant(open)
      BY <3>1 DEF HeldInv, GrantsApart, GrantApart, Names, Extends, HandsBack
    <3>2. CASE q.op \in Extends /\ a.id = q.id
      BY <2>1, <3>2 DEF Names, Extends
    <3> QED
      BY <1>7, <3>1, <3>2
  <2> HIDE DEF told
  <2> QED
    BY <1>4, <1>5, <1>6, <2>1, <2>2
<1> QED
  BY <1>9, <1>10, <1>11, <1>12, <1>13 DEF HeldInv

LEMMA StepHeld ==
  ASSUME DeadlinesFit, ~BackwardClock, LeaseInv, KnownInv, HeldInv, [ClientsNext]_cvars
  PROVE  HeldInv'
<1>1. ~ClockSetBack
  BY DEF ClockSetBack, ClockBack
<1>2. Moves /\ [AnyNext]_vars
  BY <1>1, ClientsMove
<1>3. ASSUME NEW c \in Holder, ClientStep(c)
      PROVE  HeldInv'
  <2>1. CASE SendAcquire(c) \/ SendExtension(c) \/ SendHeartbeat(c) \/ SendHandBack(c)
    BY <2>1, SendersHeld
  <2>2. CASE LetGo(c) \/ GiveUp(c)
    BY <1>2, <2>2, QuietHeld
  <2>3. CASE Execute(c) \/ ExecuteFails(c) \/ PollTimesOut(c)
    BY <1>2, <2>3, ExecuteHeld
  <2> QED
    BY <1>3, <2>1, <2>2, <2>3, ReceiveHeld DEF ClientStep
<1> QED
  BY <1>1, <1>2, <1>3, QuietHeld DEF ClientsNext

LEMMA InitHeld == ClientsInit => HeldInv
BY DEF ClientsInit, HeldInv, SoundBeliefs, SoundAnswers, GrantsApart, Reckoned, OrphansApart

\* Whatever answers are lost or late and whatever abandoned calls still run, the
\* lease that a careful client relies on is the active one, in its name, under
\* its token and not due before the deadline that it was last told.  A deadline
\* must fit into int64: one that wraps is already past.  HolderIsProtected speaks
\* of a clock that nobody sets back.
THEOREM HoldersProtected ==
  ASSUME DeadlinesFit
  PROVE  ClientsSpec => []HolderIsProtected
<1> DEFINE HeldIf == ~BackwardClock => HeldInv
<1>1. ClientsInit => HeldIf
  BY InitHeld
<1>2. LeaseInv /\ KnownInv /\ HeldIf /\ [ClientsNext]_cvars => HeldIf'
  BY DeadlinesFit, StepHeld
<1>3. (LeaseInv /\ KnownInv) /\ HeldIf => HolderIsProtected
  BY HeldProtects
<1> HIDE DEF HeldIf
<1> QED
  BY <1>1, <1>2, <1>3, ClientsInvariant, PTL DEF ClientsSpec

=============================================================================
