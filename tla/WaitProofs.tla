----------------------------- MODULE WaitProofs -----------------------------
(***************************************************************************)
(* Theorems about a request that waits, for any number of waiters and of   *)
(* other clients: a waiter is only another client of the manager, and its  *)
(* answer says truly whether it has acquired a lease.                      *)
(***************************************************************************)
EXTENDS WaitProperties, LeaseLogProofs

USE StoreAssumption, ManagerAssumption, WaitAssumption

-----------------------------------------------------------------------------
(* Types *)

\* What a pending request asks for was validated when it arrived.
Valid ==
  \A w \in Waiter : pc[w] \in Pending =>
    req[w].resource \in Resource /\ req[w].ttl \in TTL

WaitTypes == WaitTypeOK /\ Valid

LEMMA SumType ==
  ASSUME NEW a \in 0 .. MaxInt64, NEW b \in 0 .. MaxInt64
  PROVE  Add64(a, b) \in Int64
BY DEF Add64, Int64

LEMMA SleepType ==
  ASSUME NEW interval \in Int64
  PROVE  SleepSecs(interval) \in Nat
<1> DEFINE size == 2 * (MaxInt64 + 1)
           p == interval * Second
           d == ((p + MaxInt64 + 1) % size) - (MaxInt64 + 1)
<1>1. p \in Int /\ size \in Nat /\ size > 0
  BY DEF Int64
<1> HIDE DEF p
<1>2. d \in Int
  BY <1>1
<1> HIDE DEF d
<1>3. IF d <= 0 THEN 0 \in Nat ELSE d \div Second \in Nat
  BY <1>2
<1>4. SleepSecs(interval) = IF d <= 0 THEN 0 ELSE d \div Second
  BY DEF SleepSecs, d, p, size
<1> QED
  BY <1>3, <1>4

LEMMA ArriveType ==
  ASSUME TypeOK, WaitTypes, NEW w \in Waiter, Arrive(w)
  PROVE  WaitTypes'
<1>1. PICK r \in Resource, ttl \in TTL, t \in TimeoutSecs, i \in PollInterval :
        /\ IF ValidTTL(ttl)
           THEN /\ Goto(w, "check")
                /\ req' = [req EXCEPT ![w] =
                     [resource |-> r, ttl |-> ttl, timeout |-> Timeout(t),
                      interval |-> Interval(i, Timeout(t))]]
                /\ deadline' = [deadline EXCEPT ![w] = Add64(now, Timeout(t))]
           ELSE Goto(w, "failed") /\ UNCHANGED <<req, deadline>>
        /\ UNCHANGED <<vars, left, gone, late>>
  BY DEF Arrive
<1>2. Timeout(t) \in Int64 /\ Timeout(t) \in Nat
  BY DEF Timeout, Int64
<1>3. Interval(i, Timeout(t)) \in Int64
  BY <1>2 DEF Interval, Int64
<1>4. Add64(now, Timeout(t)) \in Int64
  <2>1. Timeout(t) \in 0 .. MaxInt64 /\ now \in 0 .. MaxInt64
    BY <1>2 DEF TypeOK, Time, Int64
  <2> QED
    BY <2>1, SumType
<1>5. ttl \in Int64
  OBVIOUS
<1>6. CASE ValidTTL(ttl)
  <2> DEFINE request == [resource |-> r, ttl |-> ttl, timeout |-> Timeout(t),
                         interval |-> Interval(i, Timeout(t))]
  <2>1. /\ request \in [resource : Resource \cup {NoResource}, ttl : Int64,
                        timeout : Int64, interval : Int64]
        /\ request.resource \in Resource
        /\ request.ttl \in TTL
    BY <1>2, <1>3, <1>5
  <2> HIDE DEF request
  <2>2. /\ pc' = [pc EXCEPT ![w] = "check"]
        /\ req' = [req EXCEPT ![w] = request]
    BY <1>1, <1>6 DEF Goto, request
  <2> QED
    BY <1>1, <1>4, <1>6, <2>1, <2>2
    DEF WaitTypes, WaitTypeOK, Valid, Pending, Running, Ended
<1>7. CASE ~ValidTTL(ttl)
  BY <1>1, <1>7 DEF WaitTypes, WaitTypeOK, Valid, Goto, Pending, Running, Ended
<1> QED
  BY <1>6, <1>7

LEMMA WaiterType ==
  ASSUME WaitTypes, NEW w \in Waiter, WaiterStep(w) \/ Cancel(w)
  PROVE  WaitTypes'
<1> USE DEF WaitTypes, WaitTypeOK, Valid, Pending, Running, Ended
<1>1. CASE Check(w)
  BY <1>1 DEF Check, Goto
<1>2. CASE Attempt(w)
  BY <1>2 DEF Attempt, Goto
<1>3. CASE Return(w)
  BY <1>3 DEF Return, Goto
<1>4. CASE Decide(w)
  <2>1. SleepSecs(req[w].interval) \in Nat
    BY SleepType
  <2> QED
    BY <1>4, <2>1 DEF Decide, Goto
<1>5. CASE Wake(w)
  BY <1>5 DEF Wake, Goto
<1>6. CASE Cancel(w)
  BY <1>6 DEF Cancel
<1> QED
  BY <1>1, <1>2, <1>3, <1>4, <1>5, <1>6 DEF WaiterStep

LEMMA AroundType ==
  ASSUME WaitTypes, Others \/ Kill \/ Tick \/ Adjust \/ UNCHANGED wvars
  PROVE  WaitTypes'
<1> USE DEF WaitTypes, WaitTypeOK, Valid
<1>1. CASE Others \/ UNCHANGED wvars
  BY <1>1 DEF Others, wvars, waiters
<1>2. CASE Kill
  BY <1>2 DEF Kill, Pending, Running, Ended
<1>3. CASE Tick
  <2>1. left' \in [Waiter -> Nat]
    BY <1>3 DEF Tick, Asleep
  <2>2. late' \in BOOLEAN
    BY <1>3 DEF Tick
  <2> QED
    BY <1>3, <2>1, <2>2 DEF Tick
<1>4. CASE Adjust
  <2>1. late' \in BOOLEAN
    BY <1>4 DEF Adjust
  <2> QED
    BY <1>4, <2>1 DEF Adjust
<1> QED
  BY <1>1, <1>2, <1>3, <1>4

LEMMA WaitStepType ==
  ASSUME TypeOK, WaitTypes, [WaitNext]_wvars
  PROVE  WaitTypes'
BY ArriveType, WaiterType, AroundType DEF WaitNext

-----------------------------------------------------------------------------
(* A waiter is a client like the others *)

LEMMA AttemptCases ==
  ASSUME NEW w \in Waiter, Attempt(w)
  PROVE  \/ /\ \E id \in LeaseId : Acquire(req[w].resource, w, req[w].ttl, id)
            /\ pc' = [pc EXCEPT ![w] = "acquired"]
         \/ /\ UNCHANGED vars
            /\ \E label \in {"refused", "failed"} : pc' = [pc EXCEPT ![w] = label]
BY DEF Attempt, Goto

LEMMA WaitStep ==
  ASSUME TypeOK, WaitTypes, [WaitNext]_wvars
  PROVE  [Next]_vars
<1>1. CASE UNCHANGED vars
  BY <1>1
<1>2. ASSUME NEW w \in Waiter, Arrive(w) \/ WaiterStep(w) \/ Cancel(w)
      PROVE  [Next]_vars
  <2>1. CASE Attempt(w)
    <3>1. pc[w] = "attempt"
      BY <2>1 DEF Attempt
    <3>2. req[w].resource \in Resource /\ req[w].ttl \in TTL /\ w \in Holder
      BY <3>1 DEF WaitTypes, Valid, Pending, Running
    <3> QED
      BY <1>1, <2>1, <3>2, AttemptCases DEF Next, AcquireRequest
  <2> QED
    BY <1>1, <1>2, <2>1 DEF Arrive, WaiterStep, Check, Return, Decide, Wake, Cancel
<1>3. CASE Others
  BY <1>3 DEF Others, Next, AcquireRequest
<1>4. CASE Kill
  BY <1>4 DEF Kill, Next
<1>5. CASE Tick
  <2>1. CASE now < MaxTime
    <3>1. now + 1 \in Time /\ now + 1 > now
      BY <2>1 DEF TypeOK, Time
    <3> QED
      BY <1>5, <2>1, <3>1 DEF Tick, Next, ClockForward
  <2>2. CASE ~(now < MaxTime)
    BY <1>1, <1>5, <2>2 DEF Tick, vars
  <2> QED
    BY <2>1, <2>2
<1>6. CASE Adjust
  BY <1>6 DEF Adjust, Next
<1> QED
  BY <1>1, <1>2, <1>3, <1>4, <1>5, <1>6 DEF WaitNext, wvars

LEMMA WaitInitial == WaitInit => LeaseInv /\ WaitTypes
<1> SUFFICES ASSUME WaitInit PROVE LeaseInv /\ WaitTypes
  OBVIOUS
<1>1. LeaseInv
  BY InitInv DEF WaitInit
<1>2. 0 \in Int64
  BY DEF Int64
<1>3. NoRequest \in [resource : Resource \cup {NoResource}, ttl : Int64,
                     timeout : Int64, interval : Int64]
  BY <1>2 DEF NoRequest
<1>4. WaitTypeOK
  BY <1>2, <1>3 DEF WaitInit, WaitTypeOK
<1>5. Valid
  BY DEF WaitInit, Valid, Pending, Running
<1> QED
  BY <1>1, <1>4, <1>5 DEF WaitTypes

\* The labels, requests, deadlines and sleeps of the waiters are well typed.
THEOREM WaitTypeCorrect == WaitSpec => []WaitTypeOK
<1>1. LeaseInv /\ WaitTypes /\ [WaitNext]_wvars => LeaseInv' /\ WaitTypes'
  BY WaitStepType, WaitStep, StepInv DEF LeaseInv
<1>2. WaitTypes => WaitTypeOK
  BY DEF WaitTypes
<1> QED
  BY WaitInitial, <1>1, <1>2, PTL DEF WaitSpec

\* What is proved of LeaseManager holds of it with requests that wait.
THEOREM WaitImplements == WaitSpec => Spec
<1>1. LeaseInv /\ WaitTypes /\ [WaitNext]_wvars => LeaseInv' /\ WaitTypes'
  BY WaitStepType, WaitStep, StepInv DEF LeaseInv
<1>2. LeaseInv /\ WaitTypes /\ [WaitNext]_wvars => [Next]_vars
  BY WaitStep DEF LeaseInv
<1>3. WaitInit => Init
  BY DEF WaitInit
<1> QED
  BY WaitInitial, <1>1, <1>2, <1>3, PTL DEF WaitSpec, Spec

-----------------------------------------------------------------------------
(* At most one lease for a request, and a truthful answer *)

\* No step deletes a lease or changes whose it is.
HoldersKept ==
  \A id \in DOMAIN leases :
    id \in DOMAIN leases' /\ leases'[id].holder = leases[id].holder

LEMMA SetStatusKeeps ==
  ASSUME TypeOK, NEW ids, NEW status, NEW id \in DOMAIN leases
  PROVE  /\ DOMAIN SetLeaseStatus(leases, ids, "active", status) = DOMAIN leases
         /\ SetLeaseStatus(leases, ids, "active", status)[id].holder
              = leases[id].holder
BY DEF SetLeaseStatus, TypeOK, LeaseRow

LEMMA EndKeepsHolders ==
  ASSUME TypeOK, NEW ids, NEW status,
         \/ leases' = SetLeaseStatus(leases, ids, "active", status)
         \/ \E new, row :
              /\ new \notin DOMAIN leases
              /\ leases' = InsertLease(
                   SetLeaseStatus(leases, ids, "active", status), new, row)
  PROVE  HoldersKept
<1> DEFINE tbl == SetLeaseStatus(leases, ids, "active", status)
<1>1. \A id \in DOMAIN leases :
        id \in DOMAIN tbl /\ tbl[id].holder = leases[id].holder
  BY SetStatusKeeps
<1> HIDE DEF tbl
<1>2. leases' = tbl \/ \E new, row : /\ new \notin DOMAIN leases
                                     /\ leases' = InsertLease(tbl, new, row)
  BY DEF tbl
<1> QED
  BY <1>1, <1>2 DEF HoldersKept, InsertLease

LEMMA WriteKeepsHolders ==
  ASSUME TypeOK, NEW id, NEW token, NEW ttl, NEW action,
         Extend(id, ttl, action) \/ Heartbeat(id, token)
  PROVE  HoldersKept
<1>1. CASE Extend(id, ttl, action)
  <2>1. leases' = UpdateLeaseExpiry(leases, id, ttl, Add64(now, ttl), now)
    BY <1>1 DEF Extend
  <2> QED
    BY <2>1 DEF UpdateLeaseExpiry, TypeOK, LeaseRow, HoldersKept
<1>2. CASE Heartbeat(id, token)
  BY <1>2 DEF Heartbeat, UpdateLeaseHeartbeat, TypeOK, LeaseRow, HoldersKept
<1> QED
  BY <1>1, <1>2

LEMMA StepKeepsHolders ==
  ASSUME LeaseInv, [Next]_vars
  PROVE  HoldersKept
<1> USE DEF LeaseInv
<1>1. CASE UNCHANGED leases
  BY <1>1 DEF HoldersKept
<1>2. ASSUME NEW r, NEW id, NEW row, NEW status, Grants(r, id, row, status)
      PROVE  HoldersKept
  BY <1>2, EndKeepsHolders DEF Grants
<1>3. ASSUME NEW id, NEW action, Retire(id, action)
      PROVE  HoldersKept
  BY <1>3, EndKeepsHolders DEF Retire
<1>4. CASE AcquireRequest
  BY <1>2, <1>4, AcquireGrants DEF AcquireRequest
<1>5. CASE LeaseRequest
  BY <1>1, <1>2, <1>3, <1>5, TransferGrants, WriteKeepsHolders
  DEF LeaseRequest, Renew, UpdateTTL, Release, vars, tables
<1>6. CASE AdminRequest
  BY <1>1, <1>3, <1>6
  DEF AdminRequest, ForceRelease, LockResource, UnlockResource, SetLock, vars, tables
<1>7. CASE Sweep \/ Recover
  BY <1>7, EndKeepsHolders DEF Sweep, Recover, SweepCommit
<1>8. CASE AuditRecover \/ Restart \/ ClockForward \/ ClockBack \/ UNCHANGED vars
  BY <1>1, <1>8 DEF AuditRecover, Restart, ClockForward, ClockBack, vars, tables
<1> QED
  BY <1>4, <1>5, <1>6, <1>7, <1>8 DEF Next

\* An acquire in the log is of a lease in the table.
AcquiresKnown ==
  \A i \in DOMAIN audit : audit[i].action = "acquire" => audit[i].lease_id \in DOMAIN leases

OnceInv == AcquiresKnown /\ WaitAcquiresOnce

\* Steps that log no acquire leave the acquires of everybody alone.
LEMMA AcquiresKept ==
  ASSUME LeaseInv, [Next]_vars, AcquiresKnown, LogGrows,
         \A i \in Len(audit) + 1 .. Len(audit') : audit'[i].action # "acquire"
  PROVE  AcquiresKnown' /\ \A w \in Waiter : Acquires(w)' = Acquires(w)
<1>1. HoldersKept
  BY StepKeepsHolders
<1>2. /\ Len(audit) \in Nat /\ Len(audit') \in Nat /\ Len(audit) <= Len(audit')
      /\ DOMAIN audit = 1 .. Len(audit)
      /\ DOMAIN audit' = 1 .. Len(audit')
      /\ \A i \in DOMAIN audit : audit'[i] = audit[i]
  BY DEF LogGrows, LeaseInv, TypeOK
<1>3. \A i \in DOMAIN audit' :
        audit'[i].action = "acquire" => i \in DOMAIN audit /\ audit'[i] = audit[i]
  BY <1>2
<1>4. DOMAIN audit \subseteq DOMAIN audit'
  BY <1>2
<1>5. AcquiresKnown'
  BY <1>1, <1>3 DEF AcquiresKnown, HoldersKept
<1>6. ASSUME NEW w \in Waiter
      PROVE  Acquires(w)' = Acquires(w)
  BY <1>1, <1>2, <1>3, <1>4 DEF AcquiresKnown, HoldersKept, Acquires
<1> QED
  BY <1>5, <1>6

\* An acquire by h adds one row to the acquires of h and to those of nobody else.
LEMMA AcquiresAdded ==
  ASSUME LeaseInv, AcquiresKnown, NEW r \in Resource, NEW h \in Holder,
         NEW ttl \in TTL, NEW id \in LeaseId, Acquire(r, h, ttl, id)
  PROVE  /\ AcquiresKnown'
         /\ \A w \in Waiter \ {h} : Acquires(w)' = Acquires(w)
         /\ h \in Waiter => Acquires(h)' = Acquires(h) \cup {Len(audit')}
<1>1. [Next]_vars
  BY DEF Next, AcquireRequest
<1>2. HoldersKept /\ LogGrows
  BY <1>1, StepKeepsHolders, StepGrows
<1>3. PICK e \in GrantRow :
        AppendsGrant(e) /\ e.action = "acquire" /\ e.lease_id = id /\ e.resource = r
  BY AcquireAppends
<1>4. id \in DOMAIN leases' /\ leases'[id].holder = h
  BY AcquireAppends
<1>5. Counter(r)' = NextToken(r)
  BY GrantCounter DEF Acquire
<1>6. /\ Len(audit') > Len(audit)
      /\ audit'[Len(audit')] = e
      /\ \A i \in Len(audit) + 1 .. Len(audit') - 1 : audit'[i] \in PlainRow
  BY <1>3, <1>5, GrantGrows DEF GrantRow
<1>7. /\ Len(audit) \in Nat /\ Len(audit') \in Nat
      /\ DOMAIN audit = 1 .. Len(audit)
      /\ DOMAIN audit' = 1 .. Len(audit')
      /\ \A i \in DOMAIN audit : audit'[i] = audit[i]
  BY <1>2 DEF LogGrows, LeaseInv, TypeOK
<1>8. \A i \in DOMAIN audit' :
        audit'[i].action = "acquire" =>
          \/ i \in DOMAIN audit /\ audit'[i] = audit[i]
          \/ i = Len(audit')
  BY <1>6, <1>7 DEF PlainRow, IsGrant
<1>9. DOMAIN audit \subseteq DOMAIN audit' /\ Len(audit') \in DOMAIN audit'
  BY <1>6, <1>7
<1>10. AcquiresKnown'
  BY <1>2, <1>3, <1>4, <1>6, <1>8 DEF AcquiresKnown, HoldersKept
<1>11. ASSUME NEW w \in Waiter \ {h}
       PROVE  Acquires(w)' = Acquires(w)
  BY <1>2, <1>3, <1>4, <1>6, <1>7, <1>8, <1>9 DEF AcquiresKnown, HoldersKept, Acquires
<1>12. ASSUME h \in Waiter
       PROVE  Acquires(h)' = Acquires(h) \cup {Len(audit')}
  BY <1>2, <1>3, <1>4, <1>6, <1>7, <1>8, <1>9 DEF AcquiresKnown, HoldersKept, Acquires
<1> QED
  BY <1>10, <1>11, <1>12

\* The answer of w, as far as it says whether w has a lease, is what it was.
SameAnswer(w) ==
  \/ pc'[w] = pc[w]
  \/ pc'[w] = "lost"
  \/ /\ pc[w] # "lost"
     /\ pc'[w] \in {"acquired", "granted"} <=> pc[w] \in {"acquired", "granted"}

LEMMA OnceKept ==
  ASSUME WaitAcquiresOnce,
         NEW w \in Waiter, Acquires(w)' = Acquires(w), SameAnswer(w)
  PROVE  /\ \A i, j \in Acquires(w)' : i = j
         /\ pc'[w] # "lost" =>
              (Acquires(w)' # {} <=> pc'[w] \in {"acquired", "granted"})
BY DEF WaitAcquiresOnce, SameAnswer

LEMMA WaiterAnswers ==
  ASSUME WaitTypeOK, NEW w \in Waiter,
         \/ Arrive(w) \/ Cancel(w)
         \/ Check(w) \/ Return(w) \/ Decide(w) \/ Wake(w)
  PROVE  UNCHANGED vars /\ \A v \in Waiter : SameAnswer(v)
<1> USE DEF SameAnswer, WaitTypeOK, Goto
<1>1. CASE Arrive(w)
  BY <1>1 DEF Arrive
<1>2. CASE Cancel(w)
  BY <1>2 DEF Cancel
<1>3. CASE Check(w)
  BY <1>3 DEF Check
<1>4. CASE Return(w)
  BY <1>4 DEF Return
<1>5. CASE Decide(w)
  BY <1>5 DEF Decide
<1>6. CASE Wake(w)
  BY <1>6 DEF Wake
<1> QED
  BY <1>1, <1>2, <1>3, <1>4, <1>5, <1>6

\* Of everybody else's steps only an acquire logs an acquire.
LEMMA OthersAcquire ==
  ASSUME LeaseInv, AcquiresKnown, Others
  PROVE  AcquiresKnown' /\ \A w \in Waiter : Acquires(w)' = Acquires(w)
<1>1. [Next]_vars
  BY DEF Others, Next, AcquireRequest
<1>2. LogGrows
  BY <1>1, StepGrows
<1>3. ASSUME NEW r \in Resource, NEW h \in Holder \ Waiter, NEW ttl \in TTL,
             NEW id \in LeaseId, Acquire(r, h, ttl, id)
      PROVE  AcquiresKnown' /\ \A w \in Waiter : Acquires(w)' = Acquires(w)
  BY <1>3, AcquiresAdded
<1>4. CASE LeaseRequest \/ AdminRequest \/ Sweep \/ Recover \/ AuditRecover
  <2>1. UNCHANGED audit \/ AppendsPlain \/ LogsGrant("transfer")
    BY <1>4, RequestIsAny, LeaseStepAppends, OtherStepAppends DEF GrantsNothing
  <2>2. \A i \in Len(audit) + 1 .. Len(audit') : audit'[i].action # "acquire"
    <3>1. CASE UNCHANGED audit
      BY <3>1 DEF LeaseInv, TypeOK
    <3>2. CASE AppendsPlain
      BY <3>2, PlainGrows DEF PlainRow, IsGrant
    <3>3. CASE LogsGrant("transfer")
      <4>1. PICK e \in GrantRow :
              /\ AppendsGrant(e)
              /\ e.action = "transfer"
              /\ Counter(e.resource)' = e.fencing_token
        BY <3>3 DEF LogsGrant
      <4>2. /\ audit'[Len(audit')] = e
            /\ \A i \in Len(audit) + 1 .. Len(audit') - 1 : audit'[i] \in PlainRow
        BY <4>1, GrantGrows
      <4>3. \A i \in Len(audit) + 1 .. Len(audit') :
              i = Len(audit') \/ i \in Len(audit) + 1 .. Len(audit') - 1
        BY <1>2 DEF LogGrows, LeaseInv, TypeOK
      <4> QED
        BY <4>1, <4>2, <4>3 DEF PlainRow, IsGrant
    <3> QED
      BY <2>1, <3>1, <3>2, <3>3
  <2> QED
    BY <1>1, <1>2, <2>2, AcquiresKept
<1> QED
  BY <1>3, <1>4 DEF Others

LEMMA AttemptAcquires ==
  ASSUME LeaseInv, WaitTypes, OnceInv, NEW w \in Waiter, Attempt(w)
  PROVE  OnceInv'
<1>1. pc[w] = "attempt" /\ pc \in [Waiter -> {"idle", "attempt"} \cup Pending \cup Ended]
  BY DEF Attempt, WaitTypes, WaitTypeOK
<1>2. CASE /\ UNCHANGED vars
           /\ \E label \in {"refused", "failed"} : pc' = [pc EXCEPT ![w] = label]
  <2>1. \A v \in Waiter : SameAnswer(v)
    BY <1>1, <1>2 DEF SameAnswer
  <2>2. \A v \in Waiter : Acquires(v)' = Acquires(v)
    BY <1>2 DEF Acquires, vars, tables
  <2>3. AcquiresKnown'
    BY <1>2 DEF OnceInv, AcquiresKnown, vars, tables
  <2> QED
    BY <2>1, <2>2, <2>3, OnceKept DEF OnceInv, WaitAcquiresOnce
<1>3. ASSUME NEW id \in LeaseId, Acquire(req[w].resource, w, req[w].ttl, id),
             pc' = [pc EXCEPT ![w] = "acquired"]
      PROVE  OnceInv'
  <2>1. PICK r \in Resource, ttl \in TTL : r = req[w].resource /\ ttl = req[w].ttl
    BY <1>1 DEF WaitTypes, Valid, Pending, Running
  <2>2. /\ AcquiresKnown'
        /\ \A v \in Waiter \ {w} : Acquires(v)' = Acquires(v)
        /\ Acquires(w)' = Acquires(w) \cup {Len(audit')}
    BY <1>3, <2>1, AcquiresAdded DEF OnceInv, WaitAssumption
  <2>3. Acquires(w) = {}
    BY <1>1 DEF OnceInv, WaitAcquiresOnce
  <2>4. \A v \in Waiter \ {w} : SameAnswer(v)
    BY <1>1, <1>3 DEF SameAnswer
  <2>5. pc'[w] = "acquired"
    BY <1>1, <1>3
  <2>6. ASSUME NEW v \in Waiter
        PROVE  /\ \A i, j \in Acquires(v)' : i = j
               /\ pc'[v] # "lost" =>
                    (Acquires(v)' # {} <=> pc'[v] \in {"acquired", "granted"})
    <3>1. CASE v = w
      <4>1. Acquires(w)' = {Len(audit')}
        BY <2>2, <2>3
      <4> QED
        BY <2>5, <3>1, <4>1
    <3>2. CASE v # w
      BY <2>2, <2>4, <3>2, OnceKept DEF OnceInv
    <3> QED
      BY <3>1, <3>2
  <2> QED
    BY <2>2, <2>6 DEF OnceInv, WaitAcquiresOnce
<1> QED
  BY <1>2, <1>3, AttemptCases

LEMMA OnceStep ==
  ASSUME LeaseInv, WaitTypes, OnceInv, [WaitNext]_wvars
  PROVE  OnceInv'
<1>1. ASSUME UNCHANGED <<leases, audit>>, \A v \in Waiter : SameAnswer(v)
      PROVE  OnceInv'
  <2>1. \A v \in Waiter : Acquires(v)' = Acquires(v)
    BY <1>1 DEF Acquires
  <2>2. AcquiresKnown'
    BY <1>1 DEF OnceInv, AcquiresKnown
  <2> QED
    BY <1>1, <2>1, <2>2, OnceKept DEF OnceInv, WaitAcquiresOnce
<1>2. ASSUME NEW w \in Waiter, Arrive(w) \/ WaiterStep(w) \/ Cancel(w)
      PROVE  OnceInv'
  BY <1>1, <1>2, WaiterAnswers, AttemptAcquires
  DEF WaiterStep, WaitTypes, vars, tables
<1>3. CASE Others
  <2>1. \A v \in Waiter : SameAnswer(v)
    BY <1>3 DEF Others, waiters, SameAnswer
  <2> QED
    BY <1>3, <2>1, OthersAcquire, OnceKept DEF OnceInv, WaitAcquiresOnce
<1>4. CASE Kill \/ Tick \/ Adjust \/ UNCHANGED wvars
  <2>1. UNCHANGED <<leases, audit>>
    BY <1>4 DEF Kill, Restart, Tick, Adjust, ClockForward, ClockBack, wvars, vars, tables
  <2>2. \A v \in Waiter : SameAnswer(v)
    BY <1>4 DEF Kill, Tick, Adjust, wvars, waiters, SameAnswer
  <2> QED
    BY <1>1, <2>1, <2>2
<1> QED
  BY <1>2, <1>3, <1>4 DEF WaitNext

\* A waiting request acquires at most one lease, and its answer says whether it did.
THEOREM WaitersAcquireOnce == WaitSpec => []WaitAcquiresOnce
<1>1. WaitInit => OnceInv
  BY DEF WaitInit, Init, EmptyStore, OnceInv, AcquiresKnown, WaitAcquiresOnce, Acquires
<1>2. LeaseInv /\ WaitTypes /\ OnceInv /\ [WaitNext]_wvars
        => LeaseInv' /\ WaitTypes' /\ OnceInv'
  BY WaitStepType, WaitStep, StepInv, OnceStep DEF LeaseInv
<1>3. OnceInv => WaitAcquiresOnce
  BY DEF OnceInv
<1> QED
  BY WaitInitial, <1>1, <1>2, <1>3, PTL DEF WaitSpec

-----------------------------------------------------------------------------
(* Answers in time *)

\* What a pending request may still take: a positive timeout, and an interval
\* that the timeout caps.
Capped ==
  \A w \in Waiter : pc[w] \in Pending =>
    /\ req[w].timeout \in 1 .. MaxInt64
    /\ req[w].interval \in 1 .. req[w].timeout

\* AnsweredInTime with the rest of a sleep counted in: a request that sleeps will
\* wake in time, too.
WakesInTime ==
  ~late =>
    \A w \in Waiter : pc[w] \in Pending =>
      \/ now + (IF pc[w] = "asleep" THEN left[w] ELSE 0) < deadline[w] + req[w].timeout
      \/ deadline[w] < 0 /\ pc[w] # "asleep"

TimeInv == Capped /\ WakesInTime

\* A sleep is no longer than its interval, whether or not the Duration wraps.
LEMMA SleepShort ==
  ASSUME NEW interval \in Nat
  PROVE  SleepSecs(interval) <= interval
<1> DEFINE half == MaxInt64 + 1
           p == interval * Second
           d == ((p + half) % (2 * half)) - half
<1>1. p \in Nat /\ half \in Nat /\ half > 0
  OBVIOUS
<1> HIDE DEF p, half
<1>2. (p + half) % (2 * half) <= p + half /\ (p + half) % (2 * half) \in Nat
  BY <1>1
<1>3. d \in Int /\ d <= p
  BY <1>1, <1>2
<1> HIDE DEF d
<1>4. d > 0 => d \div Second <= interval
  <2> SUFFICES ASSUME d > 0, d \div Second > interval
               PROVE  FALSE
    BY <1>3
  <2> DEFINE q == d \div Second
  <2>1. q \in Int /\ q >= interval + 1 /\ q * Second <= d
    BY <1>3
  <2> HIDE DEF q
  <2>2. q * Second >= (interval + 1) * Second
    BY <2>1
  <2>3. (interval + 1) * Second = p + Second
    BY DEF p
  <2> QED
    BY <1>1, <1>3, <2>1, <2>2, <2>3
<1>5. SleepSecs(interval) = IF d <= 0 THEN 0 ELSE d \div Second
  BY DEF SleepSecs, d, p, half
<1> QED
  BY <1>3, <1>4, <1>5

LEMMA ArriveInTime ==
  ASSUME TypeOK, WaitTypes, TimeInv, NEW w \in Waiter, Arrive(w)
  PROVE  TimeInv'
<1>1. PICK r \in Resource, ttl \in TTL, t \in TimeoutSecs, i \in PollInterval :
        LET timeout == Timeout(t)
            interval == Interval(i, timeout)
        IN /\ pc[w] = "idle"
           /\ IF ValidTTL(ttl)
              THEN /\ Goto(w, "check")
                   /\ req' = [req EXCEPT ![w] =
                        [resource |-> r, ttl |-> ttl, timeout |-> timeout,
                         interval |-> interval]]
                   /\ deadline' = [deadline EXCEPT ![w] = Add64(now, timeout)]
              ELSE Goto(w, "failed") /\ UNCHANGED <<req, deadline>>
           /\ UNCHANGED <<vars, left, gone, late>>
  BY DEF Arrive
<1> DEFINE timeout == Timeout(t)
           interval == Interval(i, timeout)
<1>2. timeout \in 1 .. MaxInt64 /\ interval \in 1 .. timeout
  BY DEF Timeout, Interval, Int64
<1> DEFINE sum == Add64(now, timeout)
<1>3. now \in Nat /\ (sum = now + timeout \/ sum < 0)
  BY <1>2 DEF Add64, TypeOK, Time
<1> HIDE DEF timeout, interval, sum
<1>4. now' = now /\ late' = late /\ left' = left
  BY <1>1 DEF vars
<1>5. CASE ValidTTL(ttl)
  <2>1. /\ pc' = [pc EXCEPT ![w] = "check"]
        /\ req' = [req EXCEPT ![w] =
             [resource |-> r, ttl |-> ttl, timeout |-> timeout, interval |-> interval]]
        /\ deadline' = [deadline EXCEPT ![w] = sum]
    BY <1>1, <1>5 DEF Goto, timeout, interval, sum
  <2>2. /\ pc'[w] = "check" /\ deadline'[w] = sum
        /\ req'[w].timeout = timeout /\ req'[w].interval = interval
        /\ \A v \in Waiter \ {w} :
             pc'[v] = pc[v] /\ req'[v] = req[v] /\ deadline'[v] = deadline[v]
    BY <2>1 DEF WaitTypes, WaitTypeOK
  <2> QED
    BY <1>2, <1>3, <1>4, <2>2 DEF TimeInv, Capped, WakesInTime
<1>6. CASE ~ValidTTL(ttl)
  <2>1. /\ pc'[w] = "failed" /\ req' = req /\ deadline' = deadline
        /\ \A v \in Waiter \ {w} : pc'[v] = pc[v]
    BY <1>1, <1>6 DEF Goto, WaitTypes, WaitTypeOK
  <2> QED
    BY <1>4, <2>1 DEF TimeInv, Capped, WakesInTime, Pending, Running
<1> QED
  BY <1>5, <1>6

\* From check to check the sum of the clock and the sleep stays below the bound.
LEMMA LoopInTime ==
  ASSUME TypeOK, WaitTypes, TimeInv, NEW w \in Waiter, WaiterStep(w) \/ Cancel(w)
  PROVE  TimeInv'
<1> USE DEF TimeInv, Capped, WakesInTime, WaitTypes, WaitTypeOK, Pending, Running, Goto
<1>1. UNCHANGED <<now, req, deadline, late>>
  BY DEF WaiterStep, Check, Attempt, Acquire, Return, Decide, Wake, Cancel, vars
<1>2. now \in Nat
  BY DEF TypeOK, Time
<1>3. CASE Check(w) \/ Attempt(w) \/ Return(w) \/ Wake(w) \/ Cancel(w)
  <2>1. /\ pc[w] \in Pending
        /\ \/ pc'[w] = pc[w]
           \/ pc'[w] # "asleep" /\ (pc[w] = "asleep" => left[w] = 0)
        /\ \A v \in Waiter \ {w} : pc'[v] = pc[v]
    BY <1>3 DEF Check, Attempt, Return, Wake, Cancel
  <2>2. left' = left
    BY <1>3 DEF Check, Attempt, Return, Wake, Cancel
  <2> QED
    BY <1>1, <1>2, <2>1, <2>2
<1>4. CASE Decide(w)
  <2>1. CASE now >= deadline[w]
    BY <1>1, <1>4, <2>1 DEF Decide
  <2>2. CASE ~(now >= deadline[w])
    <3>1. /\ pc[w] = "refused" /\ pc'[w] = "asleep"
          /\ left'[w] = SleepSecs(req[w].interval)
          /\ \A v \in Waiter \ {w} : pc'[v] = pc[v] /\ left'[v] = left[v]
      BY <1>4, <2>2, SleepType DEF Decide
    <3>2. left'[w] <= req[w].timeout /\ left'[w] \in Nat /\ deadline[w] \in Int
      BY <3>1, SleepShort, SleepType DEF Int64
    <3> QED
      BY <1>1, <1>2, <2>2, <3>1, <3>2
  <2> QED
    BY <2>1, <2>2
<1> QED
  BY <1>3, <1>4 DEF WaiterStep

LEMMA AroundInTime ==
  ASSUME TypeOK, WaitTypes, TimeInv, Others \/ Kill \/ Tick \/ Adjust \/ UNCHANGED wvars
  PROVE  TimeInv'
<1> USE DEF TimeInv, Capped, WakesInTime
<1>1. CASE Others \/ UNCHANGED wvars
  <2>1. UNCHANGED waiters
    BY <1>1 DEF Others, wvars
  <2>2. UNCHANGED now
    BY <1>1 DEF Others, wvars, vars, Acquire, LeaseRequest, AdminRequest, Renew, UpdateTTL,
       Heartbeat, Release, Transfer, ForceRelease, LockResource, UnlockResource, SetLock,
       Extend, Retire, Sweep, Recover, SweepCommit, AuditRecover
  <2> QED
    BY <2>1, <2>2 DEF waiters
<1>2. CASE Kill
  <2>1. \A w \in Waiter : pc'[w] \notin Pending
    BY <1>2 DEF Kill, Pending, Running
  <2> QED
    BY <2>1
<1>3. CASE Tick
  <2>1. Capped'
    BY <1>3 DEF Tick
  <2>2. ASSUME ~late', NEW w \in Waiter, pc[w] \in Pending
        PROVE  now' + (IF pc[w] = "asleep" THEN left'[w] ELSE 0)
                 < deadline[w] + req[w].timeout
    <3>1. ~late /\ ~CanStep(w)
      BY <1>3, <2>2 DEF Tick, WaitTypes, WaitTypeOK
    <3>2. pc[w] = "asleep" /\ left[w] \in Nat /\ left[w] # 0
      BY <2>2, <3>1 DEF CanStep, Pending, WaitTypes, WaitTypeOK
    <3>3. left'[w] = left[w] - 1
      BY <1>3, <3>2 DEF Tick, Asleep, WaitTypes, WaitTypeOK
    <3>4. now \in Nat /\ now' \in Nat /\ now' <= now + 1
      BY <1>3 DEF Tick, TypeOK, Time
    <3>5. deadline[w] + req[w].timeout \in Int
      BY DEF WaitTypes, WaitTypeOK, Int64
    <3>6. now + left[w] < deadline[w] + req[w].timeout
      BY <2>2, <3>1, <3>2
    <3> QED
      BY <3>2, <3>3, <3>4, <3>5, <3>6
  <2> QED
    BY <1>3, <2>1, <2>2 DEF Tick
<1>4. CASE Adjust
  BY <1>4 DEF Adjust, WaitTypes, WaitTypeOK
<1> QED
  BY <1>1, <1>2, <1>3, <1>4

\* While goroutines run promptly and nobody sets the clock, a request is answered
\* before a second timeout has passed since its deadline.
THEOREM AnswersInTime == WaitSpec => []AnsweredInTime
<1>1. WaitInit => TimeInv
  BY DEF WaitInit, TimeInv, Capped, WakesInTime, Pending, Running
<1>2. LeaseInv /\ WaitTypes /\ TimeInv /\ [WaitNext]_wvars
        => LeaseInv' /\ WaitTypes' /\ TimeInv'
  BY WaitStepType, WaitStep, StepInv, ArriveInTime, LoopInTime, AroundInTime
  DEF LeaseInv, WaitNext
<1>3. ASSUME LeaseInv, WaitTypes, TimeInv
      PROVE  AnsweredInTime
  <2> SUFFICES ASSUME ~late, NEW w \in Waiter, pc[w] \in Pending
               PROVE  \/ now < deadline[w] + req[w].timeout
                      \/ deadline[w] < 0 /\ pc[w] # "asleep"
    BY DEF AnsweredInTime
  <2>1. now \in Nat /\ left[w] \in Nat /\ deadline[w] + req[w].timeout \in Int
    BY <1>3 DEF LeaseInv, TypeOK, Time, WaitTypes, WaitTypeOK, Int64
  <2>2. \/ now + (IF pc[w] = "asleep" THEN left[w] ELSE 0) < deadline[w] + req[w].timeout
        \/ deadline[w] < 0 /\ pc[w] # "asleep"
    BY <1>3 DEF TimeInv, WakesInTime
  <2> QED
    BY <2>1, <2>2
<1> QED
  BY WaitInitial, <1>1, <1>2, <1>3, PTL DEF WaitSpec

-----------------------------------------------------------------------------
(* A client that went away *)

\* The client of w has gone and w will not try again: it sleeps or is about to
\* look at the context, or it has ended without a lease.
Abandoned(w) ==
  /\ gone[w]
  /\ pc[w] \in {"asleep", "check", "timeout", "cancelled", "failed", "lost"}

LEMMA AbandonedStays ==
  ASSUME WaitTypeOK, NEW w \in Waiter, Abandoned(w), [WaitNext]_wvars
  PROVE  Abandoned(w)'
<1> USE DEF Abandoned, WaitTypeOK, Goto
<1>1. ASSUME NEW v \in Waiter, Arrive(v) \/ WaiterStep(v) \/ Cancel(v)
      PROVE  Abandoned(w)'
  <2>1. gone'[w]
    BY <1>1 DEF Arrive, WaiterStep, Check, Attempt, Return, Decide, Wake, Cancel
  <2>2. CASE v # w
    BY <1>1, <2>1, <2>2
    DEF Arrive, WaiterStep, Check, Attempt, Return, Decide, Wake, Cancel
  <2>3. CASE v = w
    BY <1>1, <2>1, <2>3
    DEF Arrive, WaiterStep, Check, Attempt, Return, Decide, Wake, Cancel
  <2> QED
    BY <2>2, <2>3
<1>2. CASE Kill
  BY <1>2 DEF Kill
<1>3. CASE Others \/ Tick \/ Adjust \/ UNCHANGED wvars
  BY <1>3 DEF Others, Tick, Adjust, wvars, waiters
<1> QED
  BY <1>1, <1>2, <1>3 DEF WaitNext

\* A client that goes away while its request sleeps leaves no lease behind later.
THEOREM AbandonedAcquireNothing == WaitSpec => AbandonedNeverAcquires
<1> SUFFICES ASSUME NEW w \in Waiter
             PROVE  WaitSpec =>
                      [](pc[w] = "asleep" /\ gone[w]
                           => [](pc[w] \notin {"acquired", "granted"}))
  BY DEF AbandonedNeverAcquires
<1>1. WaitTypeOK /\ Abandoned(w) /\ [WaitNext]_wvars => Abandoned(w)'
  BY AbandonedStays
<1>2. pc[w] = "asleep" /\ gone[w] => Abandoned(w)
  BY DEF Abandoned
<1>3. Abandoned(w) => pc[w] \notin {"acquired", "granted"}
  BY DEF Abandoned
<1>4. WaitSpec => []WaitTypeOK
  BY WaitTypeCorrect
<1> QED
  BY <1>1, <1>2, <1>3, <1>4, PTL DEF WaitSpec

=============================================================================
