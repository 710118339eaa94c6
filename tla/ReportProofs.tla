---------------------------- MODULE ReportProofs ----------------------------
(***************************************************************************)
(* Theorems about LeaseReports: what a request that only reads is told,    *)
(* while others write.  The advice on a lease, the report on a holder and  *)
(* the bundle are about two moments; lists and stats are about one, and    *)
(* their proofs count rows: sets of equal size are matched one to one.     *)
(***************************************************************************)
EXTENDS LeaseReports, LeaseHistoryProofs

USE StoreAssumption, ManagerAssumption

-----------------------------------------------------------------------------
(* Readers only read *)

LEMMA ReportSteps == [ReportsNext]_rvars => [Next]_vars
BY DEF ReportsNext, rvars, BundleResources, BundleAudit, ReadLease, AdviseOnLease, ReadHolder,
       CountRow, AnswerHolder, RestartReader, Writers, Next

\* What is proved of LeaseManager holds of it with requests that only read.
LEMMA ReadersOnlyRead == ReportsSpec => Spec
<1>1. ReportsInit => Init
  BY DEF ReportsInit
<1> QED
  BY <1>1, ReportSteps, PTL DEF ReportsSpec, Spec

-----------------------------------------------------------------------------
(* Advice on a lease *)

LEMMA FirstOfSome ==
  ASSUME NEW n \in 0 .. 6, NEW S \in SUBSET (1 .. n), S # {}
  PROVE  \E i \in S : \A j \in S : i <= j
<1>1. CASE 1 \in S
  BY <1>1
<1>2. CASE 1 \notin S /\ 2 \in S
  BY <1>2
<1>3. CASE 1 \notin S /\ 2 \notin S /\ 3 \in S
  BY <1>3
<1>4. CASE 1 \notin S /\ 2 \notin S /\ 3 \notin S /\ 4 \in S
  BY <1>4
<1>5. CASE 1 \notin S /\ 2 \notin S /\ 3 \notin S /\ 4 \notin S /\ 5 \in S
  BY <1>5
<1>6. CASE 1 \notin S /\ 2 \notin S /\ 3 \notin S /\ 4 \notin S /\ 5 \notin S
  <2>1. \A i \in S : i = 6
    BY <1>6
  <2>2. PICK i \in S : TRUE
    OBVIOUS
  <2>3. \A j \in S : i <= j
    BY <2>1
  <2> QED
    BY <2>3
<1> QED
  BY <1>1, <1>2, <1>3, <1>4, <1>5, <1>6

\* A list of n checks whose failures are in S, and that all of them pass.
ListOf(S, n, checks) == checks \in Seq(S) /\ Len(checks) = n

AllOk(checks) == \A i \in DOMAIN checks : checks[i][1]

\* A call answers "ok" exactly when every check of a list of at most six passes.
LEMMA AllPass ==
  ASSUME NEW S, \A e \in S : e[2] # "ok",
         NEW n \in 0 .. 6, NEW checks, ListOf(S, n, checks)
  PROVE  FirstFailure(checks) = "ok" <=> AllOk(checks)
<1> DEFINE failed == {i \in DOMAIN checks : ~checks[i][1]}
<1>2. DOMAIN checks = 1 .. n /\ \A i \in 1 .. n : checks[i] \in S
  BY DEF ListOf
<1>3. CASE failed = {}
  <2>1. AllOk(checks)
    BY <1>3 DEF AllOk
  <2>2. FirstFailure(checks) = "ok"
    BY <1>3 DEF FirstFailure
  <2> QED
    BY <2>1, <2>2
<1>4. CASE failed # {}
  <2> DEFINE first == CHOOSE i \in failed : \A j \in failed : i <= j
  <2>1. failed \in SUBSET (1 .. n)
    BY <1>2
  <2>2. \E i \in failed : \A j \in failed : i <= j
    <3> HIDE DEF failed
    <3> QED
      BY <1>4, <2>1, FirstOfSome
  <2>3. first \in failed
    BY <2>2
  <2>4. FirstFailure(checks) = checks[first][2]
    BY <1>4 DEF FirstFailure
  <2>5. first \in 1 .. n /\ first \in DOMAIN checks /\ ~checks[first][1]
    BY <1>2, <2>3
  <2> QED
    BY <1>2, <2>4, <2>5 DEF AllOk
<1> QED
  BY <1>3, <1>4

LEMMA ListConcat ==
  ASSUME NEW S, NEW m \in Nat, NEW n \in Nat, NEW s, NEW t,
         ListOf(S, m, s), ListOf(S, n, t), NEW k, k = m + n
  PROVE  ListOf(S, k, s \o t)
BY DEF ListOf

IsList(s) == \E S : s \in Seq(S)

LEMMA OkConcat ==
  ASSUME NEW s, NEW t, IsList(s), IsList(t)
  PROVE  AllOk(s \o t) <=> AllOk(s) /\ AllOk(t)
<1> DEFINE u == s \o t
<1>0. PICK S, T : s \in Seq(S) /\ t \in Seq(T)
  BY DEF IsList
<1>1. s \in Seq(S \cup T) /\ t \in Seq(S \cup T)
  BY <1>0
<1>2. /\ Len(s) \in Nat /\ Len(t) \in Nat /\ Len(u) = Len(s) + Len(t)
      /\ DOMAIN s = 1 .. Len(s) /\ DOMAIN t = 1 .. Len(t) /\ DOMAIN u = 1 .. Len(u)
  BY <1>1
<1>3. \A i \in 1 .. Len(s) : i \in 1 .. Len(u) /\ u[i] = s[i]
  BY <1>1
<1>4. \A i \in 1 .. Len(t) : Len(s) + i \in 1 .. Len(u) /\ u[Len(s) + i] = t[i]
  BY <1>1
<1>5. \A i \in 1 .. Len(u) :
        i \in 1 .. Len(s) \/ (i - Len(s) \in 1 .. Len(t) /\ u[i] = t[i - Len(s)])
  BY <1>1
<1> HIDE DEF u
<1>6. AllOk(s) /\ AllOk(t) => AllOk(u)
  BY <1>2, <1>3, <1>5 DEF AllOk
<1>7. AllOk(u) => AllOk(s) /\ AllOk(t)
  BY <1>2, <1>3, <1>4 DEF AllOk
<1> QED
  BY <1>6, <1>7 DEF u

LEMMA SixPass ==
  ASSUME NEW a, NEW b, NEW c, NEW d, NEW e, NEW f,
         \A x \in {a, b, c, d, e, f} : x[2] # "ok"
  PROVE  /\ FirstFailure(<<a, b>> \o <<c, d>>) = "ok" <=> a[1] /\ b[1] /\ c[1] /\ d[1]
         /\ FirstFailure(<<e>> \o (<<a, b>> \o <<c, d>>) \o <<f>>) = "ok" <=>
              e[1] /\ a[1] /\ b[1] /\ c[1] /\ d[1] /\ f[1]
<1> DEFINE S == {a, b, c, d, e, f}
           ab == <<a, b>>
           cd == <<c, d>>
           u == ab \o cd
           e1 == <<e>>
           f1 == <<f>>
           v == e1 \o u
           w == v \o f1
<1>1. ListOf(S, 2, ab) /\ ListOf(S, 2, cd) /\ ListOf(S, 1, e1) /\ ListOf(S, 1, f1)
  BY DEF ListOf
<1>2. AllOk(ab) <=> a[1] /\ b[1]
  BY DEF AllOk
<1>3. AllOk(cd) <=> c[1] /\ d[1]
  BY DEF AllOk
<1>4. AllOk(e1) <=> e[1]
  BY DEF AllOk
<1>5. AllOk(f1) <=> f[1]
  BY DEF AllOk
<1>6. \A x \in S : x[2] # "ok"
  OBVIOUS
<1> HIDE DEF S, ab, cd, e1, f1
<1>7. \A n, s : ListOf(S, n, s) => IsList(s)
  BY DEF ListOf, IsList
<1>8. ASSUME NEW m \in Nat, NEW n \in Nat, NEW k, k = m + n, NEW s, NEW t,
             ListOf(S, m, s), ListOf(S, n, t)
      PROVE  ListOf(S, k, s \o t)
  BY <1>8, ListConcat
<1>9. ListOf(S, 4, u) /\ (AllOk(u) <=> AllOk(ab) /\ AllOk(cd))
  <2>1. 2 \in Nat /\ 4 = 2 + 2
    OBVIOUS
  <2>2. ListOf(S, 4, u)
    BY <1>1, <1>8, <2>1
  <2>3. AllOk(u) <=> AllOk(ab) /\ AllOk(cd)
    BY <1>1, <1>7, OkConcat, Zenon
  <2> QED
    BY <2>2, <2>3
<1> HIDE DEF u
<1>10. ListOf(S, 5, v) /\ (AllOk(v) <=> AllOk(e1) /\ AllOk(u))
  <2>1. 1 \in Nat /\ 4 \in Nat /\ 5 = 1 + 4
    OBVIOUS
  <2>2. ListOf(S, 5, v)
    BY <1>1, <1>8, <1>9, <2>1
  <2>3. AllOk(v) <=> AllOk(e1) /\ AllOk(u)
    BY <1>1, <1>7, <1>9, OkConcat, Zenon
  <2> QED
    BY <2>2, <2>3
<1> HIDE DEF v
<1>11. ListOf(S, 6, w) /\ (AllOk(w) <=> AllOk(v) /\ AllOk(f1))
  <2>1. 5 \in Nat /\ 1 \in Nat /\ 6 = 5 + 1
    OBVIOUS
  <2>2. ListOf(S, 6, w)
    BY <1>1, <1>8, <1>10, <2>1
  <2>3. AllOk(w) <=> AllOk(v) /\ AllOk(f1)
    BY <1>1, <1>7, <1>10, OkConcat, Zenon
  <2> QED
    BY <2>2, <2>3
<1> HIDE DEF w
<1>12. 4 \in 0 .. 6 /\ 6 \in 0 .. 6
  OBVIOUS
<1>13. ASSUME NEW n \in 0 .. 6, NEW s, ListOf(S, n, s)
       PROVE  FirstFailure(s) = "ok" <=> AllOk(s)
  BY <1>6, <1>13, AllPass
<1>14. FirstFailure(u) = "ok" <=> AllOk(u)
  BY <1>9, <1>12, <1>13
<1>15. FirstFailure(w) = "ok" <=> AllOk(w)
  BY <1>11, <1>12, <1>13
<1>16. FirstFailure(u) = "ok" <=> a[1] /\ b[1] /\ c[1] /\ d[1]
  BY <1>2, <1>3, <1>9, <1>14
<1>17. FirstFailure(w) = "ok" <=> e[1] /\ a[1] /\ b[1] /\ c[1] /\ d[1] /\ f[1]
  BY <1>2, <1>3, <1>4, <1>5, <1>9, <1>10, <1>11, <1>15
<1> QED
  BY <1>16, <1>17 DEF u, v, w, ab, cd, e1, f1

-----------------------------------------------------------------------------
(* The advice on a lease *)

LEMMA RenewPasses ==
  ASSUME TypeOK, NEW id \in DOMAIN leases
  PROVE  LET token == leases[id].fencing_token IN
         /\ RenewOutcome(id, token, 1) = "ok" <=> WindowOpen(leases[id])
         /\ UseOutcome(id, token) = "ok" <=> CanRenew(leases[id])
<1> DEFINE token == leases[id].fencing_token
           a == <<Found(id), "ErrNotFound">>
           b == <<Presented(id, token), "ErrFencingMismatch">>
           c == <<Found(id) => ~IsTerminal(leases[id].status), "ErrTerminal">>
           d == <<Found(id) => Unexpired(leases[id]), "ErrLeaseExpired">>
           e == <<ValidTTL(1), "other">>
           f == <<Found(id) => InRenewWindow(leases[id]), "ErrRenewTooEarly">>
<1>1. \A x \in {a, b, c, d, e, f} : x[2] # "ok"
  OBVIOUS
<1>2. a[1] /\ b[1] /\ e[1]
  <2>1. Found(id) /\ Presented(id, token) /\ ValidTTL(1)
    BY DEF Found, Presented, ValidTTL
  <2> QED
    BY <2>1
<1>3. /\ c[1] <=> ~IsTerminal(leases[id].status)
      /\ d[1] <=> Unexpired(leases[id])
      /\ f[1] <=> InRenewWindow(leases[id])
  BY DEF Found
<1>4. /\ UseOutcome(id, token) = FirstFailure(<<a, b>> \o <<c, d>>)
      /\ RenewOutcome(id, token, 1) = FirstFailure(<<e>> \o (<<a, b>> \o <<c, d>>) \o <<f>>)
  BY DEF UseOutcome, RenewOutcome, UsableChecks, PresentedChecks
<1> HIDE DEF a, b, c, d, e, f
<1>5. /\ UseOutcome(id, token) = "ok" <=> c[1] /\ d[1]
      /\ RenewOutcome(id, token, 1) = "ok" <=> c[1] /\ d[1] /\ f[1]
  BY <1>1, <1>2, <1>4, SixPass
<1>6. /\ now \in Int /\ leases[id].expires_at \in Int
      /\ Unexpired(leases[id]) <=> RemainingSecs(leases[id]) >= 0
      /\ InRenewWindow(leases[id]) <=> RemainingSecs(leases[id]) <= RenewThreshold(leases[id])
  <2>1. now \in Int /\ leases[id].expires_at \in Int
    BY TimeType DEF TypeOK, LeaseRow, Int64
  <2> QED
    BY <2>1 DEF Unexpired, RemainingSecs, InRenewWindow
<1> QED
  BY <1>3, <1>5, <1>6 DEF WindowOpen, CanRenew

\* The service never forgets a lease, so the lease that was read is there.
ReadLeaseKnown == reader.kind = "lease" => reader.id \in DOMAIN leases

LEMMA KnownKept ==
  ASSUME LeaseInv, ReadLeaseKnown, [ReportsNext]_rvars
  PROVE  ReadLeaseKnown'
<1>1. DOMAIN leases \subseteq DOMAIN leases'
  <2>1. CASE UNCHANGED <<resources, leases>>
    BY <2>1
  <2>2. CASE Shape
    BY <2>2 DEF Shape, Keeps, Ends, Grants, SetLeaseStatus, InsertLease
  <2> QED
    BY <2>1, <2>2, ReportSteps, StepShape DEF vars, tables
<1>2. CASE UNCHANGED reader
  BY <1>1, <1>2 DEF ReadLeaseKnown
<1>3. CASE ReadLease
  <2>1. PICK id \in LeaseId :
          reader' = IF id \in DOMAIN leases
                    THEN [kind |-> "lease", id |-> id, row |-> leases[id]]
                    ELSE [kind |-> "answer", of |-> "ErrNotFound"]
    BY <1>3 DEF ReadLease
  <2> QED
    BY <1>1, <2>1 DEF ReadLeaseKnown
<1>4. CASE BundleResources \/ BundleAudit \/ AdviseOnLease \/ ReadHolder \/ AnswerHolder
  <2>1. reader'.kind \in {"bundle", "answer", "holder"}
    BY <1>4 DEF BundleResources, BundleAudit, AdviseOnLease, ReadHolder, AnswerHolder
  <2> QED
    BY <1>4, <2>1 DEF ReadLeaseKnown
<1>5. CASE CountRow
  <2>1. reader.kind = "holder"
    BY <1>5 DEF CountRow
  <2>2. reader'.kind = reader.kind
    BY <1>5 DEF CountRow
  <2> QED
    BY <2>1, <2>2 DEF ReadLeaseKnown
<1>6. CASE RestartReader
  BY <1>6 DEF RestartReader, Idle, ReadLeaseKnown
<1> QED
  BY <1>2, <1>3, <1>4, <1>5, <1>6 DEF ReportsNext, Writers, rvars

\* From "lease" the reader goes only to the answer, or dies.
LEMMA FromLease ==
  ASSUME reader.kind = "lease", reader'.kind = "answer", [ReportsNext]_rvars
  PROVE  AdviseOnLease
<1>1. ~BundleAudit /\ ~CountRow /\ ~AnswerHolder
  BY DEF BundleAudit, CountRow, AnswerHolder
<1>2. ~BundleResources /\ ~ReadLease /\ ~ReadHolder
  BY DEF BundleResources, ReadLease, ReadHolder, Free
<1>3. ~RestartReader
  BY DEF RestartReader, Idle
<1>4. ~UNCHANGED reader
  OBVIOUS
<1> QED
  BY <1>1, <1>2, <1>3, <1>4 DEF ReportsNext, Writers, rvars

LEMMA StepAdvice ==
  ASSUME TypeOK, ReadLeaseKnown, [ReportsNext]_rvars,
         reader.kind = "lease", reader'.kind = "answer", leases[reader.id] = reader.row
  PROVE  LET id == reader.id
             token == reader.row.fencing_token
         IN /\ reader'.window_open <=> RenewOutcome(id, token, 1) = "ok"
            /\ reader'.can_renew <=> UseOutcome(id, token) = "ok"
<1>1. PICK id \in DOMAIN leases : id = reader.id
  BY DEF ReadLeaseKnown
<1>2. /\ reader'.window_open = WindowOpen(leases[id])
      /\ reader'.can_renew = CanRenew(leases[id])
  BY <1>1, FromLease DEF AdviseOnLease
<1>3. /\ RenewOutcome(id, leases[id].fencing_token, 1) = "ok" <=> WindowOpen(leases[id])
      /\ UseOutcome(id, leases[id].fencing_token) = "ok" <=> CanRenew(leases[id])
  BY RenewPasses
<1> QED
  BY <1>1, <1>2, <1>3

\* The advice on a lease says of a renew, a heartbeat, a transfer or a ttl update
\* sent at that second what Manager.Renew and its siblings would answer, for any
\* lease that has not changed since its row was read.
THEOREM AdviceAgrees == ReportsSpec => AdviceMirrorsRenew
<1>1. ReportsInit => ReadLeaseKnown
  BY DEF ReportsInit, Idle, ReadLeaseKnown
<1>2. LeaseInv /\ ReadLeaseKnown /\ [ReportsNext]_rvars => ReadLeaseKnown'
  BY KnownKept
<1>3. LeaseInv => TypeOK
  BY DEF LeaseInv
<1>4. LeaseInv /\ ReadLeaseKnown /\ [ReportsNext]_rvars =>
        [(reader.kind = "lease" /\ reader'.kind = "answer"
            /\ leases[reader.id] = reader.row) =>
           LET id == reader.id
               token == reader.row.fencing_token
           IN /\ reader'.window_open <=> RenewOutcome(id, token, 1) = "ok"
              /\ reader'.can_renew <=> UseOutcome(id, token) = "ok"]_rvars
  BY <1>3, StepAdvice
<1> QED
  BY <1>1, <1>2, <1>4, ReadersOnlyRead, LeaseInvariant, PTL
     DEF ReportsSpec, AdviceMirrorsRenew

-----------------------------------------------------------------------------
(* The report on a holder *)

Live(read, t) ==
  {id \in DOMAIN read : read[id].status = "active" /\ read[id].expires_at > t}

\* The rows counted as active so far are a set between those that were live when
\* the report read and those that are live at t, and the rest of the rows that
\* were looked at count as terminal.
Counts(since, read, rest, active, terminal, t) ==
  /\ DOMAIN read \subseteq LeaseId /\ rest \subseteq DOMAIN read
  /\ \A id \in DOMAIN read : read[id].expires_at \in Int
  /\ since \in Int /\ t \in Int /\ (~BackwardClock => since <= t)
  /\ \E counted \in SUBSET (DOMAIN read \ rest) :
       /\ active = Cardinality(counted)
       /\ terminal = Cardinality((DOMAIN read \ rest) \ counted)
       /\ ~BackwardClock =>
            Live(read, t) \ rest \subseteq counted /\ counted \subseteq Live(read, since)

\* It stays so when the clock goes on, ...
LEMMA CountsLater ==
  ASSUME NEW since, NEW read, NEW rest, NEW active, NEW terminal, NEW t,
         Counts(since, read, rest, active, terminal, t),
         NEW u \in Int, ~BackwardClock => t <= u
  PROVE  Counts(since, read, rest, active, terminal, u)
<1>1. /\ \A id \in DOMAIN read : read[id].expires_at \in Int
      /\ since \in Int /\ t \in Int /\ (~BackwardClock => since <= t)
  BY DEF Counts
<1>2. ~BackwardClock => since <= u /\ Live(read, u) \subseteq Live(read, t)
  <2> SUFFICES ASSUME ~BackwardClock
               PROVE  since <= u /\ Live(read, u) \subseteq Live(read, t)
    OBVIOUS
  <2>1. t <= u /\ since <= t
    BY <1>1
  <2>2. since <= u
    BY <1>1, <2>1
  <2>3. \A id \in DOMAIN read : read[id].expires_at > u => read[id].expires_at > t
    BY <1>1, <2>1
  <2> QED
    BY <2>2, <2>3 DEF Live
<1>3. ~BackwardClock => Live(read, u) \ rest \subseteq Live(read, t) \ rest
  BY <1>2
<1> HIDE DEF Live
<1> QED
  BY <1>1, <1>2, <1>3 DEF Counts

\* ... and when one more row is counted.
LEMMA CountsOneMore ==
  ASSUME NEW since, NEW read, NEW rest, NEW active, NEW terminal, NEW t,
         Counts(since, read, rest, active, terminal, t),
         NEW id \in rest, NEW newActive, NEW newTerminal,
         IF read[id].status = "active" /\ read[id].expires_at > t
         THEN newActive = active + 1 /\ newTerminal = terminal
         ELSE newActive = active /\ newTerminal = terminal + 1
  PROVE  Counts(since, read, rest \ {id}, newActive, newTerminal, t)
<1>1. /\ DOMAIN read \subseteq LeaseId /\ rest \subseteq DOMAIN read
      /\ \A x \in DOMAIN read : read[x].expires_at \in Int
      /\ since \in Int /\ t \in Int /\ (~BackwardClock => since <= t)
  BY DEF Counts
<1>2. PICK counted \in SUBSET (DOMAIN read \ rest) :
        /\ active = Cardinality(counted)
        /\ terminal = Cardinality((DOMAIN read \ rest) \ counted)
        /\ ~BackwardClock =>
             Live(read, t) \ rest \subseteq counted /\ counted \subseteq Live(read, since)
  BY DEF Counts
<1>3. IsFiniteSet(DOMAIN read)
  BY <1>1, StoreAssumption, FS_Subset
<1> DEFINE others == (DOMAIN read \ rest) \ counted
<1>4. IsFiniteSet(counted) /\ IsFiniteSet(others)
  <2>1. counted \in SUBSET (DOMAIN read) /\ others \in SUBSET (DOMAIN read)
    OBVIOUS
  <2> QED
    BY <1>3, <2>1, FS_Subset
<1>5. id \notin counted /\ id \notin others /\ id \in DOMAIN read
  BY <1>1
<1>6. CASE read[id].status = "active" /\ read[id].expires_at > t
  <2> DEFINE more == counted \cup {id}
  <2>1. newActive = Cardinality(more)
    BY <1>2, <1>4, <1>5, <1>6, FS_AddElement
  <2>2. (DOMAIN read \ (rest \ {id})) \ more = others
    BY <1>5
  <2>3. newTerminal = Cardinality((DOMAIN read \ (rest \ {id})) \ more)
    BY <1>2, <1>6, <2>2
  <2>4. more \in SUBSET (DOMAIN read \ (rest \ {id}))
    BY <1>5
  <2>5. ~BackwardClock => Live(read, t) \ (rest \ {id}) \subseteq more
    BY <1>2
  <2>6. ~BackwardClock => id \in Live(read, since)
    BY <1>1, <1>5, <1>6 DEF Live
  <2>7. ~BackwardClock => more \subseteq Live(read, since)
    BY <1>2, <2>6
  <2> HIDE DEF more
  <2> QED
    BY <1>1, <2>1, <2>3, <2>4, <2>5, <2>7 DEF Counts
<1>7. CASE ~(read[id].status = "active" /\ read[id].expires_at > t)
  <2>1. (DOMAIN read \ (rest \ {id})) \ counted = others \cup {id}
    BY <1>5
  <2>2. newTerminal = Cardinality((DOMAIN read \ (rest \ {id})) \ counted)
    <3>1. Cardinality(others \cup {id}) = Cardinality(others) + 1
      BY <1>4, <1>5, FS_AddElement
    <3> QED
      BY <1>2, <1>7, <2>1, <3>1
  <2>3. newActive = Cardinality(counted)
    BY <1>2, <1>7
  <2>4. counted \in SUBSET (DOMAIN read \ (rest \ {id}))
    OBVIOUS
  <2>5. id \notin Live(read, t)
    BY <1>7 DEF Live
  <2>6. ~BackwardClock => Live(read, t) \ (rest \ {id}) \subseteq counted
    BY <1>2, <2>5
  <2> QED
    BY <1>1, <1>2, <2>2, <2>3, <2>4, <2>6 DEF Counts
<1> QED
  BY <1>6, <1>7

\* What the report says in the end.
LEMMA CountsDone ==
  ASSUME NEW since, NEW read, NEW active, NEW terminal, NEW t,
         Counts(since, read, {}, active, terminal, t)
  PROVE  /\ active + terminal = Cardinality(DOMAIN read)
         /\ ~BackwardClock => /\ active <= Cardinality(Live(read, since))
                              /\ active >= Cardinality(Live(read, t))
<1>1. PICK counted \in SUBSET (DOMAIN read) :
        /\ active = Cardinality(counted)
        /\ terminal = Cardinality(DOMAIN read \ counted)
        /\ ~BackwardClock =>
             Live(read, t) \subseteq counted /\ counted \subseteq Live(read, since)
  <2>1. DOMAIN read \ {} = DOMAIN read /\ Live(read, t) \ {} = Live(read, t)
    OBVIOUS
  <2> QED
    BY <2>1 DEF Counts
<1>2. IsFiniteSet(DOMAIN read)
  BY StoreAssumption, FS_Subset DEF Counts
<1>3. Live(read, since) \in SUBSET (DOMAIN read)
  BY DEF Live
<1>4. IsFiniteSet(counted) /\ IsFiniteSet(Live(read, since)) /\ Cardinality(counted) \in Nat
  BY <1>2, <1>3, FS_Subset, FS_CardinalityType
<1>5. active + terminal = Cardinality(DOMAIN read)
  <2>1. Cardinality(DOMAIN read \ counted)
          = Cardinality(DOMAIN read) - Cardinality(DOMAIN read \cap counted)
    BY <1>2, FS_Difference
  <2>2. DOMAIN read \cap counted = counted
    OBVIOUS
  <2>3. Cardinality(DOMAIN read) \in Nat
    BY <1>2, FS_CardinalityType
  <2> QED
    BY <1>1, <1>4, <2>1, <2>2, <2>3
<1>6. ~BackwardClock => active <= Cardinality(Live(read, since))
  BY <1>1, <1>4, FS_Subset
<1>7. ~BackwardClock => Cardinality(Live(read, t)) <= active
  BY <1>1, <1>4, FS_Subset
<1>8. ~BackwardClock => active >= Cardinality(Live(read, t))
  <2> SUFFICES ASSUME ~BackwardClock
               PROVE  active >= Cardinality(Live(read, t))
    OBVIOUS
  <2>1. Live(read, t) \in SUBSET counted
    BY <1>1
  <2>2. Cardinality(Live(read, t)) \in Nat
    BY <1>4, <2>1, FS_Subset, FS_CardinalityType
  <2> QED
    BY <1>1, <1>4, <1>7, <2>2
<1> QED
  BY <1>5, <1>6, <1>8

Counting(since, read, rest, active, terminal, latest) ==
  [kind |-> "holder", since |-> since, read |-> read, rest |-> rest,
   active |-> active, terminal |-> terminal, latest |-> latest]

HolderCounts ==
  reader.kind = "holder" =>
    \E since, read, rest, active, terminal, latest :
      /\ reader = Counting(since, read, rest, active, terminal, latest)
      /\ Counts(since, read, rest, active, terminal, now)

LEMMA ReadHolderCounts ==
  ASSUME TypeOK, ReadHolder, now' = now
  PROVE  HolderCounts'
<1>1. PICK h \in Holder :
        reader' = Counting(now, [id \in LeasesByHolder(h) |-> leases[id]],
                           LeasesByHolder(h), 0, 0, 0)
  BY DEF ReadHolder, Counting
<1> DEFINE rows == LeasesByHolder(h)
           read == [id \in rows |-> leases[id]]
<1>2. rows \subseteq DOMAIN leases /\ DOMAIN read = rows
  BY DEF LeasesByHolder, ListLeases
<1>3. now \in Int /\ \A id \in rows : read[id].expires_at \in Int /\ id \in LeaseId
  BY <1>2, TimeType DEF TypeOK, LeaseRow, Int64
<1>4. Counts(now, read, rows, 0, 0, now)
  <2> HIDE DEF rows, read
  <2>1. {} \in SUBSET (DOMAIN read \ rows)
    OBVIOUS
  <2>2. Cardinality({}) = 0 /\ (DOMAIN read \ rows) \ {} = {}
    BY <1>2, FS_EmptySet
  <2>3. Live(read, now) \ rows \subseteq {}
    BY <1>2 DEF Live
  <2>4. now <= now
    BY <1>3
  <2>5. \E counted \in SUBSET (DOMAIN read \ rows) :
          /\ 0 = Cardinality(counted)
          /\ 0 = Cardinality((DOMAIN read \ rows) \ counted)
          /\ ~BackwardClock =>
               Live(read, now) \ rows \subseteq counted /\ counted \subseteq Live(read, now)
    BY <2>1, <2>2, <2>3
  <2> QED
    BY <1>2, <1>3, <2>4, <2>5 DEF Counts
<1> HIDE DEF read, rows
<1>5. reader' = Counting(now, read, rows, 0, 0, 0)
  BY <1>1 DEF read, rows
<1> QED
  BY <1>4, <1>5 DEF HolderCounts

LEMMA CountRowCounts ==
  ASSUME HolderCounts, CountRow, now' = now
  PROVE  HolderCounts'
<1>1. PICK since, read, rest, active, terminal, latest :
        /\ reader = Counting(since, read, rest, active, terminal, latest)
        /\ Counts(since, read, rest, active, terminal, now)
  BY DEF HolderCounts, CountRow
<1>2. /\ reader.rest = rest /\ reader.read = read
      /\ reader.active = active /\ reader.terminal = terminal /\ reader.latest = latest
  BY <1>1 DEF Counting
<1>3. PICK id \in rest :
        reader' = [reader EXCEPT
          !.rest = @ \ {id},
          !.active = IF CountsAsActive(read[id]) THEN @ + 1 ELSE @,
          !.terminal = IF CountsAsActive(read[id]) THEN @ ELSE @ + 1,
          !.latest = Max({@, read[id].expires_at})]
  BY <1>2 DEF CountRow
<1> DEFINE newActive == IF CountsAsActive(read[id]) THEN active + 1 ELSE active
           newTerminal == IF CountsAsActive(read[id]) THEN terminal ELSE terminal + 1
           newLatest == Max({latest, read[id].expires_at})
<1>4. IF read[id].status = "active" /\ read[id].expires_at > now
      THEN newActive = active + 1 /\ newTerminal = terminal
      ELSE newActive = active /\ newTerminal = terminal + 1
  BY DEF CountsAsActive
<1>5. reader' = [reader EXCEPT !.rest = rest \ {id}, !.active = newActive,
                               !.terminal = newTerminal, !.latest = newLatest]
  BY <1>2, <1>3
<1> HIDE DEF newActive, newTerminal, newLatest
<1>6. reader' = Counting(since, read, rest \ {id}, newActive, newTerminal, newLatest)
  BY <1>1, <1>5 DEF Counting
<1>7. Counts(since, read, rest \ {id}, newActive, newTerminal, now)
  <2>1. PICK t : t = now
    OBVIOUS
  <2> QED
    BY <1>1, <1>4, <2>1, CountsOneMore
<1> QED
  BY <1>6, <1>7 DEF HolderCounts

LEMMA LaterCounts ==
  ASSUME HolderCounts, UNCHANGED reader, now \in Int, now' \in Int,
         ~BackwardClock => now <= now'
  PROVE  HolderCounts'
<1> SUFFICES ASSUME reader.kind = "holder"
             PROVE  HolderCounts'
  BY DEF HolderCounts
<1>1. PICK since, read, rest, active, terminal, latest :
        /\ reader = Counting(since, read, rest, active, terminal, latest)
        /\ Counts(since, read, rest, active, terminal, now)
  BY DEF HolderCounts
<1>2. PICK t \in Int, u \in Int : t = now /\ u = now'
  OBVIOUS
<1>3. Counts(since, read, rest, active, terminal, u)
  BY <1>1, <1>2, CountsLater
<1> QED
  BY <1>1, <1>2, <1>3 DEF HolderCounts

LEMMA StepCounts ==
  ASSUME TypeOK, HolderCounts, [ReportsNext]_rvars
  PROVE  HolderCounts'
<1>1. CASE UNCHANGED reader
  <2>1. now \in Int /\ now' \in Int
    BY ReportSteps, StepType, ManagerAssumption DEF TypeOK, Time
  <2>2. ~BackwardClock => now <= now'
    <3>1. Stamps
      BY ReportSteps, StepStamps
    <3> QED
      BY <2>1, <3>1 DEF Stamps
  <2> QED
    BY <1>1, <2>1, <2>2, LaterCounts
<1>2. CASE ReadHolder
  BY <1>2, ReadHolderCounts DEF ReadHolder, vars
<1>3. CASE CountRow
  BY <1>3, CountRowCounts DEF CountRow, vars
<1>4. CASE BundleResources \/ BundleAudit \/ ReadLease \/ AdviseOnLease \/ AnswerHolder
  <2>1. reader'.kind \in {"bundle", "answer", "lease"}
    <3>1. CASE ReadLease
      BY <3>1 DEF ReadLease
    <3> QED
      BY <1>4, <3>1 DEF BundleResources, BundleAudit, AdviseOnLease, AnswerHolder
  <2> QED
    BY <2>1 DEF HolderCounts
<1>5. CASE RestartReader
  BY <1>5 DEF RestartReader, Idle, HolderCounts
<1> QED
  BY <1>1, <1>2, <1>3, <1>4, <1>5 DEF ReportsNext, Writers, rvars

\* From "holder" the reader goes only to the answer, or dies.
LEMMA FromHolder ==
  ASSUME reader.kind = "holder", reader'.kind = "answer", [ReportsNext]_rvars
  PROVE  AnswerHolder
<1>1. ~BundleAudit /\ ~AdviseOnLease
  BY DEF BundleAudit, AdviseOnLease
<1>2. ~CountRow
  <2>1. CountRow => reader'.kind = reader.kind
    BY DEF CountRow
  <2> QED
    BY <2>1
<1>3. ~BundleResources /\ ~ReadLease /\ ~ReadHolder
  BY DEF BundleResources, ReadLease, ReadHolder, Free
<1>4. ~RestartReader
  BY DEF RestartReader, Idle
<1>5. ~UNCHANGED reader
  OBVIOUS
<1> QED
  BY <1>1, <1>2, <1>3, <1>4, <1>5 DEF ReportsNext, Writers, rvars

\* A row that the report read as terminal is terminal in the table.
ReadEndsKnown ==
  reader.kind = "holder" =>
    \A id \in DOMAIN reader.read :
      /\ id \in DOMAIN leases
      /\ reader.read[id].status = "active" \/ IsTerminal(leases[id].status)

LEMMA EndsKept ==
  ASSUME LeaseInv, [Next]_vars, NEW id \in DOMAIN leases
  PROVE  /\ id \in DOMAIN leases'
         /\ IsTerminal(leases[id].status) => IsTerminal(leases'[id].status)
<1>1. CASE UNCHANGED leases
  BY <1>1
<1>2. CASE Keeps
  BY <1>2 DEF Keeps
<1>3. ASSUME NEW gone, NEW status, NEW new, NEW row,
             \/ leases' = SetLeaseStatus(leases, gone, "active", status)
             \/ /\ new \notin DOMAIN leases
                /\ leases' = InsertLease(
                     SetLeaseStatus(leases, gone, "active", status), new, row)
      PROVE  /\ id \in DOMAIN leases'
             /\ IsTerminal(leases[id].status) => IsTerminal(leases'[id].status)
  BY <1>3 DEF SetLeaseStatus, InsertLease, IsTerminal, Terminal
<1>4. CASE Shape
  BY <1>2, <1>3, <1>4 DEF Shape, Ends, Grants
<1> QED
  BY <1>1, <1>4, StepShape DEF vars, tables

LEMMA ReadEndsKept ==
  ASSUME LeaseInv, ReadEndsKnown, [ReportsNext]_rvars
  PROVE  ReadEndsKnown'
<1>1. \A id \in DOMAIN leases :
        /\ id \in DOMAIN leases'
        /\ IsTerminal(leases[id].status) => IsTerminal(leases'[id].status)
  BY ReportSteps, EndsKept
<1>2. CASE UNCHANGED reader
  BY <1>1, <1>2 DEF ReadEndsKnown
<1>3. CASE ReadHolder
  <2>1. PICK h \in Holder :
          reader' = Counting(now, [id \in LeasesByHolder(h) |-> leases[id]],
                             LeasesByHolder(h), 0, 0, 0)
    BY <1>3 DEF ReadHolder, Counting
  <2>2. reader'.read = [id \in LeasesByHolder(h) |-> leases[id]]
    BY <2>1 DEF Counting
  <2>3. LeasesByHolder(h) \subseteq DOMAIN leases
    BY DEF LeasesByHolder, ListLeases
  <2>4. UNCHANGED leases /\ \A id \in DOMAIN leases :
          leases[id].status = "active" \/ IsTerminal(leases[id].status)
    BY <1>3 DEF ReadHolder, vars, tables, LeaseInv, TypeOK, LeaseRow, Status, IsTerminal
  <2> QED
    BY <2>2, <2>3, <2>4 DEF ReadEndsKnown
<1>4. CASE CountRow
  <2>1. reader'.read = reader.read /\ reader.kind = "holder"
    BY <1>4 DEF CountRow
  <2> QED
    BY <1>1, <2>1 DEF ReadEndsKnown
<1>5. CASE BundleResources \/ BundleAudit \/ ReadLease \/ AdviseOnLease \/ AnswerHolder
  <2>1. reader'.kind \in {"bundle", "answer", "lease"}
    <3>1. CASE ReadLease
      BY <3>1 DEF ReadLease
    <3> QED
      BY <1>5, <3>1 DEF BundleResources, BundleAudit, AdviseOnLease, AnswerHolder
  <2> QED
    BY <2>1 DEF ReadEndsKnown
<1>6. CASE RestartReader
  BY <1>6 DEF RestartReader, Idle, ReadEndsKnown
<1> QED
  BY <1>2, <1>3, <1>4, <1>5, <1>6 DEF ReportsNext, Writers, rvars

LEMMA StepReport ==
  ASSUME TypeOK, HolderCounts, ReadEndsKnown, [ReportsNext]_rvars,
         ~BackwardClock, reader.kind = "holder", reader'.kind = "answer"
  PROVE  LET read == reader.read
             live == {id \in DOMAIN read :
                        read[id].status = "active" /\ read[id].expires_at > reader.since}
             stillLive == {id \in DOMAIN read :
                             /\ leases[id].status = "active"
                             /\ leases[id].expires_at > now
                             /\ leases[id].expires_at <= read[id].expires_at}
         IN /\ reader'.active + reader'.terminal = Cardinality(DOMAIN read)
            /\ reader'.active <= Cardinality(live)
            /\ reader'.active >= Cardinality(stillLive)
<1>1. PICK since, read, rest, active, terminal, latest :
        /\ reader = Counting(since, read, rest, active, terminal, latest)
        /\ Counts(since, read, rest, active, terminal, now)
  BY DEF HolderCounts
<1>2. /\ reader.rest = rest /\ reader.read = read /\ reader.since = since
      /\ reader.active = active /\ reader.terminal = terminal
  BY <1>1 DEF Counting
<1>3. rest = {} /\ reader'.active = active /\ reader'.terminal = terminal
  BY <1>2, FromHolder DEF AnswerHolder
<1>4. PICK t : t = now
  OBVIOUS
<1>5. Counts(since, read, {}, active, terminal, t)
  BY <1>1, <1>3, <1>4
<1>6. /\ active + terminal = Cardinality(DOMAIN read)
      /\ active <= Cardinality(Live(read, since))
      /\ active >= Cardinality(Live(read, t))
  BY <1>5, CountsDone
<1> DEFINE stillLive == {id \in DOMAIN read :
                           /\ leases[id].status = "active"
                           /\ leases[id].expires_at > now
                           /\ leases[id].expires_at <= read[id].expires_at}
<1>7. stillLive \subseteq Live(read, t)
  <2> SUFFICES ASSUME NEW id \in stillLive
               PROVE  read[id].status = "active" /\ read[id].expires_at > t
    BY DEF Live
  <2>1. id \in DOMAIN leases /\ read[id].status = "active"
    BY <1>2 DEF ReadEndsKnown, IsTerminal, Terminal
  <2>2. leases[id].expires_at \in Int /\ now \in Int /\ read[id].expires_at \in Int
    BY <1>5, <2>1, TimeType DEF Counts, TypeOK, LeaseRow, Int64
  <2> QED
    BY <1>4, <2>1, <2>2
<1>8. active >= Cardinality(stillLive)
  <2>1. IsFiniteSet(Live(read, t))
    BY <1>5, StoreAssumption, FS_Subset DEF Counts, Live
  <2> HIDE DEF stillLive
  <2>2. /\ Cardinality(stillLive) <= Cardinality(Live(read, t))
        /\ Cardinality(stillLive) \in Nat /\ Cardinality(Live(read, t)) \in Nat
    BY <1>7, <2>1, FS_Subset, FS_CardinalityType
  <2>3. active \in Nat
    <3>1. PICK counted \in SUBSET (DOMAIN read) : active = Cardinality(counted)
      BY <1>5 DEF Counts
    <3> QED
      BY <1>5, <3>1, StoreAssumption, FS_Subset, FS_CardinalityType DEF Counts
  <2> QED
    BY <1>6, <2>2, <2>3
<1> QED
  BY <1>2, <1>3, <1>6, <1>8 DEF Live

\* The report on a holder counts each lease that it read once; what it calls
\* active was live when it read, and whatever of it is live in the table when it
\* answers is among that, unless its deadline was moved on meanwhile: for any
\* number of leases, any commits and any clock readings in between.
THEOREM HolderReportSound == ReportsSpec => HolderReportBetween
<1>1. ReportsInit => HolderCounts /\ ReadEndsKnown
  BY DEF ReportsInit, Idle, HolderCounts, ReadEndsKnown
<1>2. LeaseInv => TypeOK
  BY DEF LeaseInv
<1>3. LeaseInv /\ HolderCounts /\ ReadEndsKnown /\ [ReportsNext]_rvars =>
        (HolderCounts /\ ReadEndsKnown)'
  BY <1>2, StepCounts, ReadEndsKept
<1>4. LeaseInv /\ HolderCounts /\ ReadEndsKnown /\ [ReportsNext]_rvars =>
        [(~BackwardClock /\ reader.kind = "holder" /\ reader'.kind = "answer") =>
           LET read == reader.read
               live == {id \in DOMAIN read :
                          read[id].status = "active" /\ read[id].expires_at > reader.since}
               stillLive == {id \in DOMAIN read :
                               /\ leases[id].status = "active"
                               /\ leases[id].expires_at > now
                               /\ leases[id].expires_at <= read[id].expires_at}
           IN /\ reader'.active + reader'.terminal = Cardinality(DOMAIN read)
              /\ reader'.active <= Cardinality(live)
              /\ reader'.active >= Cardinality(stillLive)]_rvars
  BY <1>2, StepReport
<1> QED
  BY <1>1, <1>3, <1>4, ReadersOnlyRead, LeaseInvariant, PTL
     DEF ReportsSpec, HolderReportBetween

-----------------------------------------------------------------------------
(* The order of a listing *)

\* How many of the rows come after row i.
Rank(rows, i) == Cardinality({j \in rows : j > i})

LEMMA RankType ==
  ASSUME NEW rows \in SUBSET Nat, IsFiniteSet(rows), NEW i \in rows
  PROVE  Rank(rows, i) \in Nat /\ Rank(rows, i) < Cardinality(rows)
<1> DEFINE after == {j \in rows : j > i}
<1>1. after \in SUBSET rows /\ i \notin after
  OBVIOUS
<1> HIDE DEF after
<1>2. IsFiniteSet(after)
  BY <1>1, FS_Subset
<1>3. /\ Cardinality(after) \in Nat /\ Cardinality(rows) \in Nat
      /\ Cardinality(after) <= Cardinality(rows)
      /\ Cardinality(after) = Cardinality(rows) => after = rows
  BY <1>1, <1>2, FS_Subset, FS_CardinalityType
<1> QED
  BY <1>1, <1>3 DEF Rank, after

LEMMA RankFalls ==
  ASSUME NEW rows \in SUBSET Nat, IsFiniteSet(rows),
         NEW i \in rows, NEW k \in rows, i < k
  PROVE  Rank(rows, k) < Rank(rows, i)
<1> DEFINE afterI == {j \in rows : j > i}
           afterK == {j \in rows : j > k}
<1>1. afterK \in SUBSET afterI /\ k \in afterI /\ k \notin afterK /\ afterI \in SUBSET rows
  <2>1. \A j \in rows : j > k => j > i
    OBVIOUS
  <2>2. k > i /\ ~(k > k)
    OBVIOUS
  <2> QED
    BY <2>1, <2>2
<1> HIDE DEF afterI, afterK
<1>2. IsFiniteSet(afterI)
  BY <1>1, FS_Subset
<1>3. IsFiniteSet(afterK)
  BY <1>1, <1>2, FS_Subset
<1>4. /\ Cardinality(afterI) \in Nat /\ Cardinality(afterK) \in Nat
      /\ Cardinality(afterK) <= Cardinality(afterI)
      /\ Cardinality(afterK) = Cardinality(afterI) => afterK = afterI
  BY <1>1, <1>2, <1>3, FS_Subset, FS_CardinalityType
<1>5. Cardinality(afterK) < Cardinality(afterI)
  BY <1>1, <1>4
<1> QED
  BY <1>5 DEF Rank, afterI, afterK

\* Every rank below their number is taken by one of the rows.
LEMMA RankTaken ==
  ASSUME NEW rows \in SUBSET Nat, IsFiniteSet(rows), NEW k \in 1 .. Cardinality(rows)
  PROVE  \E i \in rows : Rank(rows, i) = k - 1
<1> DEFINE n == Cardinality(rows)
           f == [i \in rows |-> Rank(rows, i) + 1]
<1>1. n \in Nat
  BY FS_CardinalityType
<1>2. f \in [rows -> 1 .. n]
  BY <1>1, RankType
<1>3. \A i, j \in rows : f[i] = f[j] => i = j
  <2> SUFFICES ASSUME NEW i \in rows, NEW j \in rows, f[i] = f[j]
               PROVE  i = j
    OBVIOUS
  <2>1. Rank(rows, i) \in Nat /\ Rank(rows, j) \in Nat /\ Rank(rows, i) = Rank(rows, j)
    BY RankType
  <2>2. ~(i < j) /\ ~(j < i)
    BY <2>1, RankFalls
  <2> QED
    BY <2>2
<1>4. IsFiniteSet(1 .. n) /\ Cardinality(1 .. n) = n
  BY <1>1, FS_Interval
<1> HIDE DEF f
<1>5. f \in Injection(rows, 1 .. n)
  BY <1>2, <1>3 DEF Injection, IsInjective
<1>6. f \in Surjection(rows, 1 .. n)
  BY <1>4, <1>5, FS_Injection
<1>7. PICK i \in rows : f[i] = k
  BY <1>6 DEF Surjection
<1>8. Rank(rows, i) + 1 = k /\ Rank(rows, i) \in Nat
  BY <1>7, RankType DEF f
<1> QED
  BY <1>8

\* A list of the rows by their rank goes back from the last of them.
LEMMA RankedBack ==
  ASSUME NEW rows \in SUBSET Nat, IsFiniteSet(rows),
         NEW k \in 1 .. Cardinality(rows), NEW m \in 1 .. Cardinality(rows), k < m
  PROVE  LET pick(x) == CHOOSE i \in rows : Rank(rows, i) = x - 1 IN pick(k) > pick(m)
<1> DEFINE pick(x) == CHOOSE i \in rows : Rank(rows, i) = x - 1
<1>1. ASSUME NEW x \in 1 .. Cardinality(rows)
      PROVE  pick(x) \in rows /\ Rank(rows, pick(x)) = x - 1
  BY RankTaken
<1>2. PICK i \in rows, j \in rows : i = pick(k) /\ j = pick(m)
  BY <1>1
<1> HIDE DEF pick
<1>3. Rank(rows, i) = k - 1 /\ Rank(rows, j) = m - 1
  BY <1>1, <1>2
<1>4. i # j /\ ~(i < j)
  <2>1. i < j => Rank(rows, j) < Rank(rows, i)
    BY RankFalls
  <2> QED
    BY <1>3, <2>1
<1>5. i > j
  BY <1>4
<1> QED
  BY <1>2, <1>5 DEF pick

\* The rows on id, all of them for "any".
RowsOn(id) ==
  {i \in DOMAIN audit :
     /\ Matches(audit[i].lease_id, id)
     /\ Matches(audit[i].resource, "any")
     /\ Matches(audit[i].action, "any")}

Pick(rows, k) == CHOOSE i \in rows : Rank(rows, i) = k - 1

LEMMA ListedByRank ==
  ASSUME TypeOK, PastInOrder, ~BackwardClock, NEW id, NEW limit \in Nat
  PROVE  /\ RowsOn(id) \in SUBSET Nat /\ IsFiniteSet(RowsOn(id))
         /\ \E n \in 0 .. Cardinality(RowsOn(id)) :
              /\ limit = 0 => n = Cardinality(RowsOn(id))
              /\ ListAudit(id, "any", "any", limit) = [k \in 1 .. n |-> Pick(RowsOn(id), k)]
<1> DEFINE rows == RowsOn(id)
           n == Cardinality(rows)
           newer(i) == {j \in rows : Newer(j, i)}
           m == IF limit > 0 THEN Min({limit, n}) ELSE n
<1>1. audit \in Seq(AuditRow) /\ DOMAIN audit = 1 .. Len(audit) /\ Len(audit) \in Nat
  BY DEF TypeOK
<1>2. rows \in SUBSET (1 .. Len(audit))
  BY <1>1 DEF RowsOn
<1>3. rows \in SUBSET Nat /\ IsFiniteSet(rows)
  <2>1. IsFiniteSet(1 .. Len(audit)) /\ (1 .. Len(audit)) \subseteq Nat
    BY <1>1, FS_Interval
  <2> QED
    BY <1>2, <2>1, FS_Subset
<1>4. \A i, j \in rows : Newer(j, i) <=> j > i
  <2> SUFFICES ASSUME NEW i \in 1 .. Len(audit), NEW j \in 1 .. Len(audit)
               PROVE  Newer(j, i) <=> j > i
    BY <1>2
  <2>1. audit[i].at \in Int /\ audit[j].at \in Int
    <3>1. audit[i] \in AuditRow /\ audit[j] \in AuditRow
      BY <1>1
    <3>2. \A e \in AuditRow : e.at \in Int
      BY StoreAssumption DEF AuditRow, Int64
    <3> QED
      BY <3>1, <3>2
  <2>2. /\ i < j => audit[i].at <= audit[j].at
        /\ j < i => audit[j].at <= audit[i].at
    BY <1>1 DEF PastInOrder
  <2> QED
    BY <2>1, <2>2 DEF Newer
<1> HIDE DEF rows
<1>5. \A i \in rows : Cardinality(newer(i)) = Rank(rows, i)
  <2> SUFFICES ASSUME NEW i \in rows
               PROVE  Cardinality(newer(i)) = Rank(rows, i)
    OBVIOUS
  <2>1. newer(i) = {j \in rows : j > i}
    BY <1>4
  <2> QED
    BY <2>1 DEF Rank
<1> HIDE DEF newer
<1>6. \A k : (CHOOSE i \in rows : Cardinality(newer(i)) = k - 1) = Pick(rows, k)
  <2> SUFFICES ASSUME NEW k
               PROVE  (CHOOSE i \in rows : Cardinality(newer(i)) = k - 1) = Pick(rows, k)
    OBVIOUS
  <2>1. \A i \in rows : Cardinality(newer(i)) = k - 1 <=> Rank(rows, i) = k - 1
    BY <1>5
  <2> QED
    BY <2>1 DEF Pick
<1>7. n \in Nat
  BY <1>3, FS_CardinalityType
<1> HIDE DEF n
<1>8. m \in 0 .. n /\ (limit = 0 => m = n)
  <2>1. CASE limit > 0
    <3>1. \E x \in {limit, n} : \A y \in {limit, n} : x =< y
      <4>1. limit <= n \/ n <= limit
        BY <1>7
      <4>2. limit <= limit /\ n <= n
        BY <1>7
      <4> QED
        BY <4>1, <4>2
    <3>2. Min({limit, n}) \in {limit, n} /\ Min({limit, n}) <= n
      BY <3>1 DEF Min
    <3> QED
      BY <1>7, <2>1, <3>2
  <2>2. CASE limit = 0
    BY <1>7, <2>2
  <2> QED
    BY <2>1, <2>2
<1>9. ListAudit(id, "any", "any", limit)
        = [k \in 1 .. m |-> CHOOSE i \in rows : Cardinality(newer(i)) = k - 1]
  BY DEF ListAudit, RowsOn, rows, n, newer
<1> HIDE DEF m
<1>10. ListAudit(id, "any", "any", limit) = [k \in 1 .. m |-> Pick(rows, k)]
  BY <1>6, <1>9
<1> QED
  BY <1>3, <1>8, <1>10 DEF rows, n

LEMMA OrderedListing ==
  ASSUME TypeOK, PastInOrder
  PROVE  NewestFirst
<1> SUFFICES ASSUME ~BackwardClock, NEW id \in LeaseId \cup {"any"},
                    NEW limit \in 0 .. Len(audit)
             PROVE  LET rows == ListAudit(id, "any", "any", limit)
                        all == ListAudit(id, "any", "any", 0)
                    IN /\ \A k \in 1 .. Len(rows) - 1 : rows[k] > rows[k + 1]
                       /\ \A k \in DOMAIN all :
                            k > Len(rows) => \A m \in Range(rows) : m > all[k]
  BY DEF NewestFirst
<1> DEFINE rows == ListAudit(id, "any", "any", limit)
           all == ListAudit(id, "any", "any", 0)
<1>1. PICK found \in SUBSET Nat : found = RowsOn(id) /\ IsFiniteSet(found)
  BY ListedByRank
<1>2. PICK n \in 0 .. Cardinality(found) : rows = [k \in 1 .. n |-> Pick(found, k)]
  BY <1>1, ListedByRank
<1>3. all = [k \in 1 .. Cardinality(found) |-> Pick(found, k)]
  <2>1. 0 \in Nat
    OBVIOUS
  <2> QED
    BY <1>1, <2>1, ListedByRank
<1> HIDE DEF rows, all
<1>4. Cardinality(found) \in Nat
  BY <1>1, FS_CardinalityType
<1>5. Len(rows) = n
  <2> DEFINE S == {Pick(found, k) : k \in 1 .. n}
  <2>1. rows \in [1 .. n -> S]
    BY <1>2
  <2> HIDE DEF S
  <2> QED
    BY <1>4, <2>1
<1>6. ASSUME NEW k \in 1 .. Cardinality(found), NEW m \in 1 .. Cardinality(found), k < m
      PROVE  Pick(found, k) > Pick(found, m)
  BY <1>1, <1>6, RankedBack DEF Pick
<1>7. ASSUME NEW k \in 1 .. Len(rows) - 1
      PROVE  rows[k] > rows[k + 1]
  <2>1. /\ k \in 1 .. n /\ k + 1 \in 1 .. n
        /\ k \in 1 .. Cardinality(found) /\ k + 1 \in 1 .. Cardinality(found) /\ k < k + 1
    BY <1>4, <1>5
  <2>2. rows[k] = Pick(found, k) /\ rows[k + 1] = Pick(found, k + 1)
    BY <1>2, <2>1
  <2> QED
    BY <1>6, <2>1, <2>2
<1>8. ASSUME NEW k \in DOMAIN all, k > Len(rows), NEW m \in Range(rows)
      PROVE  m > all[k]
  <2>1. k \in 1 .. Cardinality(found) /\ all[k] = Pick(found, k)
    BY <1>3
  <2>2. PICK j \in 1 .. n : m = rows[j]
    BY <1>2 DEF Range
  <2>3. m = Pick(found, j)
    BY <1>2, <2>2
  <2>4. j \in 1 .. Cardinality(found) /\ j < k
    BY <1>4, <1>5, <1>8, <2>1
  <2> QED
    BY <1>6, <2>1, <2>3, <2>4
<1> QED
  BY <1>7, <1>8 DEF rows, all

\* ListAudit goes back from the end of the log whenever nobody sets the clock
\* back, also among the rows of one second, and a limit cuts off its old end.
THEOREM ListingsNewestFirst == ReportsSpec => []NewestFirst
<1>1. TypeOK /\ PastInOrder => NewestFirst
  BY OrderedListing
<1> QED
  BY <1>1, ReadersOnlyRead, TypeCorrect, PastOrdered, PTL

-----------------------------------------------------------------------------
(* The stats *)

GrantNumbers == {i \in DOMAIN audit : IsGrant(audit[i])}

\* Every grant in the log is of a lease, and every lease has one grant.
GrantsAreLeases ==
  /\ \A i \in GrantNumbers : audit[i].lease_id \in DOMAIN leases
  /\ \A i, j \in GrantNumbers : audit[i].lease_id = audit[j].lease_id => i = j
  /\ \A id \in DOMAIN leases : \E i \in GrantNumbers : audit[i].lease_id = id

LEMMA GrantsStay ==
  ASSUME LeaseInv, GrantsAreLeases, GrantsNothing
  PROVE  GrantsAreLeases'
<1>1. DOMAIN leases' = DOMAIN leases
  BY DEF GrantsNothing
<1>2. CASE UNCHANGED audit
  <2>1. GrantNumbers' = GrantNumbers
    BY <1>2 DEF GrantNumbers
  <2> QED
    BY <1>1, <1>2, <2>1 DEF GrantsAreLeases
<1>3. CASE AppendsPlain
  <2>1. /\ LogGrows
        /\ \A i \in Len(audit) + 1 .. Len(audit') : ~IsGrant(audit'[i])
    BY <1>3, PlainGrows DEF PlainRow
  <2>2. /\ DOMAIN audit \subseteq DOMAIN audit'
        /\ \A i \in DOMAIN audit : audit'[i] = audit[i]
        /\ \A i \in DOMAIN audit' : i \in DOMAIN audit \/ i \in Len(audit) + 1 .. Len(audit')
    BY <2>1 DEF LogGrows, LeaseInv, TypeOK
  <2>3. GrantNumbers' = GrantNumbers
    BY <2>1, <2>2 DEF GrantNumbers
  <2>4. \A i \in GrantNumbers : audit'[i] = audit[i]
    BY <2>2 DEF GrantNumbers
  <2> QED
    BY <1>1, <2>3, <2>4 DEF GrantsAreLeases
<1> QED
  BY <1>2, <1>3 DEF GrantsNothing

LEMMA GrantsAdded ==
  ASSUME LeaseInv, GrantsAreLeases, NEW action, LogsGrant(action)
  PROVE  GrantsAreLeases'
<1>1. PICK e \in GrantRow :
        /\ AppendsGrant(e)
        /\ Counter(e.resource)' = e.fencing_token
        /\ e.lease_id \notin DOMAIN leases
        /\ DOMAIN leases' = DOMAIN leases \cup {e.lease_id}
  BY DEF LogsGrant
<1>2. /\ LogGrows /\ Len(audit') > Len(audit)
      /\ audit'[Len(audit')] = e
      /\ \A i \in Len(audit) + 1 .. Len(audit') - 1 : ~IsGrant(audit'[i])
  BY <1>1, GrantGrows DEF PlainRow
<1>3. PICK n \in Nat : n = Len(audit')
  BY <1>2 DEF LogGrows
<1>4. /\ DOMAIN audit \subseteq DOMAIN audit'
      /\ n \in DOMAIN audit' /\ n \notin DOMAIN audit
      /\ \A i \in DOMAIN audit : audit'[i] = audit[i]
      /\ \A i \in DOMAIN audit' :
           i \in DOMAIN audit \/ i = n \/ i \in Len(audit) + 1 .. Len(audit') - 1
  BY <1>2, <1>3 DEF LogGrows, LeaseInv, TypeOK
<1>5. audit'[n] = e /\ IsGrant(e)
  BY <1>1, <1>2, <1>3 DEF GrantRow
<1>6. GrantNumbers' = GrantNumbers \cup {n} /\ n \notin GrantNumbers
  BY <1>2, <1>4, <1>5 DEF GrantNumbers
<1>7. \A i \in GrantNumbers : audit'[i] = audit[i]
  BY <1>4 DEF GrantNumbers
<1>8. /\ \A i \in GrantNumbers : audit[i].lease_id \in DOMAIN leases
      /\ \A i, j \in GrantNumbers : audit[i].lease_id = audit[j].lease_id => i = j
      /\ \A id \in DOMAIN leases : \E i \in GrantNumbers : audit[i].lease_id = id
  BY DEF GrantsAreLeases
<1>9. \A i \in GrantNumbers' : audit'[i].lease_id \in DOMAIN leases'
  BY <1>1, <1>5, <1>6, <1>7, <1>8
<1>10. \A i, j \in GrantNumbers' : audit'[i].lease_id = audit'[j].lease_id => i = j
  BY <1>1, <1>5, <1>6, <1>7, <1>8
<1>11. \A id \in DOMAIN leases' : \E i \in GrantNumbers' : audit'[i].lease_id = id
  BY <1>1, <1>5, <1>6, <1>7, <1>8
<1> QED
  BY <1>9, <1>10, <1>11 DEF GrantsAreLeases

LEMMA StepGrants ==
  ASSUME LeaseInv, GrantsAreLeases, [Next]_vars
  PROVE  GrantsAreLeases'
BY NextIsAny, AnyStepAppends, GrantsStay, GrantsAdded

\* The table of resources grows by at most one row at a time.
OneMoreResource == \E r : DOMAIN resources' \subseteq DOMAIN resources \cup {r}

LEMMA UpsertAdds ==
  ASSUME NEW r, NEW token, NEW id,
         resources' = UpsertResourceFencing(resources, r, token, id)
  PROVE  OneMoreResource
<1>1. DOMAIN resources' = DOMAIN resources \cup {r}
  BY DEF UpsertResourceFencing, PutResource
<1> QED
  BY <1>1 DEF OneMoreResource

LEMMA StepResources ==
  ASSUME LeaseInv, [Next]_vars
  PROVE  OneMoreResource
<1>1. UNCHANGED resources => OneMoreResource
  BY DEF OneMoreResource
<1>2. CASE AcquireRequest
  <2>1. PICK r \in Resource, h \in Holder, ttl \in TTL, id \in LeaseId :
          Acquire(r, h, ttl, id)
    BY <1>2 DEF AcquireRequest
  <2>2. resources' = UpsertResourceFencing(resources, r, NextToken(r), id)
    BY <2>1 DEF Acquire
  <2>3. PICK token : token = NextToken(r)
    OBVIOUS
  <2> QED
    BY <2>2, <2>3, UpsertAdds
<1>3. ASSUME NEW id, NEW new,
             resources' = UpsertResourceFencing(resources, leases[id].resource,
                                                NextToken(leases[id].resource), new)
      PROVE  OneMoreResource
  <2>1. PICK r, token : r = leases[id].resource /\ token = NextToken(r)
    OBVIOUS
  <2> QED
    BY <1>3, <2>1, UpsertAdds
<1>4. ASSUME NEW id, NEW action, Retire(id, action)
      PROVE  OneMoreResource
  BY <1>3, <1>4 DEF Retire, FreeResource
<1>5. ASSUME NEW id, NEW token, Release(id, token) \/ ForceRelease(id)
      PROVE  OneMoreResource
  BY <1>1, <1>4, <1>5 DEF Release, ForceRelease, vars, tables
<1>6. CASE LeaseRequest
  <2>1. PICK id \in LeaseId, token \in Token :
          \/ \E ttl \in TTL : Renew(id, token, ttl) \/ UpdateTTL(id, token, ttl)
          \/ Heartbeat(id, token)
          \/ Release(id, token)
          \/ \E h \in Holder, newID \in LeaseId : Transfer(id, token, h, newID)
    BY <1>6 DEF LeaseRequest
  <2>2. ASSUME NEW h \in Holder, NEW newID \in LeaseId, Transfer(id, token, h, newID)
        PROVE  OneMoreResource
    BY <1>3, <2>2 DEF Transfer
  <2>3. \A ttl \in TTL : Renew(id, token, ttl) \/ UpdateTTL(id, token, ttl)
          => UNCHANGED resources
    BY DEF Renew, UpdateTTL, Extend
  <2>4. Heartbeat(id, token) => UNCHANGED resources
    BY DEF Heartbeat
  <2> QED
    BY <1>1, <1>5, <2>1, <2>2, <2>3, <2>4
<1>7. CASE AdminRequest
  <2>1. ASSUME NEW r, NEW locked, resources' = SetResourceLocked(resources, r, locked)
        PROVE  OneMoreResource
    <3>1. DOMAIN resources' = DOMAIN resources \cup {r}
      BY <2>1 DEF SetResourceLocked, PutResource
    <3> QED
      BY <3>1 DEF OneMoreResource
  <2> QED
    BY <1>1, <1>5, <1>7, <2>1
       DEF AdminRequest, LockResource, UnlockResource, SetLock, vars, tables
<1>8. CASE Sweep \/ Recover
  <2>1. DOMAIN resources' =
          DOMAIN resources \cup {leases[id].resource : id \in ListExpiredActive(now)}
    BY <1>8 DEF Sweep, Recover, SweepCommit
  <2>2. \A id \in ListExpiredActive(now) : leases[id].resource \in DOMAIN resources
    BY DEF ListExpiredActive, LeaseInv, LeaseHasRow
  <2> QED
    BY <2>1, <2>2 DEF OneMoreResource
<1>9. CASE UNCHANGED vars \/ AuditRecover \/ Restart \/ ClockForward \/ ClockBack
  BY <1>1, <1>9 DEF vars, tables, AuditRecover, Restart, ClockForward, ClockBack
<1> QED
  BY <1>2, <1>6, <1>7, <1>8, <1>9 DEF Next

StatsInv ==
  /\ LeaseInv
  /\ LogInv
  /\ GrantsAreLeases
  /\ IsFiniteSet(DOMAIN resources)

LEMMA StepStats == StatsInv /\ [Next]_vars => StatsInv'
<1> SUFFICES ASSUME StatsInv, [Next]_vars PROVE StatsInv'
  OBVIOUS
<1>1. LeaseInv' /\ LogInv' /\ GrantsAreLeases'
  BY StepInv, StepLog, StepGrants DEF StatsInv
<1>2. IsFiniteSet(DOMAIN resources')
  <2>1. PICK r : DOMAIN resources' \subseteq DOMAIN resources \cup {r}
    BY StepResources DEF StatsInv, OneMoreResource
  <2>2. IsFiniteSet(DOMAIN resources \cup {r})
    BY FS_AddElement DEF StatsInv
  <2> QED
    BY <2>1, <2>2, FS_Subset
<1> QED
  BY <1>1, <1>2 DEF StatsInv

LEMMA InitStats == Init => StatsInv
<1> SUFFICES ASSUME Init PROVE StatsInv
  OBVIOUS
<1>1. DOMAIN audit = {} /\ DOMAIN leases = {} /\ DOMAIN resources = {}
  BY DEF Init, EmptyStore
<1>2. LogInv
  BY <1>1 DEF LogInv, LogBelowCounters, GrantTokensIncrease
<1>3. GrantsAreLeases
  BY <1>1 DEF GrantsAreLeases, GrantNumbers
<1> QED
  BY <1>1, <1>2, <1>3, InitInv, FS_EmptySet DEF StatsInv

LEMMA SameNumber ==
  ASSUME NEW S, IsFiniteSet(S), NEW T, NEW f \in [S -> T],
         \A x, y \in S : f[x] = f[y] => x = y,
         \A t \in T : \E x \in S : f[x] = t
  PROVE  IsFiniteSet(T) /\ Cardinality(T) = Cardinality(S)
<1>1. f \in Surjection(S, T)
  BY DEF Surjection
<1>2. f \in Injection(S, T)
  BY DEF Injection, IsInjective
<1> QED
  BY <1>1, <1>2, FS_Surjection

WithStatus(status) == {id \in DOMAIN leases : leases[id].status = status}

HeldResources == {r \in DOMAIN resources : resources[r].current_lease_id # NoLease}

LockedResources == {r \in DOMAIN resources : resources[r].locked}

LEMMA LeasesFinite ==
  ASSUME LeaseInv
  PROVE  /\ IsFiniteSet(DOMAIN leases)
         /\ \A status : IsFiniteSet(WithStatus(status))
<1>1. IsFiniteSet(DOMAIN leases)
  BY FS_Subset DEF LeaseInv, TypeOK
<1>2. \A status : WithStatus(status) \in SUBSET (DOMAIN leases)
  BY DEF WithStatus
<1> QED
  BY <1>1, <1>2, FS_Subset

\* As many active leases as rows that name one.
LEMMA ActiveAreHeld ==
  ASSUME LeaseInv
  PROVE  /\ IsFiniteSet(HeldResources)
         /\ Cardinality(HeldResources) = Cardinality(WithStatus("active"))
<1> DEFINE f == [id \in WithStatus("active") |-> leases[id].resource]
<1>1. \A id \in WithStatus("active") :
        /\ id \in LeaseId /\ id # NoLease
        /\ leases[id].resource \in DOMAIN resources
        /\ resources[leases[id].resource].current_lease_id = id
  BY DEF WithStatus, LeaseInv, LeaseHasRow, TypeOK
<1>2. \A r \in HeldResources :
        /\ resources[r].current_lease_id \in WithStatus("active")
        /\ leases[resources[r].current_lease_id].resource = r
  BY DEF HeldResources, WithStatus, LeaseInv, RowNamesLease
<1>3. f \in [WithStatus("active") -> HeldResources]
  BY <1>1 DEF HeldResources
<1>4. \A x, y \in WithStatus("active") : f[x] = f[y] => x = y
  BY <1>1
<1>5. \A r \in HeldResources : \E id \in WithStatus("active") : f[id] = r
  BY <1>2
<1> HIDE DEF f
<1> QED
  BY <1>3, <1>4, <1>5, LeasesFinite, SameNumber

\* As many leases as grants, and each of them in one status.
LEMMA LeasesAreGrants ==
  ASSUME StatsInv
  PROVE  Cardinality(WithStatus("active")) + Cardinality(WithStatus("released"))
           + Cardinality(WithStatus("expired")) = Cardinality(GrantNumbers)
<1> DEFINE A == WithStatus("active")
           R == WithStatus("released")
           E == WithStatus("expired")
<1>1. IsFiniteSet(DOMAIN leases) /\ IsFiniteSet(A) /\ IsFiniteSet(R) /\ IsFiniteSet(E)
  BY LeasesFinite DEF StatsInv
<1>2. DOMAIN leases = (A \cup R) \cup E /\ A \cap R = {} /\ (A \cup R) \cap E = {}
  BY DEF WithStatus, StatsInv, LeaseInv, TypeOK, LeaseRow, Status, Terminal
<1> HIDE DEF A, R, E
<1>3. /\ IsFiniteSet(A \cup R)
      /\ Cardinality(A \cup R) = Cardinality(A) + Cardinality(R) - Cardinality(A \cap R)
  BY <1>1, FS_Union
<1>4. Cardinality((A \cup R) \cup E)
        = Cardinality(A \cup R) + Cardinality(E) - Cardinality((A \cup R) \cap E)
  BY <1>1, <1>3, FS_Union
<1>5. Cardinality({}) = 0
  BY FS_EmptySet
<1>6. Cardinality(A) \in Nat /\ Cardinality(R) \in Nat /\ Cardinality(E) \in Nat
  BY <1>1, FS_CardinalityType
<1>7. Cardinality(DOMAIN leases) = Cardinality(A) + Cardinality(R) + Cardinality(E)
  <2>1. PICK a, r, e \in Nat :
          a = Cardinality(A) /\ r = Cardinality(R) /\ e = Cardinality(E)
    BY <1>6
  <2>2. Cardinality(A \cap R) = 0 /\ Cardinality((A \cup R) \cap E) = 0
    BY <1>2, <1>5
  <2>3. Cardinality(A \cup R) = a + r
    BY <1>3, <2>1, <2>2
  <2>4. Cardinality((A \cup R) \cup E) = (a + r) + e
    BY <1>4, <2>1, <2>2, <2>3
  <2>5. Cardinality(DOMAIN leases) = (a + r) + e
    BY <1>2, <2>4, Zenon
  <2> QED
    BY <2>1, <2>5
<1>8. Cardinality(DOMAIN leases) = Cardinality(GrantNumbers)
  <2> DEFINE f == [i \in GrantNumbers |-> audit[i].lease_id]
  <2>1. IsFiniteSet(GrantNumbers)
    <3>1. DOMAIN audit = 1 .. Len(audit) /\ Len(audit) \in Nat
      BY DEF StatsInv, LeaseInv, TypeOK
    <3>2. IsFiniteSet(DOMAIN audit)
      BY <3>1, FS_Interval
    <3>3. GrantNumbers \in SUBSET (DOMAIN audit)
      BY DEF GrantNumbers
    <3> QED
      BY <3>2, <3>3, FS_Subset
  <2>2. f \in [GrantNumbers -> DOMAIN leases]
    BY DEF StatsInv, GrantsAreLeases
  <2>3. \A x, y \in GrantNumbers : f[x] = f[y] => x = y
    BY DEF StatsInv, GrantsAreLeases
  <2>4. \A id \in DOMAIN leases : \E i \in GrantNumbers : f[i] = id
    BY DEF StatsInv, GrantsAreLeases
  <2> HIDE DEF f
  <2> QED
    BY <2>1, <2>2, <2>3, <2>4, SameNumber
<1> QED
  BY <1>7, <1>8 DEF A, R, E

\* The listing has a row for each resource, and for each locked one.
LEMMA ListedResources ==
  ASSUME StatsInv
  PROVE  /\ Cardinality(ListResources) = Cardinality(DOMAIN resources)
         /\ Cardinality({x \in ListResources : x.row.locked}) = Cardinality(LockedResources)
         /\ Cardinality(LockedResources) \in Nat /\ Cardinality(DOMAIN resources) \in Nat
         /\ Cardinality(LockedResources) <= Cardinality(DOMAIN resources)
         /\ Cardinality(HeldResources) <= Cardinality(DOMAIN resources)
<1> DEFINE f == [r \in DOMAIN resources |-> [name |-> r, row |-> resources[r]]]
           g == [r \in LockedResources |-> [name |-> r, row |-> resources[r]]]
<1>1. IsFiniteSet(DOMAIN resources)
  BY DEF StatsInv
<1>2. HeldResources \in SUBSET (DOMAIN resources) /\ LockedResources \in SUBSET (DOMAIN resources)
  BY DEF HeldResources, LockedResources
<1>3. Cardinality(ListResources) = Cardinality(DOMAIN resources)
  <2>1. f \in [DOMAIN resources -> ListResources]
    BY DEF ListResources
  <2>2. \A x, y \in DOMAIN resources : f[x] = f[y] => x = y
    OBVIOUS
  <2>3. \A t \in ListResources : \E x \in DOMAIN resources : f[x] = t
    BY DEF ListResources
  <2> HIDE DEF f
  <2> QED
    BY <1>1, <2>1, <2>2, <2>3, SameNumber
<1>4. IsFiniteSet(LockedResources)
  BY <1>1, <1>2, FS_Subset
<1>5. Cardinality({x \in ListResources : x.row.locked}) = Cardinality(LockedResources)
  <2> DEFINE T == {x \in ListResources : x.row.locked}
  <2>1. g \in [LockedResources -> T]
    BY DEF ListResources, LockedResources
  <2>2. \A x, y \in LockedResources : g[x] = g[y] => x = y
    OBVIOUS
  <2>3. \A t \in T : \E x \in LockedResources : g[x] = t
    BY DEF ListResources, LockedResources
  <2> HIDE DEF g, T
  <2>4. Cardinality(T) = Cardinality(LockedResources)
    BY <1>4, <2>1, <2>2, <2>3, SameNumber
  <2> QED
    BY <2>4 DEF T
<1>6. /\ Cardinality(LockedResources) <= Cardinality(DOMAIN resources)
      /\ Cardinality(HeldResources) <= Cardinality(DOMAIN resources)
  BY <1>1, <1>2, FS_Subset
<1>7. Cardinality(LockedResources) \in Nat /\ Cardinality(DOMAIN resources) \in Nat
  BY <1>1, <1>4, FS_CardinalityType
<1> QED
  BY <1>3, <1>5, <1>6, <1>7

\* No more holders than active leases, and none only of none.
LEMMA HoldersOfActive ==
  ASSUME LeaseInv
  PROVE  LET holders == {leases[id].holder : id \in WithStatus("active")} IN
         /\ Cardinality(holders) <= Cardinality(WithStatus("active"))
         /\ Cardinality(WithStatus("active")) > 0 => Cardinality(holders) > 0
<1> DEFINE active == WithStatus("active")
           holders == {leases[id].holder : id \in active}
           f == [id \in active |-> leases[id].holder]
<1>1. f \in Surjection(active, holders)
  BY DEF Surjection
<1>2. IsFiniteSet(active)
  BY LeasesFinite
<1>3. active # {} => holders # {}
  OBVIOUS
<1> HIDE DEF f, active, holders
<1>4. IsFiniteSet(holders) /\ Cardinality(holders) <= Cardinality(active)
  BY <1>1, <1>2, FS_Surjection
<1>5. /\ Cardinality(holders) \in Nat /\ Cardinality(active) \in Nat
      /\ Cardinality(active) = 0 <=> active = {}
      /\ Cardinality(holders) = 0 <=> holders = {}
  BY <1>2, <1>4, FS_CardinalityType, FS_EmptySet
<1>6. Cardinality(active) > 0 => Cardinality(holders) > 0
  BY <1>3, <1>5
<1> QED
  BY <1>4, <1>6 DEF active, holders

\* A finite set of numbers has its maximum.
LEMMA MaxOfNumbers ==
  ASSUME NEW M \in SUBSET Nat, IsFiniteSet(M), M # {}
  PROVE  Max(M) \in M /\ \A x \in M : x <= Max(M)
<1>1. Cardinality(M) \in Nat /\ Cardinality(M) # 0
  BY FS_CardinalityType, FS_EmptySet
<1>2. 1 \in 1 .. Cardinality(M)
  BY <1>1
<1>3. PICK m \in M : Rank(M, m) = 1 - 1
  BY <1>2, RankTaken
<1>4. \A x \in M : m >= x
  <2> DEFINE above == {x \in M : x > m}
  <2>1. above \in SUBSET M /\ Cardinality(above) = 0
    BY <1>3 DEF Rank
  <2>2. above = {}
    <3> HIDE DEF above
    <3>1. IsFiniteSet(above)
      BY <2>1, FS_Subset
    <3> QED
      BY <2>1, <3>1, FS_EmptySet
  <2> QED
    BY <2>2
<1>5. Max(M) \in M /\ \A x \in M : Max(M) >= x
  BY <1>4 DEF Max
<1> QED
  BY <1>5

\* No grant in the log has a token above the maximum of the counters.
LEMMA MaxToken ==
  ASSUME StatsInv, NEW i \in GrantNumbers
  PROVE  audit[i].fencing_token
           <= Max({0} \cup {resources[r].fencing_token : r \in DOMAIN resources})
<1> DEFINE counters == {resources[r].fencing_token : r \in DOMAIN resources}
           f == [r \in DOMAIN resources |-> resources[r].fencing_token]
           M == {0} \cup counters
<1>1. IsFiniteSet(counters)
  <2>1. f \in Surjection(DOMAIN resources, counters)
    BY DEF Surjection
  <2> HIDE DEF f, counters
  <2> QED
    BY <2>1, FS_Surjection DEF StatsInv
<1>2. counters \in SUBSET Nat
  BY DEF StatsInv, LeaseInv, TypeOK, ResourceRow
<1>3. M \in SUBSET Nat /\ IsFiniteSet(M) /\ M # {}
  <2> HIDE DEF counters
  <2>1. IsFiniteSet(counters \cup {0})
    BY <1>1, FS_AddElement
  <2>2. M = counters \cup {0}
    OBVIOUS
  <2> QED
    BY <1>2, <2>1, <2>2
<1>4. PICK r, token : r = audit[i].resource /\ token = audit[i].fencing_token
  OBVIOUS
<1>5. r \in Resource /\ token <= Counter(r)
  BY <1>4 DEF StatsInv, LogInv, LogBelowCounters, GrantNumbers
<1>6. Counter(r) \in M
  BY DEF Counter, GetResource
<1>7. token \in Nat
  <2>1. i \in DOMAIN audit
    BY DEF GrantNumbers
  <2> QED
    <3>1. audit \in Seq(AuditRow)
      BY DEF StatsInv, LeaseInv, TypeOK
    <3>2. audit[i] \in AuditRow
      BY <2>1, <3>1
    <3> QED
      BY <1>4, <3>2 DEF AuditRow
<1> HIDE DEF M
<1>8. PICK m \in M : m = Max(M) /\ \A x \in M : x <= m
  BY <1>3, MaxOfNumbers
<1>9. PICK c \in M : c = Counter(r)
  BY <1>6
<1>10. m \in Nat /\ c \in Nat /\ token <= c /\ c <= m
  BY <1>3, <1>5, <1>8, <1>9
<1>11. token <= m
  BY <1>7, <1>10
<1> QED
  BY <1>4, <1>8, <1>11 DEF M

\* The listing of the whole log has all its rows.
LEMMA ListedLog ==
  ASSUME TypeOK
  PROVE  Len(ListAudit("any", "any", "any", 0)) = Len(audit)
<1> DEFINE rows == {i \in DOMAIN audit :
                 /\ Matches(audit[i].lease_id, "any")
                 /\ Matches(audit[i].resource, "any")
                 /\ Matches(audit[i].action, "any")}
           newer(i) == {j \in rows : Newer(j, i)}
           n == Cardinality(rows)
           row(k) == CHOOSE i \in rows : Cardinality(newer(i)) = k - 1
           all == ListAudit("any", "any", "any", 0)
<1>1. rows = 1 .. Len(audit) /\ Len(audit) \in Nat
  BY DEF Matches, TypeOK
<1>2. n = Len(audit)
  <2> HIDE DEF rows
  <2>1. PICK m \in Nat : m = Len(audit)
    BY <1>1
  <2>2. Cardinality(1 .. m) = m
    <3>1. 1 \in Int /\ m \in Int
      BY <2>1
    <3>2. Cardinality(1 .. m) = IF 1 > m THEN 0 ELSE m - 1 + 1
      BY <3>1, FS_Interval, Zenon
    <3> QED
      BY <2>1, <3>2
  <2> QED
    BY <1>1, <2>1, <2>2
<1>3. all = [k \in 1 .. n |-> row(k)]
  BY DEF ListAudit
<1> HIDE DEF n, row, all
<1>4. Len(all) = n
  <2> DEFINE S == {row(k) : k \in 1 .. n}
  <2>1. all \in [1 .. n -> S]
    BY <1>3
  <2> HIDE DEF S
  <2> QED
    BY <1>1, <1>2, <2>1
<1> QED
  BY <1>2, <1>4 DEF all

\* Without a limit and without a filter the counts are of the sets above.
LEMMA CountedSets ==
  ASSUME LeaseInv
  PROVE  /\ \A status \in Status : ListLeases(status, "any", "any") = WithStatus(status)
         /\ {r \in Resource : ~AcquireAllowed(r)} = LockedResources
<1>1. "any" \notin Status
  BY DEF Status, Terminal
<1>2. \A status \in Status : ListLeases(status, "any", "any") = WithStatus(status)
  BY <1>1 DEF ListLeases, Matches, WithStatus
<1>3. DOMAIN resources \subseteq Resource
  BY DEF LeaseInv, TypeOK
<1>4. {r \in Resource : ~AcquireAllowed(r)} = LockedResources
  BY <1>3 DEF AcquireAllowed, GetResource, LockedResources
<1> QED
  BY <1>2, <1>4

LEMMA StatsOfMoment == StatsInv => StatsAddUp
<1> SUFFICES ASSUME StatsInv PROVE StatsAddUp
  OBVIOUS
<1> DEFINE s == Metrics.stats
           active == Cardinality(WithStatus("active"))
           released == Cardinality(WithStatus("released"))
           expired == Cardinality(WithStatus("expired"))
           holders == Cardinality({leases[id].holder : id \in WithStatus("active")})
<1>1. LeaseInv /\ TypeOK
  BY DEF StatsInv, LeaseInv
<1>2. /\ ListLeases("active", "any", "any") = WithStatus("active")
      /\ ListLeases("released", "any", "any") = WithStatus("released")
      /\ ListLeases("expired", "any", "any") = WithStatus("expired")
      /\ {r \in Resource : ~AcquireAllowed(r)} = LockedResources
  BY <1>1, CountedSets DEF Status, Terminal
<1>3. /\ s.active = active /\ s.released = released /\ s.expired = expired
      /\ s.holders = holders
      /\ s.resources = Cardinality(ListResources)
      /\ s.locked = Cardinality({x \in ListResources : x.row.locked})
      /\ Metrics.max_fencing_token
           = Max({0} \cup {resources[r].fencing_token : r \in DOMAIN resources})
      /\ Metrics.audit_entries = Len(ListAudit("any", "any", "any", 0))
  BY <1>2 DEF Metrics, Stats, CountLeasesByStatus, CountHolders
<1>4. {i \in DOMAIN audit :
         \/ audit[i].action = "acquire"
         \/ audit[i].action = "transfer" /\ audit[i].detail = "from"} = GrantNumbers
  BY DEF GrantNumbers, IsGrant
<1>5. {r \in DOMAIN resources : resources[r].current_lease_id # NoLease} = HeldResources
  BY DEF HeldResources
<1>6. s.active = Cardinality(HeldResources)
  BY <1>1, <1>3, ActiveAreHeld
<1>7. s.holders <= s.active /\ (s.active > 0 => s.holders > 0)
  BY <1>1, <1>3, HoldersOfActive
<1>8. s.active + s.released + s.expired = Cardinality(GrantNumbers)
  BY <1>3, LeasesAreGrants
<1>9. s.locked = Cardinality({r \in Resource : ~AcquireAllowed(r)})
  BY <1>2, <1>3, ListedResources
<1>10. s.locked <= s.resources /\ s.active <= s.resources
  BY <1>3, <1>6, ListedResources
<1>11. \A i \in GrantNumbers : audit[i].fencing_token <= Metrics.max_fencing_token
  BY <1>3, MaxToken
<1>12. Metrics.audit_entries = Len(audit)
  BY <1>1, <1>3, ListedLog
<1> HIDE DEF s
<1> QED
  BY <1>4, <1>5, <1>6, <1>7, <1>8, <1>9, <1>10, <1>11, <1>12, Zenon DEF StatsAddUp, s

\* The stats and metrics of every moment fit the tables and the log.
THEOREM StatsCorrect == ReportsSpec => []StatsAddUp
<1>1. Spec => []StatsInv
  BY InitStats, StepStats, PTL DEF Spec
<1> QED
  BY <1>1, ReadersOnlyRead, StatsOfMoment, PTL

-----------------------------------------------------------------------------
(* The resources that the log names *)

\* A row about a resource of the table, or about none.
KnownRow == {e \in AuditRow : e.resource \in DOMAIN resources \cup {NoResource}}

\* What the log names and the table has grow together: either the step logs
\* known rows only, or it ends with a row about the resource that it adds.
NamesKnown ==
  /\ DOMAIN resources' = DOMAIN resources
  /\ audit' = audit \/ \E rows \in Seq(KnownRow) : Log(rows)

NamesNew(r, e) ==
  /\ DOMAIN resources' = DOMAIN resources \cup {r}
  /\ \E rows \in Seq(KnownRow) : Log(rows \o <<e>>)

NamesStep == NamesKnown \/ \E r \in Resource, e \in AuditRow : e.resource = r /\ NamesNew(r, e)

LogNames ==
  \A r \in Resource :
    r \in DOMAIN resources <=> \E i \in DOMAIN audit : audit[i].resource = r

LEMMA KnownLeaseRow ==
  ASSUME LeaseInv, NEW id \in DOMAIN leases, NEW action \in AuditAction,
         NEW detail \in Detail
  PROVE  LeaseEntry(action, id, leases[id], now, detail) \in KnownRow
<1>1. LeaseEntry(action, id, leases[id], now, detail) \in AuditRow
  BY LeaseToken, EntryType DEF LeaseInv, TypeOK
<1>2. LeaseEntry(action, id, leases[id], now, detail).resource = leases[id].resource
  BY DEF LeaseEntry, Entry
<1>3. leases[id].resource \in DOMAIN resources
  BY DEF LeaseInv, LeaseHasRow
<1> QED
  BY <1>1, <1>2, <1>3 DEF KnownRow

LEMMA KnownSweepRows ==
  ASSUME LeaseInv, NEW ids \in SUBSET (DOMAIN leases), NEW order \in SweepOrders(ids)
  PROVE  SweepRows(order) \in Seq(KnownRow)
<1>1. order \in Seq(ids)
  BY OrderType DEF LeaseInv
<1>2. ASSUME NEW i \in 1 .. Len(order)
      PROVE  LeaseEntry("sweep", order[i], leases[order[i]], now, "") \in KnownRow
  <2>1. order[i] \in DOMAIN leases
    BY <1>1
  <2> QED
    BY <2>1, KnownLeaseRow DEF AuditAction, Detail
<1>3. DOMAIN order = 1 .. Len(order) /\ Len(order) \in Nat
  BY <1>1
<1>4. SweepRows(order) \in [1 .. Len(order) -> KnownRow]
  BY <1>2, <1>3 DEF SweepRows
<1> QED
  BY <1>3, <1>4

LEMMA UpsertDomain ==
  ASSUME NEW r, NEW token, NEW id,
         resources' = UpsertResourceFencing(resources, r, token, id)
  PROVE  DOMAIN resources' = DOMAIN resources \cup {r}
BY DEF UpsertResourceFencing, PutResource

\* One row about a lease, on a resource that the table has.
LEMMA LeaseNames ==
  ASSUME LeaseInv, NEW id \in DOMAIN leases, NEW action \in AuditAction,
         Log(<<LeaseEntry(action, id, leases[id], now, "")>>),
         UNCHANGED resources \/ resources' = FreeResource(leases[id].resource)
  PROVE  NamesStep
<1>1. LeaseEntry(action, id, leases[id], now, "") \in KnownRow
  BY KnownLeaseRow DEF Detail
<1>2. <<LeaseEntry(action, id, leases[id], now, "")>> \in Seq(KnownRow)
  BY <1>1, SeqType
<1>3. DOMAIN resources' = DOMAIN resources
  <2>1. leases[id].resource \in DOMAIN resources
    BY DEF LeaseInv, LeaseHasRow
  <2>2. CASE UNCHANGED resources
    BY <2>2
  <2>3. CASE resources' = FreeResource(leases[id].resource)
    <3>1. PICK r, token : r = leases[id].resource /\ token = NextToken(r)
      OBVIOUS
    <3>2. resources' = UpsertResourceFencing(resources, r, token, NoLease)
      BY <2>3, <3>1 DEF FreeResource
    <3>3. DOMAIN resources' = DOMAIN resources \cup {r}
      BY <3>2, UpsertDomain
    <3> QED
      BY <2>1, <3>1, <3>3
  <2> QED
    BY <2>2, <2>3
<1> QED
  BY <1>2, <1>3 DEF NamesStep, NamesKnown

LEMMA AcquireNames ==
  ASSUME LeaseInv, NEW r \in Resource, NEW h \in Holder, NEW ttl \in TTL,
         NEW id \in LeaseId, Acquire(r, h, ttl, id)
  PROVE  NamesStep
<1> DEFINE lease == [resource |-> r, holder |-> h, fencing_token |-> NextToken(r),
                     acquired_at |-> now, ttl_seconds |-> ttl,
                     expires_at |-> Add64(now, ttl), last_heartbeat |-> now,
                     status |-> "active"]
           row == LeaseEntry("acquire", id, lease, now, "")
<1>1. lease \in LeaseRow
  <2>1. Add64(now, ttl) \in Int64 /\ ttl \in Int64 /\ now \in Int64
    BY ManagerAssumption, DeadlineType, TimeType DEF Acquire, LeaseInv, TypeOK
  <2> QED
    BY <2>1, RowType DEF LeaseRow, Status, LeaseInv
<1>2. PICK existing \in GetActiveLeaseByResource(r) :
        \E order \in SweepOrders(existing) : Log(SweepRows(order) \o <<row>>)
  BY DEF Acquire
<1>3. existing \in SUBSET (DOMAIN leases)
  BY DEF GetActiveLeaseByResource, ActiveLeases
<1>4. row \in AuditRow /\ row.resource = r
  <2>1. row.resource = r
    BY DEF LeaseEntry, Entry
  <2> HIDE DEF lease
  <2>2. row \in AuditRow
    BY <1>1, EntryType DEF AuditAction, Detail, LeaseInv, TypeOK
  <2> QED
    BY <2>1, <2>2
<1> HIDE DEF row
<1>5. PICK order \in SweepOrders(existing) : Log(SweepRows(order) \o <<row>>)
  BY <1>2
<1>6. SweepRows(order) \in Seq(KnownRow)
  BY <1>3, KnownSweepRows
<1>7. DOMAIN resources' = DOMAIN resources \cup {r}
  <2>1. resources' = UpsertResourceFencing(resources, r, NextToken(r), id)
    BY DEF Acquire
  <2>2. PICK token : token = NextToken(r)
    OBVIOUS
  <2> QED
    BY <2>1, <2>2, UpsertDomain
<1>8. NamesNew(r, row)
  BY <1>5, <1>6, <1>7 DEF NamesNew
<1> QED
  BY <1>4, <1>8 DEF NamesStep

LEMMA TransferNames ==
  ASSUME LeaseInv, NEW id \in LeaseId, NEW token, NEW newHolder \in Holder,
         NEW newID \in LeaseId, Transfer(id, token, newHolder, newID)
  PROVE  NamesStep
<1> DEFINE old == leases[id]
           fresh == [old EXCEPT !.holder = newHolder,
                                !.fencing_token = NextToken(old.resource),
                                !.last_heartbeat = now]
           one == LeaseEntry("transfer", id, old, now, "to")
           two == LeaseEntry("transfer", newID, fresh, now, "from")
<1>1. /\ id \in DOMAIN leases /\ old \in LeaseRow
      /\ old.resource \in Resource /\ old.resource \in DOMAIN resources
  BY DEF Transfer, Usable, Presented, LeaseInv, LeaseHasRow, TypeOK, LeaseRow
<1>2. NextToken(old.resource) \in Nat /\ now \in Int64
  BY <1>1, RowType, TimeType DEF LeaseInv, TypeOK
<1>3. fresh \in LeaseRow /\ fresh.resource = old.resource
  BY <1>1, <1>2 DEF LeaseRow
<1>4. one \in KnownRow
  BY <1>1, KnownLeaseRow DEF AuditAction, Detail
<1>5. two \in KnownRow
  <2>1. two.resource = fresh.resource
    BY DEF LeaseEntry, Entry
  <2> HIDE DEF old, fresh
  <2>2. two \in AuditRow
    BY <1>3, EntryType DEF AuditAction, Detail, LeaseInv, TypeOK
  <2> HIDE DEF two
  <2> QED
    BY <1>1, <1>3, <2>1, <2>2 DEF KnownRow
<1>6. Log(<<one, two>>)
  BY DEF Transfer
<1>7. DOMAIN resources' = DOMAIN resources
  <2>1. resources' = UpsertResourceFencing(resources, old.resource,
                                           NextToken(old.resource), newID)
    BY DEF Transfer
  <2>2. PICK r, next : r = old.resource /\ next = NextToken(r)
    OBVIOUS
  <2>3. resources' = UpsertResourceFencing(resources, r, next, newID)
    BY <2>1, <2>2
  <2>4. DOMAIN resources' = DOMAIN resources \cup {r}
    BY <2>3, UpsertDomain
  <2> QED
    BY <1>1, <2>2, <2>4
<1> HIDE DEF one, two
<1>8. <<one, two>> \in Seq(KnownRow)
  BY <1>4, <1>5, SeqType
<1> QED
  BY <1>6, <1>7, <1>8 DEF NamesStep, NamesKnown

LEMMA LockNames ==
  ASSUME LeaseInv, NEW r \in Resource, NEW locked, NEW action \in {"lock", "unlock"},
         SetLock(r, locked, action), ~UNCHANGED vars
  PROVE  NamesStep
<1> DEFINE row == Entry(action, NoLease, r, 0, now, "")
<1>1. Log(<<row>>) /\ resources' = SetResourceLocked(resources, r, locked)
  BY DEF SetLock
<1>2. row \in AuditRow /\ row.resource = r
  BY TimeType DEF LeaseInv, TypeOK, Entry, AuditRow, AuditAction, Detail
<1>3. DOMAIN resources' = DOMAIN resources \cup {r}
  BY <1>1 DEF SetResourceLocked, PutResource
<1> HIDE DEF row
<1>4. <<>> \in Seq(KnownRow) /\ <<>> \o <<row>> = <<row>>
  OBVIOUS
<1>5. NamesNew(r, row)
  BY <1>1, <1>3, <1>4 DEF NamesNew
<1> QED
  BY <1>2, <1>5 DEF NamesStep

LEMMA SweepNames ==
  ASSUME LeaseInv, Sweep \/ Recover \/ AuditRecover
  PROVE  NamesStep
<1>1. CASE Sweep \/ Recover
  <2>1. ListExpiredActive(now) \in SUBSET (DOMAIN leases)
    BY DEF ListExpiredActive
  <2>2. SweepCommit(ListExpiredActive(now))
    BY <1>1 DEF Sweep, Recover
  <2>3. PICK order \in SweepOrders(ListExpiredActive(now)) : Log(SweepRows(order))
    BY <2>2 DEF SweepCommit
  <2>4. SweepRows(order) \in Seq(KnownRow)
    BY <2>1, KnownSweepRows
  <2>5. DOMAIN resources' =
          DOMAIN resources \cup {leases[id].resource : id \in ListExpiredActive(now)}
    BY <2>2 DEF SweepCommit
  <2>6. \A id \in ListExpiredActive(now) : leases[id].resource \in DOMAIN resources
    BY <2>1 DEF LeaseInv, LeaseHasRow
  <2>7. DOMAIN resources' = DOMAIN resources
    BY <2>5, <2>6
  <2> QED
    BY <2>3, <2>4, <2>7 DEF NamesStep, NamesKnown
<1>2. CASE AuditRecover
  <2> DEFINE row == Entry("recover", NoLease, NoResource, 0, now, "")
  <2>1. row \in KnownRow
    BY TimeType DEF LeaseInv, TypeOK, Entry, AuditRow, AuditAction, Detail, KnownRow
  <2>2. (Log(<<row>>) \/ audit' = audit) /\ resources' = resources
    BY <1>2 DEF AuditRecover
  <2> HIDE DEF row
  <2>3. <<row>> \in Seq(KnownRow)
    BY <2>1, SeqType
  <2> QED
    BY <2>2, <2>3 DEF NamesStep, NamesKnown
<1> QED
  BY <1>1, <1>2

LEMMA StepNames ==
  ASSUME LeaseInv, [Next]_vars
  PROVE  NamesStep
<1>1. CASE UNCHANGED vars \/ Restart \/ ClockForward \/ ClockBack
  BY <1>1 DEF vars, tables, Restart, ClockForward, ClockBack, NamesStep, NamesKnown
<1>2. CASE AcquireRequest
  BY <1>2, AcquireNames DEF AcquireRequest
<1>3. ASSUME NEW id \in DOMAIN leases, NEW action \in AuditAction, Retire(id, action)
      PROVE  NamesStep
  BY <1>3, LeaseNames DEF Retire
<1>4. ASSUME NEW id, NEW token, Release(id, token) \/ ForceRelease(id)
      PROVE  NamesStep
  BY <1>1, <1>3, <1>4 DEF Release, ForceRelease, Presented, AuditAction
<1>5. CASE LeaseRequest
  <2>1. PICK id \in LeaseId, token \in Token :
          \/ \E ttl \in TTL : Renew(id, token, ttl) \/ UpdateTTL(id, token, ttl)
          \/ Heartbeat(id, token)
          \/ Release(id, token)
          \/ \E h \in Holder, newID \in LeaseId : Transfer(id, token, h, newID)
    BY <1>5 DEF LeaseRequest
  <2>2. ASSUME NEW ttl, Renew(id, token, ttl) \/ UpdateTTL(id, token, ttl)
        PROVE  NamesStep
    BY <2>2, LeaseNames DEF Renew, UpdateTTL, Extend, Usable, Presented, AuditAction
  <2>3. CASE Heartbeat(id, token)
    BY <2>3, LeaseNames DEF Heartbeat, Usable, Presented, AuditAction
  <2> QED
    BY <1>4, <2>1, <2>2, <2>3, TransferNames
<1>6. CASE AdminRequest
  BY <1>1, <1>4, <1>6, LockNames DEF AdminRequest, LockResource, UnlockResource
<1> QED
  BY <1>1, <1>2, <1>5, <1>6, SweepNames DEF Next

\* A step that logs rows leaves the log with its old rows and these.
LEMMA LogRows ==
  ASSUME audit \in Seq(AuditRow), NEW rows \in Seq(AuditRow), Log(rows)
  PROVE  /\ \A i \in DOMAIN audit : i \in DOMAIN audit' /\ audit'[i] = audit[i]
         /\ \A i \in DOMAIN audit' :
              i \in DOMAIN audit \/ \E k \in 1 .. Len(rows) : audit'[i] = rows[k]
         /\ \A k \in 1 .. Len(rows) : \E i \in DOMAIN audit' : audit'[i] = rows[k]
<1>1. audit' = audit \o rows
  BY DEF Log
<1>2. PICK m \in Nat, n \in Nat : m = Len(audit) /\ n = Len(rows)
  OBVIOUS
<1>3. DOMAIN audit = 1 .. m /\ DOMAIN audit' = 1 .. m + n
  BY <1>1, <1>2
<1>4. \A i \in 1 .. m : i \in 1 .. m + n /\ audit'[i] = audit[i]
  BY <1>1, <1>2
<1>5. \A k \in 1 .. n : m + k \in 1 .. m + n /\ audit'[m + k] = rows[k]
  BY <1>1, <1>2
<1>6. ASSUME NEW i \in 1 .. m + n, i \notin 1 .. m
      PROVE  \E k \in 1 .. n : audit'[i] = rows[k]
  <2>1. i - m \in 1 .. n /\ i = m + (i - m)
    BY <1>6
  <2> QED
    BY <1>5, <2>1
<1> QED
  BY <1>2, <1>3, <1>4, <1>5, <1>6

LEMMA NamesKept ==
  ASSUME LeaseInv, LogNames, NamesStep
  PROVE  LogNames'
<1>1. audit \in Seq(AuditRow) /\ DOMAIN audit = 1 .. Len(audit) /\ KnownRow \subseteq AuditRow
  BY DEF LeaseInv, TypeOK, KnownRow
<1>2. NoResource \notin Resource
  BY StoreAssumption
<1>3. CASE NamesKnown
  <2>1. CASE audit' = audit
    BY <1>3, <2>1 DEF NamesKnown, LogNames
  <2>2. ASSUME NEW rows \in Seq(KnownRow), Log(rows)
        PROVE  LogNames'
    <3>1. rows \in Seq(AuditRow) /\ \A k \in 1 .. Len(rows) : rows[k] \in KnownRow
      BY <1>1
    <3>2. /\ \A i \in DOMAIN audit : i \in DOMAIN audit' /\ audit'[i] = audit[i]
          /\ \A i \in DOMAIN audit' : i \in DOMAIN audit \/ audit'[i] \in KnownRow
      BY <1>1, <2>2, <3>1, LogRows
    <3> SUFFICES ASSUME NEW x \in Resource
                 PROVE  x \in DOMAIN resources'
                          <=> \E i \in DOMAIN audit' : audit'[i].resource = x
      BY DEF LogNames
    <3>3. x \in DOMAIN resources <=> \E i \in DOMAIN audit : audit[i].resource = x
      BY DEF LogNames
    <3> QED
      BY <1>2, <1>3, <3>2, <3>3 DEF NamesKnown, KnownRow
  <2> QED
    BY <1>3, <2>1, <2>2 DEF NamesKnown
<1>4. ASSUME NEW r \in Resource, NEW e \in AuditRow, e.resource = r, NamesNew(r, e)
      PROVE  LogNames'
  <2>1. PICK rows \in Seq(KnownRow) : Log(rows \o <<e>>)
    BY <1>4 DEF NamesNew
  <2> DEFINE all == rows \o <<e>>
  <2>2. /\ all \in Seq(AuditRow) /\ Len(all) = Len(rows) + 1 /\ Len(rows) \in Nat
        /\ all[Len(all)] = e
        /\ \A k \in 1 .. Len(all) : all[k] = e \/ all[k] \in KnownRow
    <3>1. rows \in Seq(AuditRow)
      BY <1>1
    <3>2. \A k \in 1 .. Len(rows) : rows[k] \in KnownRow
      OBVIOUS
    <3>3. Len(all) = Len(rows) + 1 /\ Len(rows) \in Nat /\ all[Len(rows) + 1] = e
      OBVIOUS
    <3>4. \A k \in 1 .. Len(all) : k \in 1 .. Len(rows) \/ k = Len(rows) + 1
      BY <3>3
    <3>5. \A k \in 1 .. Len(rows) : all[k] = rows[k]
      OBVIOUS
    <3>6. all \in Seq(AuditRow)
      BY <3>1, SeqType
    <3> HIDE DEF all
    <3> QED
      BY <3>2, <3>3, <3>4, <3>5, <3>6
  <2> HIDE DEF all
  <2>3. Log(all)
    BY <2>1 DEF all
  <2>4. Len(all) \in 1 .. Len(all)
    BY <2>2
  <2>5. PICK p \in DOMAIN audit' : audit'[p] = e
    BY <1>1, <2>2, <2>3, <2>4, LogRows
  <2>6. /\ \A i \in DOMAIN audit : i \in DOMAIN audit' /\ audit'[i] = audit[i]
        /\ \A i \in DOMAIN audit' :
             i \in DOMAIN audit \/ audit'[i] = e \/ audit'[i] \in KnownRow
    BY <1>1, <2>2, <2>3, LogRows
  <2>7. DOMAIN resources' = DOMAIN resources \cup {r}
    BY <1>4 DEF NamesNew
  <2> SUFFICES ASSUME NEW x \in Resource
               PROVE  x \in DOMAIN resources' <=> \E i \in DOMAIN audit' : audit'[i].resource = x
    BY DEF LogNames
  <2>8. x \in DOMAIN resources <=> \E i \in DOMAIN audit : audit[i].resource = x
    BY DEF LogNames
  <2>9. x \in DOMAIN resources' => \E i \in DOMAIN audit' : audit'[i].resource = x
    BY <1>4, <2>5, <2>6, <2>7, <2>8
  <2>10. ASSUME NEW i \in DOMAIN audit', audit'[i].resource = x
         PROVE  x \in DOMAIN resources'
    BY <1>2, <1>4, <2>6, <2>7, <2>8, <2>10 DEF KnownRow
  <2> QED
    BY <2>9, <2>10
<1> QED
  BY <1>3, <1>4 DEF NamesStep

-----------------------------------------------------------------------------
(* The bundle *)

\* LogSays, as a function of the rows.
Switches(rows, r) ==
  {i \in 1 .. Len(rows) :
     rows[i].resource = r /\ rows[i].action \in {"lock", "unlock"}}

LastSwitch(rows, r) == IF Switches(rows, r) # {} THEN Max(Switches(rows, r)) ELSE 0

Named(rows, n) == {rows[i].resource : i \in 1 .. n} \ {NoResource}

LockedIn(rows, n) ==
  {r \in Named(rows, n) : LastSwitch(rows, r) > 0 /\ rows[LastSwitch(rows, r)].action = "lock"}

RowsSay(rows, n) ==
  [total |-> Cardinality(Named(rows, n)), locked |-> Cardinality(LockedIn(rows, n)),
   open |-> Cardinality(Named(rows, n) \ LockedIn(rows, n))]

LEMMA SaysRows == \A n : LogSays(n) = RowsSay(SubSeq(audit, 1, n), n)
BY DEF LogSays, RowsSay, Named, LockedIn, LastSwitch, Switches, SelectLastInSeq

LEMMA SaysRowsNext == \A n : LogSays(n)' = RowsSay(SubSeq(audit', 1, n), n)
BY DEF LogSays, RowsSay, Named, LockedIn, LastSwitch, Switches, SelectLastInSeq

\* A longer log says the same of its beginning.
LEMMA SaysKept ==
  ASSUME LogGrows, audit \in Seq(AuditRow), NEW n \in 0 .. Len(audit)
  PROVE  n \in 0 .. Len(audit') /\ LogSays(n)' = LogSays(n)
<1>1. /\ \A i \in DOMAIN audit : i \in DOMAIN audit' /\ audit'[i] = audit[i]
      /\ Len(audit) <= Len(audit') /\ Len(audit') \in Nat /\ Len(audit) \in Nat
  BY DEF LogGrows
<1>2. DOMAIN audit = 1 .. Len(audit)
  OBVIOUS
<1>3. SubSeq(audit', 1, n) = SubSeq(audit, 1, n)
  BY <1>1, <1>2
<1>4. LogSays(n)' = LogSays(n)
  BY <1>3, SaysRows, SaysRowsNext, Zenon
<1> QED
  BY <1>1, <1>4

\* The last lock or unlock of a resource in the log is what its flag says.
LEMMA LastSwitchLocks ==
  ASSUME TypeOK, NEW r, GateOf(r)
  PROVE  Locked(r) <=>
           LastSwitch(audit, r) > 0 /\ audit[LastSwitch(audit, r)].action = "lock"
<1> DEFINE S == Switches(audit, r)
           L == RowsOf(r, {"lock"})
           U == RowsOf(r, {"unlock"})
<1>1. DOMAIN audit = 1 .. Len(audit) /\ Len(audit) \in Nat
  BY DEF TypeOK
<1>2. S = L \cup U /\ L \cap U = {} /\ S \subseteq 1 .. Len(audit)
  BY <1>1 DEF Switches, RowsOf
<1>3. Locked(r) <=> \E i \in L : \A k \in U : k < i
  BY DEF GateOf
<1>4. \A i \in S : i \in L <=> audit[i].action = "lock"
  BY <1>1 DEF Switches, RowsOf
<1>5. LastSwitch(audit, r) = IF S # {} THEN Max(S) ELSE 0
  BY DEF LastSwitch
<1> HIDE DEF S, L, U
<1>6. CASE S = {}
  <2>1. LastSwitch(audit, r) = 0
    BY <1>5, <1>6
  <2>2. ~Locked(r)
    BY <1>2, <1>3, <1>6
  <2> QED
    BY <2>1, <2>2
<1>7. CASE S # {}
  <2>1. S \in SUBSET Nat /\ IsFiniteSet(S)
    <3>1. IsFiniteSet(1 .. Len(audit))
      BY <1>1, FS_Interval
    <3>2. S \in SUBSET (1 .. Len(audit)) /\ 1 .. Len(audit) \subseteq Nat
      BY <1>1, <1>2
    <3> QED
      BY <3>1, <3>2, FS_Subset
  <2>2. PICK m \in S : m = Max(S) /\ \A x \in S : x <= m
    BY <1>7, <2>1, MaxOfNumbers
  <2>3. LastSwitch(audit, r) = m /\ m > 0 /\ m \in Nat
    <3>1. LastSwitch(audit, r) = m
      BY <1>5, <1>7, <2>2
    <3>2. m \in 1 .. Len(audit)
      BY <1>2
    <3> QED
      BY <1>1, <3>1, <3>2
  <2>4. \A k \in U : k \in Nat /\ k <= m
    BY <1>2, <2>1, <2>2
  <2>5. \A k \in L : k \in Nat /\ k <= m
    BY <1>2, <2>1, <2>2
  <2>6. ASSUME m \in L
        PROVE  \A k \in U : k < m
    <3> SUFFICES ASSUME NEW k \in U PROVE k < m
      OBVIOUS
    <3>1. k # m
      BY <1>2, <2>6
    <3> QED
      BY <2>3, <2>4, <3>1
  <2>7. ASSUME NEW i \in L, \A k \in U : k < i
        PROVE  m \in L
    <3>1. CASE m \in U
      <4>1. m < i /\ i <= m /\ i \in Nat
        BY <2>5, <2>7, <3>1
      <4> QED
        BY <2>3, <4>1
    <3> QED
      BY <1>2, <3>1
  <2>8. m \in L <=> audit[m].action = "lock"
    BY <1>4
  <2>9. Locked(r) <=> m \in L
    BY <1>3, <2>6, <2>7
  <2> QED
    BY <2>3, <2>8, <2>9
<1> QED
  BY <1>6, <1>7

\* The report on the resources is what the whole log says of them.
LEMMA TablesSay ==
  ASSUME StatsInv, LogNames, \A r \in Resource : GateOf(r)
  PROVE  Len(audit) \in Nat /\ ResourceReport = LogSays(Len(audit))
<1> DEFINE n == Len(audit)
           D == DOMAIN resources
           list == {x \in ListResources : x.row.locked}
<1>1. /\ TypeOK /\ audit \in Seq(AuditRow) /\ DOMAIN audit = 1 .. n /\ n \in Nat
      /\ D \subseteq Resource
  BY DEF StatsInv, LeaseInv, TypeOK
<1>2. SubSeq(audit, 1, n) = audit
  BY <1>1
<1>3. Named(audit, n) = D
  <2>1. \A i \in 1 .. n : audit[i].resource \in Resource \cup {NoResource}
    <3>1. \A i \in 1 .. n : audit[i] \in AuditRow
      BY <1>1
    <3> QED
      BY <3>1 DEF AuditRow
  <2>2. \A r \in Resource : r \in D <=> \E i \in 1 .. n : audit[i].resource = r
    BY <1>1 DEF LogNames
  <2>3. NoResource \notin Resource
    BY StoreAssumption
  <2> HIDE DEF D, n
  <2> QED
    BY <1>1, <2>1, <2>2, <2>3 DEF Named
<1>4. LockedIn(audit, n) = LockedResources
  <2>1. \A r \in D : Locked(r) <=> resources[r].locked
    BY DEF Locked, GetResource
  <2>2. \A r \in D :
          Locked(r) <=>
            LastSwitch(audit, r) > 0 /\ audit[LastSwitch(audit, r)].action = "lock"
    BY <1>1, LastSwitchLocks
  <2> HIDE DEF n
  <2> QED
    BY <1>3, <2>1, <2>2 DEF LockedIn, LockedResources
<1>5. Cardinality(ListResources \ list) = Cardinality(D \ LockedResources)
  <2> DEFINE S == D \ LockedResources
             T == ListResources \ list
             f == [r \in S |-> [name |-> r, row |-> resources[r]]]
  <2>1. f \in [S -> T]
    BY DEF ListResources, LockedResources
  <2>2. \A x, y \in S : f[x] = f[y] => x = y
    OBVIOUS
  <2>3. \A t \in T : \E x \in S : f[x] = t
    BY DEF ListResources, LockedResources
  <2>4. IsFiniteSet(S)
    <3>1. S \in SUBSET D
      OBVIOUS
    <3> QED
      BY <3>1, FS_Subset DEF StatsInv
  <2> HIDE DEF f, S, T
  <2>5. Cardinality(T) = Cardinality(S)
    BY <2>1, <2>2, <2>3, <2>4, SameNumber
  <2> QED
    BY <2>5 DEF S, T
<1>6. ResourceReport =
        [total |-> Cardinality(D), locked |-> Cardinality(LockedResources),
         open |-> Cardinality(D \ LockedResources)]
  <2>1. ResourceReport = [total |-> Cardinality(ListResources), locked |-> Cardinality(list),
                          open |-> Cardinality(ListResources \ list)]
    BY DEF ResourceReport
  <2>2. /\ Cardinality(ListResources) = Cardinality(D)
        /\ Cardinality(list) = Cardinality(LockedResources)
    BY ListedResources
  <2> HIDE DEF D, list
  <2> QED
    BY <1>5, <2>1, <2>2
<1>7. LogSays(n) = RowsSay(audit, n)
  BY <1>2, SaysRows
<1>8. RowsSay(audit, n) =
        [total |-> Cardinality(D), locked |-> Cardinality(LockedResources),
         open |-> Cardinality(D \ LockedResources)]
  <2> HIDE DEF n, D
  <2> QED
    BY <1>3, <1>4 DEF RowsSay
<1> QED
  BY <1>1, <1>6, <1>7, <1>8

\* The rank of i among S, when R says which of two is listed first.
Before(S, R, i) == {j \in S : <<j, i>> \in R}

ListsFirst(S, R) ==
  /\ \A i \in S : <<i, i>> \notin R
  /\ \A i, j \in S : i # j => <<i, j>> \in R \/ <<j, i>> \in R
  /\ \A i, j, k \in S : <<i, j>> \in R /\ <<j, k>> \in R => <<i, k>> \in R

LEMMA FewerBefore ==
  ASSUME NEW S, IsFiniteSet(S), NEW R, ListsFirst(S, R),
         NEW i \in S, NEW k \in S, <<i, k>> \in R
  PROVE  Cardinality(Before(S, R, i)) # Cardinality(Before(S, R, k))
<1>1. /\ Before(S, R, i) \in SUBSET Before(S, R, k)
      /\ i \in Before(S, R, k) /\ i \notin Before(S, R, i)
      /\ Before(S, R, k) \in SUBSET S
  BY DEF Before, ListsFirst
<1>2. IsFiniteSet(Before(S, R, k))
  BY <1>1, FS_Subset
<1>3. Cardinality(Before(S, R, i)) = Cardinality(Before(S, R, k))
        => Before(S, R, i) = Before(S, R, k)
  BY <1>1, <1>2, FS_Subset
<1> QED
  BY <1>1, <1>3

\* Listed by rank, every element of S has its place.
LEMMA AllListed ==
  ASSUME NEW S, IsFiniteSet(S), NEW R, ListsFirst(S, R)
  PROVE  LET n == Cardinality(S)
             at(k) == CHOOSE x \in S : Cardinality(Before(S, R, x)) = k - 1
         IN /\ n \in Nat
            /\ \A k \in 1 .. n : at(k) \in S
            /\ \A i \in S : \E k \in 1 .. n : at(k) = i
<1> DEFINE n == Cardinality(S)
           rank(i) == Cardinality(Before(S, R, i))
           at(k) == CHOOSE x \in S : rank(x) = k - 1
           f == [i \in S |-> rank(i) + 1]
<1>1. n \in Nat
  BY FS_CardinalityType
<1>2. ASSUME NEW i \in S
      PROVE  rank(i) \in Nat /\ rank(i) < n
  <2>1. Before(S, R, i) \in SUBSET S /\ i \notin Before(S, R, i)
    BY DEF Before, ListsFirst
  <2>2. IsFiniteSet(Before(S, R, i))
    BY <2>1, FS_Subset
  <2>3. rank(i) \in Nat /\ rank(i) <= n /\ (rank(i) = n => Before(S, R, i) = S)
    BY <2>1, <2>2, FS_Subset, FS_CardinalityType
  <2>4. rank(i) # n
    BY <2>1, <2>3
  <2> QED
    BY <1>1, <2>3, <2>4
<1>3. \A i, j \in S : rank(i) = rank(j) => i = j
  <2> SUFFICES ASSUME NEW i \in S, NEW j \in S, rank(i) = rank(j), i # j
               PROVE  FALSE
    OBVIOUS
  <2>1. <<i, j>> \in R \/ <<j, i>> \in R
    BY DEF ListsFirst
  <2> QED
    BY <2>1, FewerBefore
<1> HIDE DEF n, rank
<1>4. f \in [S -> 1 .. n]
  BY <1>1, <1>2
<1>5. \A i, j \in S : f[i] = f[j] => i = j
  BY <1>2, <1>3
<1>6. IsFiniteSet(1 .. n) /\ Cardinality(1 .. n) = n /\ Cardinality(S) = n
  BY <1>1, FS_Interval DEF n
<1> HIDE DEF f
<1>7. f \in Injection(S, 1 .. n)
  BY <1>4, <1>5 DEF Injection, IsInjective
<1>8. f \in Surjection(S, 1 .. n)
  BY <1>6, <1>7, FS_Injection
<1>9. ASSUME NEW k \in 1 .. n
      PROVE  \E x \in S : rank(x) = k - 1
  <2>1. PICK i \in S : f[i] = k
    BY <1>8 DEF Surjection
  <2> QED
    BY <1>2, <2>1 DEF f
<1>10. \A k \in 1 .. n : at(k) \in S /\ rank(at(k)) = k - 1
  BY <1>9
<1>11. ASSUME NEW i \in S
       PROVE  \E k \in 1 .. n : at(k) = i
  <2>1. rank(i) + 1 \in 1 .. n /\ rank(i) = (rank(i) + 1) - 1
    BY <1>1, <1>2
  <2>2. PICK k \in 1 .. n : rank(i) = k - 1
    BY <2>1
  <2>3. at(k) \in S /\ rank(at(k)) = rank(i)
    BY <1>10, <2>2
  <2> QED
    BY <1>3, <2>3
<1> QED
  BY <1>1, <1>10, <1>11 DEF n, rank

\* The whole log is listed, in whatever order its times are.
LEMMA ListingComplete ==
  ASSUME TypeOK
  PROVE  Range(ListAudit("any", "any", "any", 0)) = 1 .. Len(audit)
<1> DEFINE S == 1 .. Len(audit)
           R == {x \in S \X S : Newer(x[1], x[2])}
           n == Cardinality(S)
           at(k) == CHOOSE x \in S : Cardinality(Before(S, R, x)) = k - 1
           rows == {i \in DOMAIN audit :
                 /\ Matches(audit[i].lease_id, "any")
                 /\ Matches(audit[i].resource, "any")
                 /\ Matches(audit[i].action, "any")}
           newer(i) == {j \in rows : Newer(j, i)}
           listed(k) == CHOOSE i \in rows : Cardinality(newer(i)) = k - 1
           all == ListAudit("any", "any", "any", 0)
<1>1. Len(audit) \in Nat /\ DOMAIN audit = S /\ rows = S
  BY DEF TypeOK, Matches
<1>2. \A i \in S : audit[i].at \in Int /\ i \in Int
  <2>1. \A i \in S : audit[i] \in AuditRow
    BY <1>1 DEF TypeOK
  <2>2. Int64 \subseteq Int
    BY StoreAssumption DEF Int64
  <2> HIDE DEF rows
  <2>3. \A i \in S : audit[i].at \in Int
    BY <2>1, <2>2 DEF AuditRow
  <2> QED
    BY <1>1, <2>3
<1>3. all = [k \in 1 .. Cardinality(rows) |-> listed(k)]
  BY DEF ListAudit
<1>4. \A i, j \in S : <<i, j>> \in R <=> Newer(i, j)
  OBVIOUS
<1> HIDE DEF S, R
<1>5. ListsFirst(S, R)
  <2>1. \A i \in S : ~Newer(i, i)
    BY <1>2 DEF Newer
  <2>2. \A i, j \in S : i # j => Newer(i, j) \/ Newer(j, i)
    BY <1>2 DEF Newer
  <2>3. \A i, j, k \in S : Newer(i, j) /\ Newer(j, k) => Newer(i, k)
    BY <1>2 DEF Newer
  <2> QED
    BY <1>4, <2>1, <2>2, <2>3 DEF ListsFirst
<1>6. \A i \in S : newer(i) = Before(S, R, i)
  BY <1>1, <1>4 DEF Before
<1>7. IsFiniteSet(S)
  BY <1>1, FS_Interval DEF S
<1>8. n \in Nat /\ (\A k \in 1 .. n : at(k) \in S) /\ \A i \in S : \E k \in 1 .. n : at(k) = i
  BY <1>5, <1>7, AllListed
<1>9. \A k : listed(k) = at(k)
  BY <1>1, <1>6
<1> HIDE DEF listed, at
<1>10. all = [k \in 1 .. n |-> at(k)]
  BY <1>1, <1>3, <1>9
<1> HIDE DEF all, n
<1>11. Range(all) = S
  BY <1>8, <1>10 DEF Range
<1> QED
  BY <1>11 DEF all, S

\* What the bundle has read so far is what some beginning of the log says.
BundleFits ==
  reader.kind = "bundle" => \E n \in 0 .. Len(audit) : reader.resources = LogSays(n)

\* Tables and log, resource by resource.
NamesInv ==
  /\ StatsInv
  /\ LogNames
  /\ \A r \in Resource : GateOf(r)

LEMMA InitNames == Init => NamesInv
<1> SUFFICES ASSUME Init PROVE NamesInv
  OBVIOUS
<1>1. DOMAIN audit = {} /\ DOMAIN resources = {}
  BY DEF Init, EmptyStore
<1> QED
  BY <1>1, InitStats, InitHistory DEF NamesInv, LogNames

LEMMA StepNamesInv == NamesInv /\ [Next]_vars => NamesInv'
<1> SUFFICES ASSUME NamesInv, [Next]_vars PROVE NamesInv'
  OBVIOUS
<1>1. StatsInv /\ LeaseInv
  BY DEF NamesInv, StatsInv
<1>2. StatsInv' /\ LogNames'
  BY <1>1, StepStats, StepNames, NamesKept DEF NamesInv
<1>3. LogGrows /\ audit \in Seq(AuditRow)
  BY <1>1, StepGrows DEF LeaseInv, TypeOK
<1>4. \A r \in Resource : GateOf(r)'
  BY <1>1, <1>3, StepHistory, GateKept DEF HistoryStep, NamesInv
<1> QED
  BY <1>2, <1>4 DEF NamesInv

LEMMA StepBundle ==
  ASSUME NamesInv, BundleFits, [ReportsNext]_rvars
  PROVE  BundleFits'
<1>1. LogGrows /\ audit \in Seq(AuditRow)
  BY ReportSteps, StepGrows DEF NamesInv, StatsInv, LeaseInv, TypeOK
<1>2. ASSUME NEW x, NEW n \in 0 .. Len(audit), x = LogSays(n), reader'.resources = x
      PROVE  BundleFits'
  <2>1. n \in 0 .. Len(audit') /\ LogSays(n)' = LogSays(n)
    BY <1>1, SaysKept
  <2> QED
    BY <1>2, <2>1 DEF BundleFits
<1>3. CASE UNCHANGED reader
  <2>1. CASE reader.kind = "bundle"
    <3>1. PICK n \in 0 .. Len(audit) : reader.resources = LogSays(n)
      BY <2>1 DEF BundleFits
    <3> QED
      BY <1>2, <1>3, <3>1
  <2>2. CASE reader.kind # "bundle"
    BY <1>3, <2>2 DEF BundleFits
  <2> QED
    BY <2>1, <2>2
<1>4. CASE BundleResources
  <2>1. Len(audit) \in Nat /\ ResourceReport = LogSays(Len(audit))
    BY TablesSay DEF NamesInv
  <2>2. reader'.resources = ResourceReport
    BY <1>4 DEF BundleResources
  <2>3. Len(audit) \in 0 .. Len(audit)
    BY <2>1
  <2> QED
    BY <1>2, <2>1, <2>2, <2>3
<1>5. CASE BundleAudit \/ ReadLease \/ AdviseOnLease \/ ReadHolder \/ AnswerHolder \/ RestartReader
  <2>1. reader'.kind # "bundle"
    <3>1. CASE ReadLease
      BY <3>1 DEF ReadLease
    <3>2. CASE ReadHolder
      BY <3>2 DEF ReadHolder
    <3> QED
      BY <1>5, <3>1, <3>2 DEF BundleAudit, AdviseOnLease, AnswerHolder, RestartReader, Idle
  <2> QED
    BY <2>1 DEF BundleFits
<1>6. CASE CountRow
  <2>1. reader'.kind = reader.kind /\ reader.kind = "holder"
    BY <1>6 DEF CountRow
  <2> QED
    BY <2>1 DEF BundleFits
<1> QED
  BY <1>3, <1>4, <1>5, <1>6 DEF ReportsNext, Writers, rvars

LEMMA FromBundle ==
  ASSUME reader.kind = "bundle", reader'.kind = "answer", [ReportsNext]_rvars
  PROVE  BundleAudit
<1>1. ~AnswerHolder /\ ~AdviseOnLease /\ ~CountRow
  BY DEF AnswerHolder, AdviseOnLease, CountRow
<1>2. ~BundleResources /\ ~ReadLease /\ ~ReadHolder
  BY DEF BundleResources, ReadLease, ReadHolder, Free
<1>3. ~RestartReader
  BY DEF RestartReader, Idle
<1>4. ~UNCHANGED reader
  OBVIOUS
<1> QED
  BY <1>1, <1>2, <1>3, <1>4 DEF ReportsNext, Writers, rvars

\* The report on the whole log goes to its end.
LEMMA AuditReportComplete ==
  ASSUME TypeOK, NEW n \in 0 .. Len(audit)
  PROVE  n <= AuditReport("any").last_sequence
<1> DEFINE rows == Range(ListAudit("any", "any", "any", 0))
           M == {0} \cup rows
<1>1. Len(audit) \in Nat
  BY DEF TypeOK
<1>2. AuditReport("any").last_sequence = Max(M)
  BY DEF AuditReport
<1>3. rows = 1 .. Len(audit)
  BY ListingComplete
<1> HIDE DEF rows
<1>4. M = 0 .. Len(audit)
  BY <1>1, <1>3
<1>5. IsFiniteSet(0 .. Len(audit)) /\ 0 .. Len(audit) \in SUBSET Nat /\ 0 .. Len(audit) # {}
  <2>1. IsFiniteSet(0 .. Len(audit))
    BY <1>1, FS_Interval
  <2>2. 0 .. Len(audit) \in SUBSET Nat /\ 0 \in 0 .. Len(audit)
    BY <1>1
  <2> QED
    BY <2>1, <2>2
<1> HIDE DEF M
<1>6. n <= Max(M)
  BY <1>4, <1>5, MaxOfNumbers
<1> QED
  BY <1>2, <1>6

LEMMA BundleAnswered ==
  ASSUME NamesInv, BundleFits, [ReportsNext]_rvars,
         reader.kind = "bundle", reader'.kind = "answer"
  PROVE  \E n \in 0 .. Len(audit) :
           /\ reader'.resources = LogSays(n)
           /\ reader.resource = "any" => n <= reader'.audit.last_sequence
<1>1. PICK n \in 0 .. Len(audit) : reader.resources = LogSays(n)
  BY DEF BundleFits
<1>2. /\ reader'.resources = reader.resources
      /\ reader'.audit = AuditReport(reader.resource)
  BY FromBundle DEF BundleAudit
<1>3. n <= AuditReport("any").last_sequence
  BY AuditReportComplete DEF NamesInv, StatsInv, LeaseInv
<1> QED
  BY <1>1, <1>2, <1>3

\* The half of the bundle that is about the resources is what the log says up to
\* some row, and the half about the log goes at least as far as that row.
THEOREM BundleSound == ReportsSpec => BundleLagsOnly
<1>1. ReportsInit => NamesInv /\ BundleFits
  BY InitNames DEF ReportsInit, Idle, BundleFits
<1>2. NamesInv /\ BundleFits /\ [ReportsNext]_rvars => NamesInv' /\ BundleFits'
  BY ReportSteps, StepNamesInv, StepBundle
<1>3. NamesInv /\ BundleFits /\ [ReportsNext]_rvars =>
        [(reader.kind = "bundle" /\ reader'.kind = "answer") =>
           \E n \in 0 .. Len(audit) :
             /\ reader'.resources = LogSays(n)
             /\ reader.resource = "any" => n <= reader'.audit.last_sequence]_rvars
  BY BundleAnswered
<1> QED
  BY <1>1, <1>2, <1>3, PTL DEF ReportsSpec, BundleLagsOnly

=============================================================================
