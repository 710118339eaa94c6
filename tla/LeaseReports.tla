---------------------------- MODULE LeaseReports ----------------------------
(***************************************************************************)
(* The reads: lists, stats and metrics, which are one transaction and so a *)
(* function of the tables, and the reports that are more than that.  A     *)
(* reader is a request that runs such a report: it reads the tables in one *)
(* transaction and goes on with a second one, or with the clock, when the  *)
(* tables may have changed.                                                *)
(***************************************************************************)
EXTENDS LeaseOutcomes

VARIABLE reader     \* the report under way, or its answer

rvars == <<vars, reader>>

-----------------------------------------------------------------------------
(* Lists: Filter fields that are "any" are not part of the WHERE clause *)

ListResources == {[name |-> r, row |-> resources[r]] : r \in DOMAIN resources}

Matches(field, wanted) == wanted = "any" \/ field = wanted

\* Without a limit; rows acquired in the same second come in any order, which
\* no caller depends on.
ListLeases(status, r, h) ==
  {id \in DOMAIN leases :
     /\ Matches(leases[id].status, status)
     /\ Matches(leases[id].resource, r)
     /\ Matches(leases[id].holder, h)}

LeasesByHolder(h) == ListLeases("any", "any", h)

\* Faulty variant: ORDER BY at DESC, and rows of one second as they were written.
NewerBySecond(i, j) ==
  audit[i].at > audit[j].at \/ (audit[i].at = audit[j].at /\ i < j)

\* ORDER BY at DESC, id DESC.
Newer(i, j) ==
  audit[i].at > audit[j].at \/ (audit[i].at = audit[j].at /\ i > j)

\* The ids of the rows that ListAudit returns; a limit of 0 is none.
ListAudit(id, r, action, limit) ==
  LET rows == {i \in DOMAIN audit :
                 /\ Matches(audit[i].lease_id, id)
                 /\ Matches(audit[i].resource, r)
                 /\ Matches(audit[i].action, action)}
      n == Cardinality(rows)
      newer(i) == {j \in rows : Newer(j, i)}
  IN [k \in 1 .. IF limit > 0 THEN Min({limit, n}) ELSE n |->
        CHOOSE i \in rows : Cardinality(newer(i)) = k - 1]

-----------------------------------------------------------------------------
(* Stats and metrics *)

CountLeasesByStatus(status) == Cardinality(ListLeases(status, "any", "any"))

\* Faulty variant: no WHERE status.
CountAllHolders == Cardinality({leases[id].holder : id \in DOMAIN leases})

\* The deadline of the lease is not looked at.
CountHolders ==
  Cardinality({leases[id].holder : id \in ListLeases("active", "any", "any")})

Stats ==
  [resources |-> Cardinality(ListResources),
   locked |-> Cardinality({x \in ListResources : x.row.locked}),
   active |-> CountLeasesByStatus("active"),
   released |-> CountLeasesByStatus("released"),
   expired |-> CountLeasesByStatus("expired"),
   holders |-> CountHolders]

Metrics ==
  [stats |-> Stats,
   max_fencing_token |->
     Max({0} \cup {resources[r].fencing_token : r \in DOMAIN resources}),
   audit_entries |-> Len(ListAudit("any", "any", "any", 0))]

-----------------------------------------------------------------------------
(* What the reports compute from what they read *)

\* Faulty variant: a resource that is held counts as locked.
ResourceReportHeld ==
  LET locked == {x \in ListResources : x.row.locked \/ x.row.current_lease_id # NoLease} IN
  [total |-> Cardinality(ListResources), locked |-> Cardinality(locked),
   open |-> Cardinality(ListResources \ locked)]

ResourceReport ==
  LET locked == {x \in ListResources : x.row.locked} IN
  [total |-> Cardinality(ListResources), locked |-> Cardinality(locked),
   open |-> Cardinality(ListResources \ locked)]

AuditReport(r) ==
  LET rows == Range(ListAudit("any", r, "any", 0)) IN
  [total_by_action |->
     [a \in {audit[i].action : i \in rows} |->
        Cardinality({i \in rows : audit[i].action = a})],
   last_sequence |-> Max({0} \cup rows)]

RemainingSecs(l) == l.expires_at - now

\* Faulty variant: the window closes a second before the deadline.
WindowOpenShort(l) ==
  /\ ~IsTerminal(l.status)
  /\ RemainingSecs(l) > 0
  /\ RemainingSecs(l) <= RenewThreshold(l)

\* RenewAdvice.
WindowOpen(l) ==
  /\ ~IsTerminal(l.status)
  /\ RemainingSecs(l) >= 0
  /\ RemainingSecs(l) <= RenewThreshold(l)

\* LeaseHealth.
CanRenew(l) == ~IsTerminal(l.status) /\ RemainingSecs(l) >= 0

\* Remaining, which does not look at the status.
PastExpiry(l) == now > l.expires_at

\* Faulty variant: only the status.
CountsAsActiveByStatus(l) == l.status = "active"

\* HolderReport, row by row.
CountsAsActive(l) == l.status = "active" /\ l.expires_at > now

\* AcquireAdvice: a lock is all it looks at.
AcquireAllowed(r) == ~GetResource(resources, r).locked

-----------------------------------------------------------------------------
(* The reader *)

Idle == [kind |-> "idle"]

ReportsInit == Init /\ reader = Idle

Free == phase = "serving" /\ reader.kind \in {"idle", "answer"}

\* GET /reports: the first transaction.
BundleResources ==
  /\ Free
  /\ \E r \in Resource \cup {"any"} :
       reader' = [kind |-> "bundle", resource |-> r, resources |-> ResourceReport]
  /\ UNCHANGED vars

\* The second transaction, and the answer.
BundleAudit ==
  /\ reader.kind = "bundle"
  /\ reader' = [kind |-> "answer", of |-> "bundle", resources |-> reader.resources,
                audit |-> AuditReport(reader.resource)]
  /\ UNCHANGED vars

\* Remaining, LeaseHealth and RenewAdvice: GetLease in a transaction, ...
ReadLease ==
  /\ Free
  /\ \E id \in LeaseId :
       reader' = IF id \in DOMAIN leases
                 THEN [kind |-> "lease", id |-> id, row |-> leases[id]]
                 ELSE [kind |-> "answer", of |-> "ErrNotFound"]
  /\ UNCHANGED vars

\* ... then the clock, and the answer from the row that was read.
AdviseOnLease ==
  /\ reader.kind = "lease"
  /\ reader' = [kind |-> "answer", of |-> "lease", id |-> reader.id,
                row |-> reader.row, remaining |-> RemainingSecs(reader.row),
                window_open |-> WindowOpen(reader.row),
                can_renew |-> CanRenew(reader.row),
                expired |-> PastExpiry(reader.row)]
  /\ UNCHANGED vars

\* HolderReport: the list in a transaction, ...
ReadHolder ==
  /\ Free
  /\ \E h \in Holder :
       LET rows == LeasesByHolder(h) IN
       reader' = [kind |-> "holder", since |-> now,
                  read |-> [id \in rows |-> leases[id]], rest |-> rows,
                  active |-> 0, terminal |-> 0, latest |-> 0]
  /\ UNCHANGED vars

\* ... and the clock anew for each row.
CountRow ==
  /\ reader.kind = "holder"
  /\ \E id \in reader.rest :
       LET l == reader.read[id]
           active == CountsAsActive(l)
       IN reader' = [reader EXCEPT
            !.rest = @ \ {id},
            !.active = IF active THEN @ + 1 ELSE @,
            !.terminal = IF active THEN @ ELSE @ + 1,
            !.latest = Max({@, l.expires_at})]
  /\ UNCHANGED vars

AnswerHolder ==
  /\ reader.kind = "holder"
  /\ reader.rest = {}
  /\ reader' = [kind |-> "answer", of |-> "holder", since |-> reader.since,
                read |-> reader.read, active |-> reader.active,
                terminal |-> reader.terminal, latest |-> reader.latest]
  /\ UNCHANGED vars

\* The process dies, and the report with it.
RestartReader == Restart /\ reader' = Idle

\* Everybody else goes on.
Writers ==
  /\ \/ AcquireRequest \/ LeaseRequest \/ AdminRequest
     \/ Sweep \/ Recover \/ AuditRecover \/ ClockForward \/ ClockBack
  /\ UNCHANGED reader

ReportsNext ==
  \/ BundleResources
  \/ BundleAudit
  \/ ReadLease
  \/ AdviseOnLease
  \/ ReadHolder
  \/ CountRow
  \/ AnswerHolder
  \/ RestartReader
  \/ Writers

ReportsSpec == ReportsInit /\ [][ReportsNext]_rvars

-----------------------------------------------------------------------------
(* What must be true of the answers *)

\* The stats of a moment fit the tables and the log of that moment: as many
\* active leases as resources name one, no more holders than that, as many
\* leases in all as the log has grants, as many locked resources as the advice on
\* acquiring refuses, and no token above the maximum.
StatsAddUp ==
  LET grants == {i \in DOMAIN audit :
                   \/ audit[i].action = "acquire"
                   \/ audit[i].action = "transfer" /\ audit[i].detail = "from"}
      held == {r \in DOMAIN resources : resources[r].current_lease_id # NoLease}
      s == Metrics.stats
  IN /\ s.active = Cardinality(held)
     /\ s.holders <= s.active /\ (s.active > 0 => s.holders > 0)
     /\ s.active + s.released + s.expired = Cardinality(grants)
     /\ s.locked = Cardinality({r \in Resource : ~AcquireAllowed(r)})
     /\ s.locked <= s.resources /\ s.active <= s.resources
     /\ \A i \in grants : audit[i].fencing_token <= Metrics.max_fencing_token
     /\ Metrics.audit_entries = Len(audit)

\* Newest first: when nobody sets the clock back, the listing of the log, or of
\* what it has on one lease, goes back from its end, also among the rows that
\* one transaction or one second wrote, and a limit leaves out only older rows.
NewestFirst ==
  ~BackwardClock =>
    \A id \in LeaseId \cup {"any"}, limit \in 0 .. Len(audit) :
      LET rows == ListAudit(id, "any", "any", limit)
          all == ListAudit(id, "any", "any", 0)
      IN /\ \A k \in 1 .. Len(rows) - 1 : rows[k] > rows[k + 1]
         /\ \A k \in DOMAIN all : k > Len(rows) => \A m \in Range(rows) : m > all[k]

\* The advice on a lease mirrors the rules of the calls it is about: renew-advice
\* says that the window is open exactly when a renew, sent at that second with
\* the token of the lease, would be accepted, and health says can_renew exactly
\* when a heartbeat, a transfer or a ttl update would be; unless the lease has
\* changed since its row was read.
AdviceMirrorsRenew ==
  [][(reader.kind = "lease" /\ reader'.kind = "answer"
        /\ leases[reader.id] = reader.row) =>
       LET id == reader.id
           token == reader.row.fencing_token
       IN /\ reader'.window_open <=> RenewOutcome(id, token, 1) = "ok"
          /\ reader'.can_renew <=> UseOutcome(id, token) = "ok"]_rvars

\* What the first n rows of the log say of the resources: which of them exist,
\* and which of those were locked last.
LogSays(n) ==
  LET rows == SubSeq(audit, 1, n)
      named == {rows[i].resource : i \in 1 .. n} \ {NoResource}
      switched(r) ==
        SelectLastInSeq(rows, LAMBDA e : e.resource = r /\ e.action \in {"lock", "unlock"})
      locked == {r \in named : switched(r) > 0 /\ rows[switched(r)].action = "lock"}
  IN [total |-> Cardinality(named), locked |-> Cardinality(locked),
      open |-> Cardinality(named \ locked)]

\* The bundle is not torn further than its two transactions allow: its half on
\* the resources is what the log says at some row, and its half on the log goes
\* at least as far as that row, whatever commits in between.
BundleLagsOnly ==
  [][(reader.kind = "bundle" /\ reader'.kind = "answer") =>
       \E n \in 0 .. Len(audit) :
         /\ reader'.resources = LogSays(n)
         /\ reader.resource = "any" => n <= reader'.audit.last_sequence]_rvars

\* The report on a holder counts every lease that it read once.  It calls active
\* only leases that were live when it read the table, and every lease of those
\* that is live in the table when it answers, although it looks at the clock once
\* for every row and commits go on (and nobody sets the clock back meanwhile).
\* A lease that was extended since it was read is not promised: its old deadline
\* may have passed while the report counted, so that a holder whose lease was
\* live all the time is reported without one.
HolderReportBetween ==
  [][(~BackwardClock /\ reader.kind = "holder" /\ reader'.kind = "answer") =>
       LET read == reader.read
           live == {id \in DOMAIN read :
                      read[id].status = "active" /\ read[id].expires_at > reader.since}
           stillLive == {id \in DOMAIN read :
                           /\ leases[id].status = "active"
                           /\ leases[id].expires_at > now
                           /\ leases[id].expires_at <= read[id].expires_at}
       IN /\ reader'.active + reader'.terminal = Cardinality(DOMAIN read)
          /\ reader'.active <= Cardinality(live)
          /\ reader'.active >= Cardinality(stillLive)]_rvars

=============================================================================
