---------------------------- MODULE LeaseServer ----------------------------
(***************************************************************************)
(* The server below LeaseManager: goroutines that queue for the one        *)
(* connection of the pool, and a transaction as the statements it is made  *)
(* of.  A statement changes the transaction's own view of the tables; the  *)
(* commit makes it everybody's; an error at any statement, or at the       *)
(* commit, rolls all of it back.                                           *)
(*                                                                         *)
(* `now` is the last reading of the clock, which a transaction takes when  *)
(* it has the connection, `clock` what the wall clock shows meanwhile.     *)
(* (LockResource, UnlockResource and auditRecover take it some statements  *)
(* later, inside the transaction as well.)                                 *)
(***************************************************************************)
EXTENDS LeaseManager

CONSTANTS
  Caller,       \* goroutines of net/http, each with one request at a time
  Main          \* the goroutine of main, which recovers before it listens

ASSUME ServerAssumption == Main \notin Caller

VARIABLES
  clock,        \* the wall clock
  want,         \* what each goroutine waits for a connection to do: "nothing",
                \* to run a "call", or to "record" a recovery that expired rows
  asked,        \* when it asked for the connection
  tx            \* the open transaction, or NoTx: SetMaxOpenConns(1)

svars == <<vars, clock, want, asked, tx>>

Goroutine == Caller \cup {Main}

\* No connection is in use.
NoTx == [owner |-> {}]

\* A transaction of q, which sees the tables in db: to read, then to run the
\* statements of todo, then to commit.
Tx(q, kind, db, todo) == [owner |-> {q}, kind |-> kind, db |-> db, todo |-> todo]

Committed == [resources |-> resources, leases |-> leases, audit |-> audit]

ServerInit ==
  /\ Init
  /\ clock = now
  /\ want = [q \in Goroutine |-> IF q = Main THEN "call" ELSE "nothing"]
  /\ asked = [q \in Goroutine |-> now]
  /\ tx = NoTx

-----------------------------------------------------------------------------
(* Statements *)

SetStatus(id, new) == [op |-> "status", id |-> id, new |-> new]
PutLease(id, row) == [op |-> "insert", id |-> id, row |-> row]
SetExpiry(id, ttl) == [op |-> "expiry", id |-> id, ttl |-> ttl]
Beat(id) == [op |-> "heartbeat", id |-> id]
Upsert(r, token, id) == [op |-> "upsert", resource |-> r, token |-> token, id |-> id]
FreeRow(r) == [op |-> "free", resource |-> r]    \* GetResource, then the upsert
SetFlag(r, b) == [op |-> "locked", resource |-> r, locked |-> b]
AddAudit(row) == [op |-> "audit", row |-> row]

\* What the statement s does to the transaction's view of the tables.
Run(db, s) ==
  CASE s.op = "status" ->
         [db EXCEPT !.leases = SetLeaseStatus(@, {s.id}, "active", s.new)]
    [] s.op = "insert" -> [db EXCEPT !.leases = InsertLease(@, s.id, s.row)]
    [] s.op = "expiry" ->
         [db EXCEPT !.leases = UpdateLeaseExpiry(@, s.id, s.ttl, Add64(now, s.ttl), now)]
    [] s.op = "heartbeat" -> [db EXCEPT !.leases = UpdateLeaseHeartbeat(@, s.id, now)]
    [] s.op = "upsert" ->
         [db EXCEPT !.resources = UpsertResourceFencing(@, s.resource, s.token, s.id)]
    [] s.op = "free" ->
         [db EXCEPT !.resources = UpsertResourceFencing(
            @, s.resource, GetResource(@, s.resource).fencing_token + 1, NoLease)]
    [] s.op = "locked" ->
         [db EXCEPT !.resources = SetResourceLocked(@, s.resource, s.locked)]
    [] s.op = "audit" -> [db EXCEPT !.audit = Append(@, s.row)]

-----------------------------------------------------------------------------
(* What each method runs once its checks have passed *)

AuditLease(action, id, detail) ==
  AddAudit(LeaseEntry(action, id, leases[id], now, detail))

AcquireScript(r, h, ttl, id, existing) ==
  LET lease == [resource |-> r, holder |-> h, fencing_token |-> NextToken(r),
                acquired_at |-> now, ttl_seconds |-> ttl,
                expires_at |-> Add64(now, ttl), last_heartbeat |-> now,
                status |-> "active"]
      evict == LET old == CHOOSE x \in existing : TRUE IN
               IF existing = {}
               THEN <<>>
               ELSE <<SetStatus(old, "expired"), AuditLease("sweep", old, "")>>
  IN evict \o <<PutLease(id, lease), Upsert(r, NextToken(r), id),
                AddAudit(LeaseEntry("acquire", id, lease, now, ""))>>

TransferScript(id, newHolder, newID) ==
  LET old == leases[id]
      fresh == [old EXCEPT !.holder = newHolder,
                           !.fencing_token = NextToken(old.resource),
                           !.last_heartbeat = now]
  IN <<SetStatus(id, "released"), PutLease(newID, fresh),
       Upsert(old.resource, NextToken(old.resource), newID),
       AuditLease("transfer", id, "to"),
       AddAudit(LeaseEntry("transfer", newID, fresh, now, "from"))>>

\* Nothing on a terminal lease.
RetireScript(id, action) ==
  IF IsTerminal(leases[id].status)
  THEN <<>>
  ELSE <<SetStatus(id, "released"), FreeRow(leases[id].resource),
         AuditLease(action, id, "")>>

SetLockScript(r, locked, action) ==
  IF AlreadyLocked(r, locked)
  THEN <<>>
  ELSE <<SetFlag(r, locked), AddAudit(Entry(action, NoLease, r, 0, now, ""))>>

\* The loop over the rows of ListExpiredActive: three statements for each.
SweepScript(order) ==
  [k \in 1 .. 3 * Len(order) |->
     LET id == order[(k + 2) \div 3] IN
     CASE k % 3 = 1 -> SetStatus(id, "expired")
       [] k % 3 = 2 -> FreeRow(leases[id].resource)
       [] k % 3 = 0 -> AuditLease("sweep", id, "")]

RecordScript == <<AddAudit(Entry("recover", NoLease, NoResource, 0, now, ""))>>

\* The calls of the API that pass their checks on the tables as they are now.
AcquireScripts(r) ==
  UNION {{AcquireScript(r, h, ttl, id, existing) :
            h \in Holder, ttl \in {t \in TTL : ValidTTL(t)}, id \in LeaseId \ DOMAIN leases} :
         existing \in {ids \in GetActiveLeaseByResource(r) :
                         \A old \in ids : Evictable(leases[old])}}

UseScripts(id) ==
  {<<Beat(id), AuditLease("heartbeat", id, "")>>}
  \cup {<<SetExpiry(id, ttl), AuditLease("ttl_update", id, "")>> :
          ttl \in {t \in TTL : ValidTTL(t)}}
  \cup {<<SetExpiry(id, ttl), AuditLease("renew", id, "")>> :
          ttl \in {t \in TTL : ValidTTL(t) /\ InRenewWindow(leases[id])}}
  \cup {TransferScript(id, a[1], a[2]) : a \in Holder \X (LeaseId \ DOMAIN leases)}

MethodScripts ==
  (UNION {AcquireScripts(r) : r \in {x \in Resource : ~GetResource(resources, x).locked}})
  \cup (UNION {UseScripts(p[1]) : p \in {a \in LeaseId \X Token : Usable(a[1], a[2])}})
  \cup {RetireScript(p[1], "release") :
          p \in {a \in LeaseId \X Token : Presented(a[1], a[2])}}
  \cup {RetireScript(id, "force_release") : id \in DOMAIN leases}
  \cup {SetLockScript(r, TRUE, "lock") : r \in Resource}
  \cup {SetLockScript(r, FALSE, "unlock") : r \in Resource}

-----------------------------------------------------------------------------
(* Goroutines *)

\* A request reaches its handler, which asks for the connection.
Ask(q) ==
  /\ q \in Caller
  /\ phase = "serving"
  /\ want[q] = "nothing"
  /\ want' = [want EXCEPT ![q] = "call"]
  /\ asked' = [asked EXCEPT ![q] = clock]
  /\ UNCHANGED <<vars, clock, tx>>

\* Faulty variant: the handler reads the clock and passes the reading on.
BeginWithOldReading(q) ==
  /\ tx = NoTx
  /\ want[q] # "nothing"
  /\ now' = asked[q]
  /\ tx' = Tx(q, "reading", Committed, <<>>)
  /\ UNCHANGED <<tables, process, clock, want, asked>>

\* The pool hands q the connection; BEGIN IMMEDIATE; now := m.now().
Begin(q) ==
  /\ tx = NoTx
  /\ want[q] # "nothing"
  /\ now' = clock
  /\ tx' = Tx(q, "reading", Committed, <<>>)
  /\ UNCHANGED <<tables, process, clock, want, asked>>

Owns(q) == tx.owner = {q}

\* The method has read its rows and its checks have passed.  main runs Recover,
\* a request any method, Recover included (MaxOwed bounds how many at a time).
Read(q) ==
  /\ Owns(q)
  /\ tx.kind = "reading"
  /\ \/ /\ want[q] = "record"
        /\ tx' = [tx EXCEPT !.kind = "record", !.todo = RecordScript]
     \/ /\ want[q] = "call" /\ q \in Caller /\ Accepting
        /\ \E script \in MethodScripts :
             tx' = [tx EXCEPT !.kind = "method", !.todo = script]
     \/ /\ want[q] = "call"
        /\ \E order \in SweepOrders(ListExpiredActive(now)) :
             \/ /\ q \in Caller
                /\ tx' = [tx EXCEPT !.kind = "method", !.todo = SweepScript(order)]
             \/ /\ owed < (IF phase = "starting" THEN 1 ELSE MaxOwed)
                /\ tx' = [tx EXCEPT !.kind = "recover", !.todo = SweepScript(order)]
  /\ UNCHANGED <<vars, clock, want, asked>>

Statement(q) ==
  /\ Owns(q)
  /\ tx.todo # <<>>
  /\ tx' = [tx EXCEPT !.db = Run(@, Head(tx.todo)), !.todo = Tail(@)]
  /\ UNCHANGED <<vars, clock, want, asked>>

\* Whether a recovery that is done must still be recorded.
Expired(q) == Len(tx.db.audit) > Len(audit)

\* Faulty variant: Recover returns before auditRecover.
FinishUnrecorded(q, recovered, recorded) ==
  /\ want' = [want EXCEPT ![q] = "nothing"]
  /\ owed' = IF recovered /\ Expired(q) THEN owed + 1
             ELSE IF recorded THEN owed - 1 ELSE owed
  /\ phase' = IF recorded \/ (recovered /\ ~Expired(q)) THEN "serving" ELSE phase

\* What follows the end of q's transaction: auditRecover after a recovery that
\* expired something; else the answer, or for main the listener.
Finish(q, recovered, recorded) ==
  /\ want' = [want EXCEPT ![q] = IF recovered /\ Expired(q) THEN "record" ELSE "nothing"]
  /\ owed' = IF recovered /\ Expired(q) THEN owed + 1
             ELSE IF recorded THEN owed - 1 ELSE owed
  /\ phase' = IF recorded \/ (recovered /\ ~Expired(q)) THEN "serving" ELSE phase

Commit(q) ==
  /\ Owns(q)
  /\ tx.kind # "reading"
  /\ tx.todo = <<>>
  /\ resources' = tx.db.resources
  /\ leases' = tx.db.leases
  /\ audit' = tx.db.audit
  /\ Finish(q, tx.kind = "recover", tx.kind = "record")
  /\ tx' = NoTx
  /\ UNCHANGED <<now, clock, asked>>

\* Faulty variants: no deferred rollback, so that what was done is kept when the
\* connection is returned; a return that forgets the transaction altogether.
FailKeepsWork(q) ==
  /\ Owns(q)
  /\ q \in Caller
  /\ resources' = tx.db.resources
  /\ leases' = tx.db.leases
  /\ audit' = tx.db.audit
  /\ Finish(q, FALSE, want[q] = "record")
  /\ tx' = NoTx
  /\ UNCHANGED <<now, clock, asked>>

FailLeaksConnection(q) ==
  /\ Owns(q)
  /\ q = Main => want[q] = "record"
  /\ Finish(q, FALSE, want[q] = "record")
  /\ UNCHANGED <<tables, now, clock, asked, tx>>

\* An error: a check that does not pass, a statement or a commit that fails.
\* The deferred rollback drops the transaction and frees the connection; the
\* method returns, auditRecover without a row.  (An error of main's own Recover
\* ends the process, which is Crash.)
Fail(q) ==
  /\ Owns(q)
  /\ q = Main => want[q] = "record"
  /\ Finish(q, FALSE, want[q] = "record")
  /\ tx' = NoTx
  /\ UNCHANGED <<tables, now, clock, asked>>

Step(q) == Read(q) \/ Statement(q) \/ Commit(q) \/ Fail(q)

-----------------------------------------------------------------------------

\* The process dies: SQLite drops the open transaction, and main starts again.
Crash ==
  /\ Restart
  /\ want' = [q \in Goroutine |-> IF q = Main THEN "call" ELSE "nothing"]
  /\ asked' = [q \in Goroutine |-> IF q = Main THEN clock ELSE asked[q]]
  /\ tx' = NoTx
  /\ UNCHANGED clock

\* The wall clock goes on, or back if it is set.
ClockMoves ==
  /\ \E t \in Time :
       /\ t > clock \/ (BackwardClock /\ t < clock)
       /\ clock' = t
  /\ UNCHANGED <<vars, want, asked, tx>>

ServerNext ==
  \/ \E q \in Goroutine : Ask(q) \/ Begin(q) \/ Step(q)
  \/ Crash
  \/ ClockMoves

ServerSpec == ServerInit /\ [][ServerNext]_svars

\* A goroutine that holds the connection goes on.  database/sql hands a freed
\* connection to one of those who wait, picked at random: whoever waits while
\* the connection is freed over and over gets it.
ServerFairSpec ==
  /\ ServerSpec
  /\ \A q \in Goroutine : WF_svars(Step(q)) /\ SF_svars(Begin(q))

-----------------------------------------------------------------------------
(* What must be true of it *)

\* The goroutines, the queue and the open transaction fit together: who holds
\* the connection wants something, and a recovery is owed for exactly the
\* goroutines that have one to record.
ServerTypeOK ==
  /\ clock \in Time
  /\ want \in [Goroutine -> {"nothing", "call", "record"}]
  /\ asked \in [Goroutine -> Time]
  /\ tx # NoTx => \E q \in Goroutine : Owns(q) /\ want[q] # "nothing"
  /\ owed = Cardinality({q \in Goroutine : want[q] = "record"})

\* Statement by statement, with errors and crashes anywhere in between, the
\* committed tables change only as the methods of LeaseManager change them in
\* one step: no caller ever sees, or leaves, half of a method.
MethodsAreAtomic == Spec

\* When nobody sets the clock back, the log is in the order of its times: the
\* clock is read with the connection in hand, not when the request came in, so
\* a call that waited is not judged by an older time than the call before it.
AuditInClockOrder ==
  ~BackwardClock =>
    \A i, j \in DOMAIN audit : i < j => audit[i].at <= audit[j].at

\* Everybody who asks for the connection gets an answer, or dies with the
\* process: each method gives the connection back on every way out of it.
EveryCallEnds == \A q \in Caller : want[q] # "nothing" ~> want[q] = "nothing"

=============================================================================
