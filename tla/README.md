# A TLA+ verification of the resource lease service

The repository is a small HTTP service that leases named resources to holders
and fences stale holders with a token that grows at every change of hands. Its
state is a SQLite file with three tables. This directory holds TLA+ models of
the code under `src/`, configurations that model-check them with TLC, and
theorems about them with proofs checked by TLAPS.

## 1. The system

| part | source | state it keeps | operations | model |
|---|---|---|---|---|
| store | `internal/store/store.go`, `schema.go` | tables `resources` (fencing counter, current lease, locked), `leases`, `audit`; one connection | one statement each, inside the caller's transaction | `LeaseStore`, `LeaseServer`, `LeaseDurability` |
| manager | `internal/lease/manager.go` | none of its own | Acquire, Renew, Release, Heartbeat, Sweep, Recover | `LeaseManager` |
| transfers | `internal/lease/transfer.go` | none | Transfer, UpdateTTL, ForceRelease, Remaining | `LeaseManager`, `LeaseReports` |
| locks | `internal/lease/lock.go` | none | LockResource, UnlockResource, list calls | `LeaseManager`, `LeaseReports` |
| acquire-wait | `internal/lease/wait.go` | a deadline and an interval per waiting request | polls Acquire until it succeeds, times out or is cancelled | `AcquireWait` |
| reads | `stats.go`, `*_report.go`, `*_advi*.go`, `lease_health.go` | none | snapshots, reports, advice | `LeaseReports` |
| HTTP API | `internal/api` | the admin token | a route per manager method, error to status | `LeaseOutcomes`, `LeaseClients` |
| startup | `main.go` | the process: starting or serving | Open, Recover, listen, shut down | `LeaseManager`, `LeaseServer` |
| clock | `internal/clock` | the wall clock | Now, in whole seconds | `LeaseManager` |
| model | `internal/model` | | row and request types, status and audit constants | `LeaseStore` |

**How they interact.** A request handler calls one manager method. A mutating
method is one SQLite transaction that reads the rows it decides on, writes, adds
its audit rows and commits. `Store.Open` limits the pool to one connection and
makes every `BEGIN` a `BEGIN IMMEDIATE`, so transactions run one after another,
and the method reads the clock after it holds the connection. Three things cut
across this: `Recover`, which is *two* transactions (a sweep, then a row in the
log), `AcquireWait`, which is a loop of transactions with sleeps in between, and
a few reports that read in two steps. Nothing runs by itself after the start:
there is no sweeper goroutine.

**What is hard.** The service is sequential inside a transaction and concurrent
between transactions. The hard questions are about long sequences of calls by
clients who do not know of each other: whether every path that ends a lease
keeps the lease row, the resource row and the log in step; whether a client that
lost its lease, or an answer, can still change something; what happens at the
one second where a lease is both usable and up for grabs; what a process killed
between two transactions, or a power loss, leaves to the next one; what a wall
clock that jumps does to all of that; and what a request sees that reads, sleeps
or polls while others commit. `"hazards"` in `PROJECT.json` lists them by line,
with the properties that are about each.

## 2. The modules

| module | what it is |
|---|---|
| `LeaseStore` | the tables, their row types and the statements of `store.go` as operators |
| `LeaseManager` | the mutating methods, the startup, the clock, restarts: `Init`, one action per method, `Next`, `Spec`, `FairSpec` |
| `FencedLease` | the abstract specification: what a system behind the service relies on, with no leases, holders, time or storage |
| `LeaseProperties` | what must be true of `LeaseManager`, and the refinement mapping to `FencedLease` |
| `LeaseOutcomes` | the checks of each method in the order of the code, the error it returns and the HTTP status of it |
| `AcquireWait`, `WaitProperties` | `/acquire/wait`: the loop, statement by statement, among all other requests |
| `LeaseServer` | below `LeaseManager`: goroutines that queue for the one connection, transactions as statements, errors and crashes between any two of them; `LeaseManager` is its abstract specification |
| `LeaseClients` | above `LeaseManager`: clients that see only answers, which may be lost or late, while abandoned requests still run |
| `LeaseReports` | stats, metrics, lists, reports and advice, read among writers |
| `LeaseDurability` | `LeaseManager` on a machine that may lose power |
| `MC...` | the instances for TLC, with their symmetry sets |
| `LeaseManagerProofs` | type correctness, the inductive invariant and what follows from it; `LeaseManager` implements `FencedLease` |
| `LeaseLogProofs` | tokens along the log |
| `LeaseHistoryProofs` | what ends a lease; restarts; locks, deadlines and current leases as the log tells them; the log in the order of its times |
| `WaitProofs` | requests that wait: they are clients like others, acquire at most once and are answered in time |
| `ClientsProofs` | clients behind HTTP: 410 is final, careful holders are protected |
| `ServerProofs` | the server, statement by statement, implements `LeaseManager` |
| `ReportProofs` | stats, advice, lists and reports are true of the tables and the log |
| `DurabilityProofs` | fencing after a power loss |

`LeaseManager` is the middle: `LeaseServer` implements it, `AcquireWait`,
`LeaseClients`, `LeaseReports` and `LeaseDurability` use its actions as they are
(one step of a client is one action of it), and it implements `FencedLease`.

### How state and actions correspond to the code

**LeaseManager.** `resources`, `leases` and `audit` are the three tables:
functions from primary key to row, and a sequence in the order of the
autoincrement id. `now` is the clock. `phase` is whether `main` has come to its
listener. `owed` counts the calls of `Recover` whose sweep retired something and
has committed while `auditRecover` has not run: one at startup, and any number
(at most `MaxOwed`) from `POST /admin/recover`.

| action | code | what one step is |
|---|---|---|
| `Acquire` | `manager.go:78` | lock check, conflict check, eviction of a stale lease with its `sweep` row, new lease, counter + 1, `acquire` row |
| `Renew`, `UpdateTTL`, `Heartbeat` | `manager.go:152`, `transfer.go:105`, `manager.go:257` | token, terminal and expiry checks in the code's order; `Renew` also checks its window |
| `Release`, `ForceRelease` | `manager.go:210`, `transfer.go:158` | the idempotent branch on a terminal lease, or status, counter and row |
| `Transfer` | `transfer.go:23` | old lease released, fresh lease with the old deadline, two rows |
| `LockResource`, `UnlockResource` | `lock.go` | the idempotent branch, or the flag and its row |
| `Sweep` | `manager.go:301` | the whole loop over `ListExpiredActive`, in an order that `ORDER BY expires_at` allows |
| `Recover`, `AuditRecover` | `manager.go:343`, `357` | its two transactions, each a step; the error of the second is ignored, as in the code |
| `Restart` | `main.go` | the process dies between two transactions and starts again on the same file |
| `ClockForward`, `ClockBack` | `clock.go:19` | the wall clock jumps |

**AcquireWait.** `pc` is the statement a waiting request is at: `check`
(`ctx.Err()`), `attempt` (`m.Acquire`), `acquired` or `refused` (what it
returned), `asleep` (`time.Sleep`), or how it ended. `Arrive` is the validation,
the defaults and the cap on the interval; `Decide` the second reading of the
clock. `deadline` is compared with the wall clock, `left` is what is left of a
sleep in seconds that really pass: `Tick` moves both, `Adjust` (somebody sets the
clock) only the first. `Cancel` is the client that closes the connection, `Kill`
the death of the process.

**LeaseServer.** `want` and `asked` are the queue for the connection, `tx` the
transaction that has it: its view of the tables and the statements still to run.
`Begin` reads the clock, `Read` stands for the queries and checks of the method
and picks the script of statements it is going to run, `Statement` runs one,
`Commit` publishes the view, `Fail` is an error anywhere, with the deferred
rollback. A refused call and a read-only request are `Begin` and `Fail`: they
take the connection and change nothing. `Crash` may come after any of these.

**LeaseClients.** `call` is the request a client has open, with the handler's
answer once there is one; `belief` is the lease a client relies on; `orphans`
are requests whose client gave up while the handler had yet to run. `Execute`
runs the handler (`LeaseManager`'s action, or a refusal with the error of
`LeaseOutcomes`) and `Receive` reads its answer. An acquire may also have come
over `/acquire/wait`: its call stays open while it is refused, until it is
granted or `PollTimesOut` (the loop itself is `AcquireWait`). Administrators
force a release, lock and unlock (`ClientsAdmin`), anybody sweeps or recovers
(`Background`), and the clock may be set back (`ClockSetBack`). The clients are
not in the repository. They are as careful as a client can be: they rely on a
lease until the deadline they were told, and reckon with a call from the moment
it is sent. `refused` remembers the leases about which a client was told 410;
when the clock is set back it forgets those that have not ended but were only
past their deadline, for the code then serves them again.

**LeaseReports.** Lists, stats and metrics are one read transaction, so they are
operators over the tables. The reports that are more than that are actions of a
reader: the bundle (resources, then audit: two transactions), the advice on a
lease (a row in a transaction, the clock after it) and the holder report (a list
in a transaction, then the clock anew for every row).

**LeaseDurability.** `disk` is the tables as of the last checkpoint;
`PowerLoss` goes back to it.

### What is abstracted

- In `LeaseManager` a transaction is one step, and a call that returns an error
  is a stuttering step. `LeaseServer` justifies this for the connection, the
  statements and the rollback; SQLite itself is not modelled below that.
- The branches for `n == 0` in `Release` and `Sweep` ("lost the race") cannot be
  taken: the row was read as active in the same transaction. They are left out.
- The text columns `actor` and `detail` are left out, except for which side of a
  transfer a row is (`to:` or `from:`).
- Lease ids are drawn from the unused ones; the 128-bit collision and the
  constant fallback id (unreachable: `crypto/rand.Read` does not return errors
  in current Go) are left out.
- `int64(float64(ttl) * 0.5)` is `ttl \div 2`, exact below 2^53.
- Deadlines are int64 and wrap (`Add64`, with `MaxInt64` a constant), and so does
  the product that gives a sleep its length (`SleepSecs`). Fencing counters are
  naturals: they grow by one per call and do not reach 2^63.
- The stronger half of a power loss, a file that is damaged, is SQLite's affair.

## 3. What is checked

`CHECK_DEADLOCK` is off in all runs: the service only answers requests, nobody
need send one, and the bounds stop each run.

| run | module, specification | checks |
|---|---|---|
| `core` | `LeaseManager`, 1 resource, 3 leases, ttl 0, 1 or 2, clock 0..2 | `TypeOK`, `LeaseInv`, `DeadlineFromLastExtension`, `TerminalRowsFrozen`, `LiveLeaseSurvives`, `StartupServesNothingStale` |
| `handovers` | `LeaseManager`, 2 resources, 3 leases, ttl 1, clock 0..1, 5 audit rows | `CurrentLease`, `TokenLedger`, `AuditReplays`, `GrantTokensIncrease`, `LockGate`, `HandOverRaisesCounter`, `FencedSpec` |
| `server` | `LeaseServer`, fair; 2 requests at a time and main, 2 resources | `ServerTypeOK`, `MethodsAreAtomic`, `AuditInClockOrder`, `EveryCallEnds` |
| `wait` | `AcquireWait`, fair; a waiter, another client, a clock that is set | `WaitTypeOK`, `WaitAcquiresOnce`, `AnsweredInTime`, `AbandonedNeverAcquires`, `WaitReturns` |
| `clients` | `LeaseClients`, 2 clients, 2 leases, one lost answer or failure, forced releases | `HolderIsProtected` |
| `gone` | `LeaseClients`, 1 client, a clock that is set back, locks | `GoneIsFinal` |
| `restart` | `LeaseClients`, fair; 2 clients that acquire, 3 leases, locks, restarts | `RetryIsGranted`, `StaleRetiredAtRestart` |
| `reports` | `LeaseReports`, 2 resources, 2 holders | `StatsAddUp`, `NewestFirst`, `AdviceMirrorsRenew`, `BundleLagsOnly`, `HolderReportBetween` |
| `power_loss` | `LeaseDurability`, 3 leases, 5 audit rows | `DiskTokensNotReissued` |

*The tables and the log.*

- `CurrentLease`: the active leases of a resource are the one its row names, or
  none. No constraint of the schema says so and `LIMIT 1` would hide a second.
- `TokenLedger`: an active lease carries its resource's counter, a terminal one
  a smaller number. With `HandOverRaisesCounter` (no step lowers a counter, and
  a change of hands raises it) no token is granted twice.
- `LeaseInv`: both of them in the form that is inductive (section 4).
- `TerminalRowsFrozen`: a token that was once right matches its old row for
  ever; still, no call with it changes anything.
- `LiveLeaseSurvives`: before its deadline a lease ends only by a release,
  transfer or force-release logged in the same step. With the two comparisons of
  the code (`>` for the holder, `<=` for everybody else) this is a matter of one
  second.
- `DeadlineFromLastExtension`: the deadline is the time of the last acquire,
  renew or ttl update in the log of the resource plus the ttl given then:
  transfers and heartbeats add nothing.
- `AuditReplays`, `GrantTokensIncrease`: the log alone gives the alternation of
  grants and ends, the current lease and its token (the rows of the model carry
  no holder), and tokens in growing order.
- `LockGate`: no acquire between a lock and an unlock in the log, whatever else
  happens to the resource meanwhile, and the flag agrees with the log.
- `StartupServesNothingStale`, `StaleRetiredAtRestart`: when `main` goes on to
  listen, no active lease was past its deadline when `Recover` looked; such a
  lease is in fact retired and the listener reached, if the process is not killed
  for ever.
- `FencedSpec`: `FencedLease` is what a storage system behind the service may
  assume: a resource is held under one token or none, and each new token is
  above a bound that only rises, so remembering the largest token seen is enough
  to refuse everybody earlier. `held` is the token of the active lease, `high`
  the counter of the row, `closed` the lock flag. An acquire is `Grant`, a
  transfer `HandOver`, release, force-release, sweep and recovery are `Free`, a
  lock is `Gate`, and everything else is a stutter.

*The server.*

- `MethodsAreAtomic`: statement by statement, with errors and crashes between
  any two, the committed tables change only as the methods of `LeaseManager`
  change them in one step. This is what all other models rest on.
- `AuditInClockOrder`: the clock is read with the connection in hand, so a call
  that had to wait is not judged by an older time than the call before it.
- `EveryCallEnds`: whoever asks for the connection gets an answer; every way out
  of a method gives the connection back.

*Requests that wait.*

- `WaitAcquiresOnce`: at most one lease, and one exactly when the answer says so.
- `AbandonedNeverAcquires`: after a cancellation that is seen before the next
  attempt there is no lease. (A cancellation during the acquire comes too late,
  and its client is left with a lease it does not know: `RetryIsGranted` is about
  what becomes of it.)
- `AnsweredInTime`: less than one more timeout after the deadline, provided that
  goroutines run promptly and nobody sets the clock while a request waits. These
  two are observed by the history variable `late`, not assumed. A request whose
  `m.now() + timeout` wraps to a negative deadline never sleeps.
- `WaitReturns`: it ends, however long others hold the resource.

*Clients.*

- `HolderIsProtected`: until the deadline it was last told, the lease that a
  careful client relies on is active, its own, under its token, whatever answers
  were lost and whatever abandoned calls still run, unless an administrator
  revoked it. So two clients never rely on a resource at a time. It needs a clock
  that nobody sets back: the client compares its deadline with that clock.
- `GoneIsFinal`: after an answer 410 no delayed or repeated call on that lease is
  carried out. If the clock is set back, this goes on holding of leases that have
  been released or retired; one that was only past its deadline, and that nobody
  has retired, is live again, and then a retried call succeeds.
- `RetryIsGranted`: clients that lost the answers to their acquires meet conflicts
  with leases that nobody knows of, and still one of them gets a lease in the end.
  Two things are assumed. From some moment on no resource is locked: an
  administrator who leaves a lock in place, or sets it again and again, keeps
  everybody out with 423. And the promise is to one of the clients, not to each:
  one that goes on renewing keeps its rivals out for as long as it likes.

*Reads.*

- `StatsAddUp`: stats against rows and log of the same moment. `NewestFirst`: the
  audit listing goes back from the end of the log, and a limit cuts off older
  rows only, when the clock is not set back.
- `AdviceMirrorsRenew`: `renew-advice` opens its window exactly when a renew
  would be accepted at that second; `can_renew` of the health report holds
  exactly when a heartbeat, transfer or ttl update would be.
- `BundleLagsOnly`: the two halves of the bundle each fit the log at some row,
  the second not before the first.
- `HolderReportBetween`: every lease that was read is counted once; none is called
  active that was not live when the table was read, and none is missed that is
  live in the table at the answer and was not extended in between, if nobody sets
  the clock back. A lease that is renewed while the report counts is read with its
  old deadline, and may be reported as ended though it was live all the time.

*Power loss.* `DiskTokensNotReissued`: a token that was granted after the last
checkpoint may be granted again, one that was on the disk may not. The tables go
back together, to a state they have been in, so that a power loss leaves no
state that a restart and a clock that is set do not: the other properties are
those of the other runs.

Every property of a passing run has a mutant in `PROJECT.json`: a definition
changed as a plausible bug would change it (the operators commented "Faulty
variant"), for which TLC must find that property violated.

### Bounds

- `MaxAudit` stops client requests (never a sweep, a recovery or a restart) once
  the log is that long; `LeaseId` bounds the leases ever granted, `MaxTime` the
  clock, `MaxOwed` the recoveries that overlap. Each property speaks of one or
  two leases of one resource and of one or two consecutive changes. Three leases
  show an old, a middle and a current holder; with five rows and the sweeps there
  is room to acquire, lock, pass on or lose, unlock and acquire again. Two
  resources show that a statement meant for one leaves the other alone. ttl 0 is
  refused, ttl 1 and 2 with a clock to 2 put the deadline before, at and after
  every call, and the renew window both open and closed. Sweeps, restarts and
  clock steps are not bounded in number.
- `wait`: `OthersAudit` stops the other clients early and `Room` leaves a lease
  id for the waiter; a request arrives only if its timeout and one more interval
  fit before `MaxTime` (else the bound, and not the code, would decide when it
  is answered) or its deadline wraps, and the wall clock stands still there. A
  timeout of 98 wraps at second 3 (`MaxInt64` is 100). Timeouts 0 (the default)
  and 1 against intervals 0 (one second) and 2 give an interval below, at and
  above the timeout, so that the cap is taken and not. One waiter is enough to
  meet another client; that waiters are safe in any number is proved.
- `clients`, `gone`, `restart`: `MaxAdmin` bounds the rows that administrators
  write and `Lockable` the resources they lock; both are for what the run asks
  about (two forced releases in `clients`, a lock and its unlock in `restart`,
  either in `gone`). `Op` leaves out of `restart` what a client could do with a
  lease: one of its properties ends when a client has got one, the other is
  about a lease that nobody ends. Its log has room for an acquire whatever comes
  before. `MaxFaults` counts lost answers and failed calls, one in a history;
  `MayFail` allows a fault, and `ExecuteOrphan` an abandoned acquire, only if
  the clock has room for the lease it leaves behind to run out, without which
  the end of the clock would keep the resource held.
- `server`: both callers and main ask for the connection at a time, and a sweep
  of two leases is a transaction of six statements.

Symmetry is used in runs without liveness only, over names that are only
compared.

### Fairness

- `FairSpec`: weak fairness of `StartupRecover`. `main` runs `Recover`, both
  transactions of it, without anyone asking. Nothing else is fair: no goroutine
  sweeps, renews or unlocks.
- `ServerFairSpec`: a goroutine that has the connection goes on (weak); one that
  waits gets it if it is freed over and over (strong), because `database/sql`
  hands a freed connection to one of those who wait, at random.
- `WaitFairSpec`: a goroutine that can run is scheduled and seconds pass. The
  clock may be set, back as well, but only finitely often back: a clock that is
  set back for ever is a deadline that never comes.
- `ClientsFairSpec`: handlers run and answers that are not lost arrive, time
  goes on, `main` recovers, and a client without a lease asks again. No
  administrator is fair: nothing says that a lock is taken off, so
  `RetryIsGranted` has that as a premise. The clock does not step back in this
  run, since a stale lease may then stop being stale.

### Disagreements with the text of the repository

Three runs check one sentence each, and TLC finds a behaviour that does not
satisfy it.

| run | sentence | what the code does |
|---|---|---|
| `ttl_overflow` | `transfer.go:101`: "recomputes expires_at = now + newTTLSeconds" | for a huge ttl the sum wraps and the lease is granted already expired |
| `no_sweeper` | `manager.go:3`: "the background sweep"; `schema.go:7`: "while the sweeper runs" | nothing sweeps unless asked; a stale lease stays active |
| `abandoned_sleeps` | `wait.go:23-25`: a caller that abandons its request "must be able to stop waiting without leaving a sleeping poll behind" | the sleep at line 63 does not look at the context; the poll sleeps to the end of its interval |

Others were met while modelling; the models follow the code, and no run asks
about them again.

- `manager.go:348` wants a recovery recorded "even if it expired nothing"; there
  is no row then. `manager.go:342` says "Single transaction"; there are two.
- `manager.go:73` says an eviction bumps the token, then the acquire bumps it
  again; there is one bump, at line 114. Fencing does not need the second.
- `wait.go:11`: the last poll may acquire after the deadline, which is compared
  only after a refusal. For a timeout near 2^63 the sum at line 45 wraps, and the
  request times out after its first refusal (the `wait` run has such requests).
- `wait.go:14`: "only ErrConflict (resource held) is retried"; line 54 retries
  `ErrResourceLocked` as well, and a request for a locked resource ends with a
  timeout instead of 423.
- `wait.go:17`: an interval of at least a second is there "to avoid
  hot-spinning", but for a huge timeout and interval the product at
  line 63 wraps, the sleep is not positive and returns at once.
- `manager.go:25`: a stale holder is said to be refused for its token; it is in
  fact refused because its own lease is terminal (410), its token still matches.
- `report_bundle.go:3`: the "read-only operational snapshot" is read in two
  transactions.
- `can_renew` (`lease_health.go:22`) ignores the renew window that
  `renew-advice` observes: for the first half of a lease the two differ.
- `lock.go:128`: "active-only by default", but the leases of a
  holder include those that have ended.
- `model.go:38`: the token "is monotonic per resource"; with `synchronous=NORMAL`
  (`store.go:27`) a power loss may take the counter back to an earlier commit, and
  the next acquire grants a token that a client already has.

## 4. What is proved

For every set of resources, holders, waiters, clients, goroutines and request
values, every finite set of lease ids and every `MaxInt64`, under the assumption
that each module names (`StoreAssumption`, `ManagerAssumption`,
`WaitAssumption`, `ClientsAssumption`, `ServerAssumption`: typing, `LeaseId`
finite and without `NoLease`, a clock within int64):

| theorem | module | statement |
|---|---|---|
| `TypeCorrect` | `LeaseManagerProofs` | `Spec => []TypeOK` |
| `LeaseInvariant` | | `Spec => []LeaseInv` |
| `OneHolder` | | `Spec => []CurrentLease` |
| `RetiredTokensPassed` | | `Spec => []TokenLedger` |
| `RetiredRowsFrozen` | | `Spec => TerminalRowsFrozen` |
| `CountersRise` | | `Spec => HandOverRaisesCounter` |
| `Refines` | | `Spec => FencedSpec` |
| `LiveLeaseKept` | `LeaseHistoryProofs` | `Spec => LiveLeaseSurvives` |
| `NothingStaleServed` | | `Spec => StartupServesNothingStale` |
| `LocksHold` | | `Spec => []LockGate` |
| `DeadlinesFromLog` | | `DeadlinesFit`, `Spec => []DeadlineFromLastExtension` |
| `LogReplays` | | `Spec => []AuditReplays` |
| `GrantsIncrease` | `LeaseLogProofs` | `Spec => []GrantTokensIncrease` |
| `WaitTypeCorrect` | `WaitProofs` | `WaitSpec => []WaitTypeOK` |
| `WaitImplements` | | `WaitSpec => Spec` |
| `WaitersAcquireOnce` | | `WaitSpec => []WaitAcquiresOnce` |
| `AnswersInTime` | | `WaitSpec => []AnsweredInTime` |
| `AbandonedAcquireNothing` | | `WaitSpec => AbandonedNeverAcquires` |
| `ClientsInvariant` | `ClientsProofs` | `ClientsSpec => []LeaseInv` |
| `GoneStaysGone` | | `ClientsSpec => GoneIsFinal` |
| `HoldersProtected` | | `DeadlinesFit`, `ClientsSpec => []HolderIsProtected` |
| `MethodsAtomic` | `ServerProofs` | `ServerSpec => MethodsAreAtomic` |
| `QueueFits` | | `ServerSpec => []ServerTypeOK` |
| `ServerKeepsPromises` | | `ServerSpec => [](CurrentLease /\ TokenLedger /\ GrantTokensIncrease /\ LockGate /\ AuditReplays)` |
| `ServerFences` | | `ServerSpec => FencedSpec` |
| `ServerKeepsLeases` | | `ServerSpec => TerminalRowsFrozen /\ LiveLeaseSurvives` |
| `LogInClockOrder` | | `ServerSpec => []AuditInClockOrder` |
| `StatsCorrect` | `ReportProofs` | `ReportsSpec => []StatsAddUp` |
| `AdviceAgrees` | | `ReportsSpec => AdviceMirrorsRenew` |
| `HolderReportSound` | | `ReportsSpec => HolderReportBetween` |
| `ListingsNewestFirst` | | `ReportsSpec => []NewestFirst` |
| `BundleSound` | | `ReportsSpec => BundleLagsOnly` |
| `NoDiskTokenReissued` | `DurabilityProofs` | `DurabilitySpec => DiskTokensNotReissued` |

**The argument.** `CurrentLease` is not inductive: a step that retires the
lease named by the row keeps it only if no other lease is active, which holds
because each active lease is named by its row. `LeaseInv` says it from both
sides. `LeaseHasRow`: every lease has a resource row, and an active lease is
named by that row and carries its counter, while a terminal lease carries less.
`RowNamesLease`: a row names no lease, or an active lease of its own resource.
Two active leases of a resource would both be the one its row names.

Rather than go through the conjuncts for each of a dozen methods, the proof
gives every step one of three shapes: `Keeps` (no lease changes status, token or
resource; no row changes counter or lease), `Ends(gone, status)` (the active
leases of `gone` become terminal and their rows move on) and `Grants(r, id, row,
status)` (a new lease over what may have been there). `StepShape` shows that
each action has one of them; `KeptInv`, `EndInv` and `GrantInv` show that each
shape preserves `LeaseInv`. The other theorems and the refinement reuse the
shapes. `LiveLeaseKept` and `NothingStaleServed` need in addition which leases a
sweep and an eviction take and which rows a step adds to the log.

*Along the log.* `GrantTokensIncrease` compares rows with rows and is not
inductive; `LogBelowCounters` is what it needs: no row of a resource has a token
above the counter. `StepAppends` says what each action logs: rows that grant
nothing and carry a token that the counter has reached (`PlainRow`), and last, at
most one grant, with the token that is the counter after the step.

`LockGate`, `DeadlineFromLastExtension` and `AuditReplays` are proved resource
by resource (`GateOf`, `DeadlineOf`, `ReplayOf`). For each, a step says what its
rows may be against the tables before and after (`GateStep`, `DeadlineStep`,
`ReplayStep`: nothing of the kind, one row, or for a change of hands an end and
then a grant), `StepHistory` shows that every action is such a step, and a lemma
about positions in a growing log does the rest. The token of the lease that the
last row grants is what the row that ends it is compared with.

`DeadlinesFit` says that `MaxTime + ttl <= MaxInt64` for every ttl that is asked
for. It is needed: `ttl_overflow` has a lease whose deadline wrapped and is not
the sum. Ordinary ttls satisfy it for some hundred billion years.

*Waiters.* `WaitStep` maps every step with waiters to a step of `LeaseManager` or
a stutter, so `LeaseInv` and all that is proved of `Spec` hold with them. It
needs that a pending request is one that was validated when it arrived
(`Valid`). `WaitAcquiresOnce` joins the log, the table and the label of the
request: its steps need that acquires in the log are of leases in the table
(`AcquiresKnown`) and that no step changes whose a lease is (`HoldersKept`);
then only the waiter's own `Attempt` adds to its acquires, when there are none.
`AnsweredInTime` is not inductive while a request sleeps: `WakesInTime` counts
the rest of the sleep in, and needs that the timeout caps the interval
(`Capped`), also when the Duration wraps. A deadline that wraps is negative, and
the clock is not, so that `Decide` never lets such a request sleep.

*Clients.* A client may present any token, not only one of `Token`, so these
proofs are about `AnyNext`, which is `Next` with that freedom. `KnownInv` says
that what clients know, were answered and have asked for is about leases that
were granted to them, under their tokens, and that a lease refused with 410 is
`Unusable`; `GoneOutcome` goes through the checks of each method to show that
410 means that. No step makes an unusable lease usable but a clock that is set
back, and that only one that has not ended, which `refused` then forgets.
`HolderIsProtected`, for which the clock is not set back,
needs `HeldInv`: the answers on their way are as sound as the beliefs
(`SoundAnswers`); a lease just granted is known to nobody else (`GrantsApart`);
a client with an open call already reckons with what it may do (`Reckoned`);
and no abandoned call can touch a lease that somebody relies on
(`OrphansApart`). Then no step harms what a client was told (`HarmlessStep`).
Where a deadline wraps, a lease can be extended into the past: `DeadlinesFit`
again.

*The server.* `Leads(db, todo, end)` says that the statements `todo` take a
transaction's view `db` of the tables to `end`, and a goal (`MethodGoal`,
`SweepGoal`, `RecordGoal`) says that `end` is what an action of `LeaseManager`
makes of the committed tables. `ServerInv` says that an open transaction is on
its way to a goal (`OnTrack`). Every script leads to its goal when it is chosen
(`MethodLeads`; `SweepLeads`, for the loop over any number of rows, gives the
view after each statement of each turn); a statement keeps the rest of the way;
while the transaction is open nobody else changes the tables or its reading of
the clock, so the goal stands (`OnTrackStands`); and a commit at the end of the
way is the action (`MethodCommits`, `SweepCommits`). Rollbacks and crashes leave
the committed tables as they are. `QueueOK` keeps count of the recoveries that
are owed. Since the server implements `Spec`, what is proved of `Spec` holds of
it: `ServerKeepsPromises` and `ServerKeepsLeases` say so for what matters most,
`ServerFences` puts the two refinements together, from single statements up to
the abstract fenced lease, and `LogInClockOrder` is proved in that way, from
`PastInOrder` (no row is later than the clock).

*Reports.* A reader changes no table (`ReadersOnlyRead`), so all that is proved
of `Spec` holds among readers too.

- Advice: the outcome of a method is its first check that fails, of at most six;
  the advice is "yes" exactly when none does.
- `StatsInv` relates the numbers: every grant in the log is of a lease and every
  lease has one grant (`GrantsAreLeases`, so there are as many of each), and the
  table of resources is finite, because a step adds at most one row to it. That
  active leases and held resources are equal in number is `LeaseInv` once more,
  and that no token is above the maximum is `LogBelowCounters`.
- Listings: the place of a row is the number of rows that come before it. Distinct
  rows have distinct places (`RankFalls`, `FewerBefore`), and so every place is
  taken (`RankTaken`, `AllListed`). If the clock is never set back, before is
  later in the log.
- The holder report: `HolderCounts` says that the rows counted so far lie
  between those that were live when the list was read and those whose read
  deadline is still ahead. An unextended lease that the table has live at the
  answer is one of these: `ReadEndsKnown` says that a lease read as ended has
  ended in the table.
- The bundle: `LogNames` says that the log names a resource exactly when the table
  has it, and `GateOf` that the flag is what the last lock or unlock said. So the
  first half of the bundle is what the log said at that moment (`TablesSay`); the
  log only grows (`SaysKept`), and the second half lists all of it
  (`ListingComplete`), also when its times are in disorder.

*Power loss.* `DiskBehind` says of the disk what `LeaseInv` says of the tables,
and that no lease or counter on it is ahead of the tables. A checkpoint
establishes it, the service preserves it because counters rise and leases are
not deleted, and a power loss turns it into `LeaseInv` again, which the
next steps of the service need.

**Only model-checked.** Liveness: `EveryCallEnds`, `WaitReturns`,
`RetryIsGranted` and `StaleRetiredAtRestart`. It rests on fairness and `ENABLED`,
which are out of the prover's reach. Every safety property and every action
property that a run checks is also a theorem.

## 5. What is not modelled

- JSON, headers, query parsing and the admin token (a comparison of strings in a
  middleware); the Prometheus text; health and version; logging.
- The smoke test, `smoke_test_scenarios.go`: a scripted client with a fake clock.
- `SetResourceLease` and `CountLockedResources`, which nothing calls.
- SQLite and `database/sql` below what `LeaseServer` and `LeaseDurability` say of
  them; shutdown, which ends in the same states as a kill.

Still to do: two waiters at a time on a larger instance.

## 6. Running it

    tlc -workers 2 -config core.cfg MCLeaseManager.tla
    tlapm LeaseManagerProofs.tla

`PROJECT.json` lists the runs, the mutants, the source lines behind each
definition, the findings, the hazards and the theorems.
