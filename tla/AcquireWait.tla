---------------------------- MODULE AcquireWait ----------------------------
(***************************************************************************)
(* internal/lease/wait.go: POST /acquire/wait, a loop of Acquire and sleep *)
(* in the goroutine of its request.  A waiter is one such request, named   *)
(* by the holder it asks for; every other client uses LeaseManager.        *)
(*                                                                         *)
(* Between two statements of the loop anything else may happen.  A sleep   *)
(* is measured in seconds that really pass (Tick); the deadline is         *)
(* compared with the wall clock, which may also be set (Adjust).           *)
(***************************************************************************)
EXTENDS LeaseOutcomes

CONSTANTS
  Waiter,           \* the holders that ask through /acquire/wait, once each
  TimeoutSecs,      \* timeout_seconds values that requests carry
  PollInterval,     \* poll_interval_seconds values that requests carry
  DefaultTimeout,   \* 30 in the code
  Second,           \* time.Second: 10^9 in the code, less in a run
  OthersAudit       \* bound: the other clients stop at this many audit rows

ASSUME WaitAssumption ==
  /\ Waiter \subseteq Holder
  /\ TimeoutSecs \subseteq Int64
  /\ PollInterval \subseteq Int64
  /\ DefaultTimeout \in 1 .. MaxInt64
  /\ Second \in Nat \ {0}
  /\ OthersAudit \in Nat

VARIABLES
  pc,         \* where each waiter is in the loop
  req,        \* its request, with the defaults and the cap applied
  deadline,   \* m.now() + timeout
  left,       \* seconds that its time.Sleep still has to run
  gone,       \* whether its client has closed the connection (ctx is done)
  late        \* whether a second ever passed while a waiter could step, or
              \* somebody set the clock while one was waiting

waiters == <<pc, req, deadline, left, gone, late>>

wvars == <<vars, waiters>>

Running == {"check", "attempt", "refused", "acquired"}   \* able to step

Pending == Running \cup {"asleep"}

\* How a request ends; "lost" is the death of the process.
Ended == {"granted", "timeout", "cancelled", "failed", "lost"}

NoRequest == [resource |-> NoResource, ttl |-> 0, timeout |-> 0, interval |-> 0]

WaitInit ==
  /\ Init
  /\ pc = [w \in Waiter |-> "idle"]
  /\ req = [w \in Waiter |-> NoRequest]
  /\ deadline = [w \in Waiter |-> 0]
  /\ left = [w \in Waiter |-> 0]
  /\ gone = [w \in Waiter |-> FALSE]
  /\ late = FALSE

-----------------------------------------------------------------------------
(* The loop *)

Goto(w, label) == pc' = [pc EXCEPT ![w] = label]

Timeout(t) == IF t <= 0 THEN DefaultTimeout ELSE t

\* Faulty variant: no cap on the interval.
IntervalNoCap(i, timeout) == IF i <= 0 THEN 1 ELSE i

Interval(i, timeout) ==
  LET asked == IF i <= 0 THEN 1 ELSE i IN
  IF asked > timeout THEN timeout ELSE asked

\* Validation, defaults, the cap, the deadline.  Bound: the run leaves the
\* request the time it may take, its last sleep included; one whose deadline wraps
\* takes none, for that deadline has passed when the request arrives.
Arrive(w) ==
  \E r \in Resource, ttl \in TTL, t \in TimeoutSecs, i \in PollInterval :
    LET timeout == Timeout(t)
        interval == Interval(i, timeout)
    IN
    /\ phase = "serving"
    /\ pc[w] = "idle"
    /\ now + timeout > MaxInt64 \/ now + timeout + interval <= MaxTime
    /\ IF ValidTTL(ttl)
       THEN /\ Goto(w, "check")
            /\ req' = [req EXCEPT ![w] =
                 [resource |-> r, ttl |-> ttl, timeout |-> timeout,
                  interval |-> interval]]
            /\ deadline' = [deadline EXCEPT ![w] = Add64(now, timeout)]
       ELSE Goto(w, "failed") /\ UNCHANGED <<req, deadline>>
    /\ UNCHANGED <<vars, left, gone, late>>

\* Faulty variant: ctx.Err() is not looked at.
CheckIgnoresContext(w) ==
  /\ pc[w] = "check"
  /\ Goto(w, "attempt")
  /\ UNCHANGED <<vars, req, deadline, left, gone, late>>

Check(w) ==
  /\ pc[w] = "check"
  /\ Goto(w, IF gone[w] THEN "cancelled" ELSE "attempt")
  /\ UNCHANGED <<vars, req, deadline, left, gone, late>>

\* The transaction of m.Acquire, which takes no context: it commits, or it is
\* refused, or the database fails it.
Attempt(w) ==
  LET outcome == AcquireOutcome(req[w].resource, req[w].ttl) IN
  /\ pc[w] = "attempt"
  /\ \/ /\ outcome = "ok"
        /\ \E id \in LeaseId : Acquire(req[w].resource, w, req[w].ttl, id)
        /\ Goto(w, "acquired")
     \/ /\ outcome \in {"ErrConflict", "ErrResourceLocked"}
        /\ Goto(w, "refused")
        /\ UNCHANGED vars
     \/ Goto(w, "failed") /\ UNCHANGED vars
  /\ UNCHANGED <<req, deadline, left, gone, late>>

\* Faulty variant: a response that cannot be written is taken for a failure
\* of the attempt.
ReturnRetries(w) ==
  /\ pc[w] = "acquired"
  /\ Goto(w, IF gone[w] THEN "refused" ELSE "granted")
  /\ UNCHANGED <<vars, req, deadline, left, gone, late>>

\* return resp, nil: the lease is in the response, read by a client or not.
Return(w) ==
  /\ pc[w] = "acquired"
  /\ Goto(w, "granted")
  /\ UNCHANGED <<vars, req, deadline, left, gone, late>>

\* time.Duration(interval) * time.Second wraps; a sleep that is not positive
\* returns at once.
SleepSecs(interval) ==
  LET size == 2 * (MaxInt64 + 1)
      d == ((interval * Second + MaxInt64 + 1) % size) - (MaxInt64 + 1)
  IN IF d <= 0 THEN 0 ELSE d \div Second

\* Faulty variant: the deadline starts anew with every poll.
DecideAnew(w) ==
  /\ pc[w] = "refused"
  /\ Goto(w, "asleep")
  /\ left' = [left EXCEPT ![w] = SleepSecs(req[w].interval)]
  /\ deadline' = [deadline EXCEPT ![w] = Add64(now, req[w].timeout)]
  /\ UNCHANGED <<vars, req, gone, late>>

\* Faulty variant: sleeps for what is left of the timeout, without looking
\* whether anything is.
DecideSleepsFirst(w) ==
  /\ pc[w] = "refused"
  /\ Goto(w, "asleep")
  /\ left' = [left EXCEPT ![w] = deadline[w] - now]
  /\ UNCHANGED <<vars, req, deadline, gone, late>>

\* The second reading of the clock, then time.Sleep.
Decide(w) ==
  /\ pc[w] = "refused"
  /\ IF now >= deadline[w]
     THEN Goto(w, "timeout") /\ UNCHANGED left
     ELSE /\ Goto(w, "asleep")
          /\ left' = [left EXCEPT ![w] = SleepSecs(req[w].interval)]
  /\ UNCHANGED <<vars, req, deadline, gone, late>>

Wake(w) ==
  /\ pc[w] = "asleep"
  /\ left[w] = 0
  /\ Goto(w, "check")
  /\ UNCHANGED <<vars, req, deadline, left, gone, late>>

\* The client closes the connection; net/http ends the context.
Cancel(w) ==
  /\ pc[w] \in Pending
  /\ ~gone[w]
  /\ gone' = [gone EXCEPT ![w] = TRUE]
  /\ UNCHANGED <<vars, pc, req, deadline, left, late>>

WaiterStep(w) ==
  Check(w) \/ Attempt(w) \/ Return(w) \/ Decide(w) \/ Wake(w)

-----------------------------------------------------------------------------
(* Everybody else *)

\* Bounds: the other clients leave a lease id and log rows for the waiters.
Room ==
  /\ Len(audit) < OthersAudit
  /\ Cardinality(LeaseId \ DOMAIN leases) > Cardinality(Waiter)

Others ==
  /\ \/ /\ Room
        /\ \/ \E r \in Resource, h \in Holder \ Waiter, ttl \in TTL, id \in LeaseId :
                Acquire(r, h, ttl, id)
           \/ LeaseRequest
           \/ AdminRequest
     \/ Sweep
     \/ Recover
     \/ AuditRecover
  /\ UNCHANGED waiters

\* Every goroutine of the process dies with it.
Kill ==
  /\ Restart
  /\ pc' = [w \in Waiter |-> IF pc[w] \in Pending THEN "lost" ELSE pc[w]]
  /\ UNCHANGED <<req, deadline, left, gone, late>>

CanStep(w) == pc[w] \in Running \/ (pc[w] = "asleep" /\ left[w] = 0)

Asleep(w) == pc[w] = "asleep" /\ left[w] > 0

\* One second passes, on the wall clock and for those who sleep.  Bound: the wall
\* clock stands still at MaxTime, where all deadlines have passed.
Tick ==
  /\ now < MaxTime \/ \E w \in Waiter : Asleep(w)
  /\ now' = IF now < MaxTime THEN now + 1 ELSE now
  /\ left' = [w \in Waiter |->
       IF Asleep(w) THEN left[w] - 1 ELSE left[w]]
  /\ late' = (late \/ \E w \in Waiter : CanStep(w))
  /\ UNCHANGED <<tables, process, pc, req, deadline, gone>>

\* Somebody sets the clock.
Adjust ==
  /\ BackwardClock
  /\ ClockForward \/ ClockBack
  /\ late' = (late \/ \E w \in Waiter : pc[w] \in Pending)
  /\ UNCHANGED <<pc, req, deadline, left, gone>>

-----------------------------------------------------------------------------

WaitNext ==
  \/ \E w \in Waiter : Arrive(w) \/ WaiterStep(w) \/ Cancel(w)
  \/ Others
  \/ Kill
  \/ Tick
  \/ Adjust

WaitSpec == WaitInit /\ [][WaitNext]_wvars

\* A goroutine that can run is scheduled, and time passes; whoever sets the clock
\* back does so only so many times (a clock set back for ever is a deadline that
\* never comes).
WaitFairSpec ==
  /\ WaitSpec
  /\ \A w \in Waiter : WF_wvars(WaiterStep(w))
  /\ WF_wvars(Tick)
  /\ <>[][now' >= now]_wvars

=============================================================================
