---------------------------- MODULE LeaseClients ----------------------------
(***************************************************************************)
(* LeaseManager behind HTTP, with clients that see only its answers.  An   *)
(* answer may come late or never; a request whose client gave up may still *)
(* run, since no handler but the one of /acquire/wait looks at the context *)
(* of its request.                                                         *)
(*                                                                         *)
(* The clients are not part of the repository.  They do what a careful     *)
(* holder can do: rely on a lease only until the deadline it was told,     *)
(* reckon with the effect of a call from the moment it is sent, and stop   *)
(* relying on a lease when a call that may change it is refused or gets no *)
(* answer.                                                                 *)
(***************************************************************************)
EXTENDS LeaseOutcomes

Operation == {"acquire", "renew", "ttl_update", "heartbeat", "release", "transfer"}

CONSTANTS
  Op,           \* bound: the kinds of requests that clients send
  MaxFaults,    \* bound: answers lost and calls failed by the database
  MaxAdmin,     \* bound: audit rows written for administrators
  Lockable      \* bound: the resources that administrators may lock

ASSUME ClientsAssumption ==
  /\ Op \subseteq Operation
  /\ MaxFaults \in Nat
  /\ MaxAdmin \in Nat
  /\ Lockable \subseteq Resource

VARIABLES
  call,       \* the call each client (a holder) has open: none, or a request
              \* and its answer, if the handler is done
  orphans,    \* requests that a client gave up on and that may still run
  belief,     \* the lease each client relies on: none, or id, token, deadline
  refused,    \* history: leases about which a client was answered 410 Gone; those
              \* that were only past their deadline, until the clock is set back
  faults      \* how many answers were lost and calls failed so far

clients == <<call, orphans, belief, refused, faults>>

cvars == <<vars, clients>>

\* Requests are records of one form; "to" is the new holder of a transfer.
Request(op, by, r, id, token, ttl, to) ==
  [op |-> op, by |-> by, resource |-> r, id |-> id, token |-> token,
   ttl |-> ttl, to |-> to]

NoAnswer == [outcome |-> "none"]

ClientsInit ==
  /\ Init
  /\ call = [c \in Holder |-> {}]
  /\ orphans = {}
  /\ belief = [c \in Holder |-> {}]
  /\ refused = {}
  /\ faults = 0

-----------------------------------------------------------------------------
(* Clients send *)

Send(c, request, believed) ==
  /\ request.op \in Op
  /\ call[c] = {}
  /\ call' = [call EXCEPT ![c] = {[request |-> request, answer |-> NoAnswer]}]
  /\ belief' = [belief EXCEPT ![c] = believed]
  /\ UNCHANGED <<vars, orphans, refused, faults>>

SendAcquire(c) ==
  /\ belief[c] = {}
  /\ \E r \in Resource, ttl \in TTL :
       Send(c, Request("acquire", c, r, NoLease, 0, ttl, c), {})

\* From now on the deadline may be as early as now + ttl.
SendExtension(c) ==
  \E b \in belief[c], ttl \in TTL, op \in {"renew", "ttl_update"} :
    Send(c, Request(op, c, NoResource, b.id, b.token, ttl, c),
         {[b EXCEPT !.until = Min({b.until, now + ttl})]})

SendHeartbeat(c) ==
  \E b \in belief[c] :
    Send(c, Request("heartbeat", c, NoResource, b.id, b.token, 0, c), {b})

\* From now on somebody else may hold the resource.
SendHandBack(c) ==
  \E b \in belief[c] :
    \/ Send(c, Request("release", c, NoResource, b.id, b.token, 0, c), {})
    \/ \E to \in Holder :
         Send(c, Request("transfer", c, NoResource, b.id, b.token, 0, to), {})

\* The deadline has passed.
LetGo(c) ==
  /\ call[c] = {}
  /\ \E b \in belief[c] : b.until <= now
  /\ belief' = [belief EXCEPT ![c] = {}]
  /\ UNCHANGED <<vars, call, orphans, refused, faults>>

\* Bounds: so many faults, and none that leaves a lease to nobody for longer
\* than the clock can run.
MayFail ==
  /\ faults < MaxFaults
  /\ \A id \in DOMAIN leases :
       leases[id].status = "active" => leases[id].expires_at <= MaxTime

\* What c still relies on when its call gets no answer: a lost heartbeat changes
\* nothing that c relies on, any other call may have ended its lease or moved the
\* deadline.
Unanswered(c) ==
  IF \A open \in call[c] : open.request.op = "heartbeat" THEN belief[c] ELSE {}

\* No answer, or none in time: c closes the connection.
GiveUp(c) ==
  \E open \in call[c] :
    /\ MayFail
    /\ faults' = faults + 1
    /\ call' = [call EXCEPT ![c] = {}]
    /\ belief' = [belief EXCEPT ![c] = Unanswered(c)]
    /\ orphans' = IF open.answer = NoAnswer THEN orphans \cup {open.request} ELSE orphans
    /\ UNCHANGED <<vars, refused>>

-----------------------------------------------------------------------------
(* The handlers *)

\* The response body of a call that succeeded.
Done(id, token, until) ==
  [outcome |-> "ok", id |-> id, token |-> token, until |-> until]

Refusal(outcome) == [outcome |-> outcome]

\* The method of the request q, its checks in order: what it returns.
ResultOf(q) ==
  CASE q.op = "acquire" -> AcquireOutcome(q.resource, q.ttl)
    [] q.op = "renew" -> RenewOutcome(q.id, q.token, q.ttl)
    [] q.op = "ttl_update" -> UpdateTTLOutcome(q.id, q.token, q.ttl)
    [] q.op = "release" -> ReleaseOutcome(q.id, q.token)
    [] q.op \in {"heartbeat", "transfer"} -> UseOutcome(q.id, q.token)

\* The route of the request: the step of LeaseManager that it is.
Served(q) ==
  \/ q.op = "acquire" /\ \E id \in LeaseId : Acquire(q.resource, q.by, q.ttl, id)
  \/ q.op = "renew" /\ Renew(q.id, q.token, q.ttl)
  \/ q.op = "ttl_update" /\ UpdateTTL(q.id, q.token, q.ttl)
  \/ q.op = "heartbeat" /\ Heartbeat(q.id, q.token)
  \/ q.op = "release" /\ Release(q.id, q.token)
  \/ q.op = "transfer" /\ \E newID \in LeaseId : Transfer(q.id, q.token, q.to, newID)

Serve(q) ==
  /\ phase = "serving"
  /\ Served(q) \/ (ResultOf(q) # "ok" /\ UNCHANGED vars)

\* What the handler writes then: the error, or the lease as the method left it,
\* for an acquire or a transfer the one that holds the resource now.
Response(q) ==
  LET r == IF q.op = "acquire" THEN q.resource ELSE leases[q.id].resource
      id == IF q.op \in {"acquire", "transfer"} THEN resources'[r].current_lease_id ELSE q.id
  IN IF ResultOf(q) = "ok"
     THEN Done(id, leases'[id].fencing_token, leases'[id].expires_at)
     ELSE Refusal(ResultOf(q))

\* The lease that this answer says is gone.
Gone(q, answer) ==
  IF q.op # "acquire" /\ HttpStatus[answer.outcome] = 410 THEN {q.id} ELSE {}

\* The handler of c's call runs and writes its response.
Execute(c) ==
  \E open \in call[c] :
    /\ open.answer = NoAnswer
    /\ Serve(open.request)
    /\ LET answer == Response(open.request) IN
       /\ call' = [call EXCEPT ![c] = {[open EXCEPT !.answer = answer]}]
       /\ refused' = refused \cup Gone(open.request, answer)
    /\ UNCHANGED <<orphans, belief, faults>>

\* The handler of an abandoned call runs: nobody reads the response.  Bound: an
\* acquire, only if the clock has room for its lease to run out.
ExecuteOrphan ==
  \E q \in orphans :
    /\ q.op = "acquire" => now + q.ttl <= MaxTime
    /\ Serve(q)
    /\ orphans' = orphans \ {q}
    /\ UNCHANGED <<call, belief, refused, faults>>

\* The database fails a call: 400, and nothing has changed.
ExecuteFails(c) ==
  \E open \in call[c] :
    /\ open.answer = NoAnswer
    /\ MayFail
    /\ faults' = faults + 1
    /\ call' = [call EXCEPT ![c] = {[open EXCEPT !.answer = Refusal("other")]}]
    /\ UNCHANGED <<vars, orphans, belief, refused>>

\* An acquire may have come over /acquire/wait: then it polls and leaves its call
\* open while it is refused, until its timeout.
PollTimesOut(c) ==
  \E open \in call[c] :
    /\ open.answer = NoAnswer
    /\ open.request.op = "acquire"
    /\ phase = "serving"
    /\ ResultOf(open.request) \in {"ErrConflict", "ErrResourceLocked"}
    /\ call' = [call EXCEPT ![c] = {[open EXCEPT !.answer = Refusal("ErrTimeout")]}]
    /\ UNCHANGED <<vars, orphans, belief, refused, faults>>

-----------------------------------------------------------------------------
(* Clients receive *)

Lease(a) == [id |-> a.id, token |-> a.token, until |-> a.until]

\* What c relies on after the answer a to its request q.
Learned(q, a) ==
  CASE a.outcome = "ok" /\ q.op \in {"acquire", "renew", "ttl_update"} -> {Lease(a)}
    [] HttpStatus[a.outcome] \in {403, 404, 410} -> {}
    [] OTHER -> belief[q.by]

\* The old holder tells the new one what the response to a transfer says.
Receive(c) ==
  \E open \in call[c] :
    LET q == open.request
        a == open.answer
    IN
    /\ a # NoAnswer
    /\ call' = [call EXCEPT ![c] = {}]
    /\ belief' =
         IF q.op = "transfer" /\ a.outcome = "ok"
         THEN [belief EXCEPT ![q.to] = IF @ = {} /\ call[q.to] \in {{}, {open}}
                                       THEN {Lease(a)} ELSE @]
         ELSE [belief EXCEPT ![c] = Learned(q, a)]
    /\ UNCHANGED <<vars, orphans, refused, faults>>

-----------------------------------------------------------------------------

ByAdmin(row) == row.action \in {"force_release", "lock", "unlock"}

\* Administrators, within their bounds.
ClientsAdmin ==
  /\ Len(SelectSeq(audit, ByAdmin)) < MaxAdmin
  /\ \/ \E id \in LeaseId : ForceRelease(id)
     \/ \E r \in Lockable : LockResource(r) \/ UnlockResource(r)

Background ==
  /\ \/ ClientsAdmin
     \/ Sweep
     \/ Recover
     \/ AuditRecover
  /\ UNCHANGED clients

\* The process dies, and every handler with it; whoever had a call open sees
\* the connection break.  Bound: calls lost in this way count as faults.
CrashAll ==
  /\ Restart
  /\ IF \E c \in Holder : call[c] # {}
     THEN MayFail /\ faults' = faults + 1
     ELSE UNCHANGED faults
  /\ orphans' = {}
  /\ call' = [c \in Holder |-> {}]
  /\ belief' = [c \in Holder |-> Unanswered(c)]
  /\ UNCHANGED refused

ClockAdvances == ClockForward /\ UNCHANGED clients

\* Somebody sets the clock back: a lease that was only past its deadline may be
\* live again, one that has ended may not.
ClockSetBack ==
  /\ ClockBack
  /\ refused' = {id \in refused : IsTerminal(leases[id].status)}
  /\ UNCHANGED <<call, orphans, belief, faults>>

ClientStep(c) ==
  \/ SendAcquire(c)
  \/ SendExtension(c)
  \/ SendHeartbeat(c)
  \/ SendHandBack(c)
  \/ LetGo(c)
  \/ GiveUp(c)
  \/ Execute(c)
  \/ ExecuteFails(c)
  \/ PollTimesOut(c)
  \/ Receive(c)

ClientsNext ==
  \/ \E c \in Holder : ClientStep(c)
  \/ ExecuteOrphan
  \/ Background
  \/ CrashAll
  \/ ClockAdvances
  \/ ClockSetBack

ClientsSpec == ClientsInit /\ [][ClientsNext]_cvars

\* A client without a lease tries again; handlers run, answers arrive, time goes
\* on; main recovers.
ClientsFairSpec ==
  /\ ClientsSpec
  /\ \A c \in Holder :
       WF_cvars(SendAcquire(c)) /\ WF_cvars(Execute(c)) /\ WF_cvars(Receive(c))
  /\ WF_cvars(ClockAdvances)
  /\ WF_cvars(StartupRecover /\ UNCHANGED clients)

-----------------------------------------------------------------------------
(* What must be true of it *)

\* An administrator took the lease away.
Revoked(id) ==
  \E i \in DOMAIN audit : audit[i].lease_id = id /\ audit[i].action = "force_release"

\* What a holder relies on is so: until the deadline it was last told its lease
\* is the active one of its resource, in its name, under its token and not due
\* before, whichever answers were lost, late or never written, and whatever
\* abandoned calls still run; unless an administrator revoked it.  With one
\* active lease for a resource, two clients never rely on it at a time.  This
\* needs a clock that nobody sets back: the deadline that a client was told is
\* a reading of that clock, which may come round again.
HolderIsProtected ==
  ~BackwardClock =>
    \A c \in Holder : \A b \in belief[c] :
      now < b.until /\ ~Revoked(b.id) =>
        /\ leases[b.id].status = "active"
        /\ leases[b.id].holder = c
        /\ leases[b.id].fencing_token = b.token
        /\ leases[b.id].expires_at >= b.until

\* 410 Gone is final: once a client has been told that its lease is gone, no
\* renew, ttl update, heartbeat or transfer of it, retried, delayed or abandoned
\* before, is ever carried out again.  The clock may be set back: then this
\* goes on holding of leases that have been released or retired, and no longer
\* of those that were told to be gone while they were only past their deadline
\* and that nobody has retired since (refused).
GoneIsFinal ==
  [][\A i \in Len(audit) + 1 .. Len(audit') :
       (/\ audit'[i].action \in {"renew", "ttl_update", "heartbeat", "transfer"}
        /\ audit'[i].detail # "from")
         => audit'[i].lease_id \notin refused]_cvars

\* If all clients go on trying, and no lock stays or comes back for ever, one of
\* them gets a lease in the end, although the answers to acquires may be lost
\* and retries then meet a conflict with a lease that nobody knows of: nobody
\* need sweep or release that lease.  Which client it is is not promised: one
\* that goes on renewing can keep the others out.
RetryIsGranted ==
  <>[](\A r \in DOMAIN resources : ~resources[r].locked)
    => <>(\E c \in Holder : belief[c] # {})

=============================================================================
