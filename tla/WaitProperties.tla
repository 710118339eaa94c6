--------------------------- MODULE WaitProperties ---------------------------
(***************************************************************************)
(* What must be true of a request that waits for a resource, and a         *)
(* sentence about it in wait.go that the code does not satisfy.            *)
(***************************************************************************)
EXTENDS AcquireWait

\* Waiters are at a label of the loop with a request, a deadline within an
\* int64 and a sleep that is not negative.
WaitTypeOK ==
  /\ pc \in [Waiter -> {"idle", "attempt"} \cup Pending \cup Ended]
  /\ req \in [Waiter -> [resource : Resource \cup {NoResource}, ttl : Int64,
                         timeout : Int64, interval : Int64]]
  /\ deadline \in [Waiter -> Int64]
  /\ left \in [Waiter -> Nat]
  /\ gone \in [Waiter -> BOOLEAN]
  /\ late \in BOOLEAN

\* The acquire rows of the log whose lease went to w.
Acquires(w) ==
  {i \in DOMAIN audit :
     /\ audit[i].action = "acquire"
     /\ leases[audit[i].lease_id].holder = w}

\* However many times it polls, a waiting request acquires at most one lease,
\* and it has acquired one exactly when its answer says so (or would have said
\* so, had the process lived): a request that is answered with a timeout, a
\* cancellation or an error leaves no lease behind.
WaitAcquiresOnce ==
  \A w \in Waiter :
    /\ \A i, j \in Acquires(w) : i = j
    /\ pc[w] # "lost" =>
         (Acquires(w) # {} <=> pc[w] \in {"acquired", "granted"})

\* A client that goes away while its request sleeps gets no lease any more:
\* the context is looked at between every sleep and the next attempt.  (One
\* that goes away later may: the acquire takes no context.)
AbandonedNeverAcquires ==
  \A w \in Waiter :
    [](pc[w] = "asleep" /\ gone[w] => [](pc[w] \notin {"acquired", "granted"}))

\* As long as goroutines run promptly and nobody sets the clock, a request is
\* answered less than another timeout after its deadline: the interval is capped
\* by the timeout, so the last sleep is no longer than that.  A timeout so large
\* that m.now() + timeout wraps gives a negative deadline: that request never
\* sleeps, so that it is answered within the second it arrives in.
AnsweredInTime ==
  ~late =>
    \A w \in Waiter : pc[w] \in Pending =>
      \/ now < deadline[w] + req[w].timeout
      \/ deadline[w] < 0 /\ pc[w] # "asleep"

\* Every request is answered in the end, whoever holds the resource meanwhile
\* and for however long.
WaitReturns == \A w \in Waiter : pc[w] \in Pending ~> pc[w] \in Ended

-----------------------------------------------------------------------------
(* A sentence of wait.go that the code does not satisfy *)

\* wait.go:23-25: "A caller that abandons an HTTP request must be able to stop
\* waiting without leaving a sleeping poll behind."  While goroutines run
\* promptly, no second is slept for a client that has gone.
NoSleepingPollLeft ==
  [][\A w \in Waiter : gone[w] /\ pc[w] = "asleep" /\ ~late' => left'[w] = left[w]]_wvars

=============================================================================
