---------------------------- MODULE FencedLease ----------------------------
(***************************************************************************)
(* What the lease service promises the systems behind it, without leases,  *)
(* holders, time or storage: at any moment a resource is held under one    *)
(* fencing token or under none, and a token under which it was once held   *)
(* is never reached again, so that a system which remembers the largest    *)
(* token it saw refuses everybody who held the resource before.            *)
(***************************************************************************)
EXTENDS Naturals

CONSTANT Resource

VARIABLES
  held,     \* the token the resource is held under, 0 when it is free
  high,     \* a bound on every token handed out for the resource
  closed    \* whether an administrator has closed the resource

fvars == <<held, high, closed>>

Init ==
  /\ held = [r \in Resource |-> 0]
  /\ high = [r \in Resource |-> 0]
  /\ closed = [r \in Resource |-> FALSE]

\* The bound grows on the resources of S, by any amount, and nowhere else.
Raise(S) ==
  /\ high' \in [Resource -> Nat]
  /\ \A r \in Resource : IF r \in S THEN high'[r] > high[r]
                                    ELSE high'[r] = high[r]

\* The resource is held from now on under a token larger than any before.
HoldUnderNewToken(r) ==
  /\ Raise({r})
  /\ held' = [held EXCEPT ![r] = high'[r]]
  /\ UNCHANGED closed

\* A new holder; a previous one whose time is over may lose the resource.
Grant(r) == ~closed[r] /\ HoldUnderNewToken(r)

\* The holder passes the resource on; that a resource is closed does not
\* matter to who holds it.
HandOver(r) == held[r] # 0 /\ HoldUnderNewToken(r)

\* The resources of S, all held, become free.
Free(S) ==
  /\ \A r \in S : held[r] # 0
  /\ Raise(S)
  /\ held' = [r \in Resource |-> IF r \in S THEN 0 ELSE held[r]]
  /\ UNCHANGED closed

Gate(r) ==
  /\ closed' = [closed EXCEPT ![r] = ~closed[r]]
  /\ UNCHANGED <<held, high>>

Next ==
  \/ \E r \in Resource : Grant(r) \/ HandOver(r) \/ Gate(r)
  \/ \E S \in SUBSET Resource : Free(S)

Spec == Init /\ [][Next]_fvars

=============================================================================
