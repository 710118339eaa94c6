-------------------------- MODULE LeaseProperties --------------------------
(***************************************************************************)
(* What must be true of LeaseManager: of its tables, of the audit log      *)
(* against the tables, of every step, of the restarts, and of the whole    *)
(* against the abstract FencedLease.  The last section states a sentence   *)
(* of the repository's comments that the code does not live up to.         *)
(***************************************************************************)
EXTENDS LeaseManager

\* Every table holds rows of its columns' types under keys that exist, and
\* the bookkeeping of main and Recover stays in range: fencing counters never
\* go negative and times stay within an int64.
TypeOK ==
  /\ DOMAIN resources \subseteq Resource
  /\ resources \in [DOMAIN resources -> ResourceRow]
  /\ DOMAIN leases \subseteq LeaseId
  /\ leases \in [DOMAIN leases -> LeaseRow]
  /\ audit \in Seq(AuditRow)
  /\ now \in Time
  /\ phase \in {"starting", "serving"}
  /\ owed \in Nat

-----------------------------------------------------------------------------
(* The tables against each other *)

Counter(r) == GetResource(resources, r).fencing_token

Current(r) == GetResource(resources, r).current_lease_id

\* current_lease_id names the active lease of its resource, and is empty when
\* there is none.  In particular a resource never has two active leases, which
\* no constraint of the schema enforces and which LIMIT 1 would hide.
CurrentLease ==
  \A r \in Resource : ActiveLeases(r) = {Current(r)} \ {NoLease}

\* An active lease carries the counter of its resource, a retired lease a
\* smaller number: every way of retiring a lease (release, force-release,
\* sweep, eviction on acquire, transfer) bumps the counter past its token.
TokenLedger ==
  \A id \in DOMAIN leases :
    LET l == leases[id] IN
    IF IsTerminal(l.status)
    THEN l.fencing_token < Counter(l.resource)
    ELSE l.fencing_token = Counter(l.resource)

\* A lease has the row of its resource behind it: the row's counter is at
\* least the token of the lease, and equal for just the active one, which is
\* the one the row names.  A token is never 0, the zero value of a client.
LeaseHasRow ==
  \A id \in DOMAIN leases :
    LET l == leases[id]
        row == resources[l.resource]
    IN /\ l.resource \in DOMAIN resources
       /\ l.fencing_token > 0
       /\ IF l.status = "active"
          THEN l.fencing_token = row.fencing_token /\ row.current_lease_id = id
          ELSE l.fencing_token < row.fencing_token

\* A row names no lease, or an active lease of its own resource.
RowNamesLease ==
  \A r \in DOMAIN resources :
    LET id == resources[r].current_lease_id IN
    id # NoLease => /\ id \in DOMAIN leases
                    /\ leases[id].resource = r
                    /\ leases[id].status = "active"

\* CurrentLease and TokenLedger in the form that every step preserves.
LeaseInv == TypeOK /\ LeaseHasRow /\ RowNamesLease

-----------------------------------------------------------------------------
(* The audit log against the tables *)

IsGrant(e) ==
  e.action = "acquire" \/ (e.action = "transfer" /\ e.detail = "from")

IsRetirement(e) ==
  \/ e.action \in {"release", "force_release", "sweep"}
  \/ e.action = "transfer" /\ e.detail = "to"

\* The positions of the rows of r that grant or retire a lease.
HandOvers(r) ==
  {i \in DOMAIN audit :
     audit[i].resource = r /\ (IsGrant(audit[i]) \/ IsRetirement(audit[i]))}

\* Nothing in rows comes between its positions i and j; nothing comes after i.
Adjacent(rows, i, j) == i < j /\ \A k \in rows : k <= i \/ k >= j

IsLast(rows, i) == \A k \in rows : k <= i

\* Read alone, the log gives the history of a resource: grants and retirements
\* alternate, each retirement is of the lease granted just before it, and the
\* last row says whether the resource is held now, by which lease and under
\* which token.
AuditReplays ==
  \A r \in Resource :
    LET rows == HandOvers(r) IN
    /\ \A j \in rows :
         IsRetirement(audit[j]) =>
           \E i \in rows : /\ Adjacent(rows, i, j)
                           /\ IsGrant(audit[i])
                           /\ audit[j].lease_id = audit[i].lease_id
                           /\ audit[j].fencing_token = audit[i].fencing_token
    /\ \A i, j \in rows :
         Adjacent(rows, i, j) /\ IsGrant(audit[j]) => IsRetirement(audit[i])
    /\ IF rows = {}
       THEN Current(r) = NoLease
       ELSE \E i \in rows :
              /\ IsLast(rows, i)
              /\ IF IsGrant(audit[i])
                 THEN /\ Current(r) = audit[i].lease_id
                      /\ leases[Current(r)].fencing_token = audit[i].fencing_token
                 ELSE Current(r) = NoLease

\* In the order of the log, each grant of a resource carries a larger token
\* than every row of that resource before it, whoever was granted what.
GrantTokensIncrease ==
  \A i, j \in DOMAIN audit :
    (i < j /\ audit[i].resource = audit[j].resource /\ IsGrant(audit[j]))
      => audit[i].fencing_token < audit[j].fencing_token

\* The positions of the rows of r with one of these actions.
RowsOf(r, actions) ==
  {i \in DOMAIN audit : audit[i].resource = r /\ audit[i].action \in actions}

\* In the log of a resource neither an acquire nor a second lock follows a lock
\* before an unlock does, whatever was released, swept or transferred meanwhile,
\* and the flag of the table says whether the last lock is still in force.
LockGate ==
  \A r \in Resource :
    /\ \A i \in RowsOf(r, {"lock"}), j \in RowsOf(r, {"lock", "acquire"}) :
         i < j => \E k \in RowsOf(r, {"unlock"}) : i < k /\ k < j
    /\ GetResource(resources, r).locked <=>
         \E i \in RowsOf(r, {"lock"}) : \A k \in RowsOf(r, {"unlock"}) : k < i

\* The deadline of an active lease is the time of the last acquire, renew or
\* ttl_update on its resource plus the ttl granted then, and lies after that
\* time: neither a heartbeat nor any number of transfers adds a second.
DeadlineFromLastExtension ==
  \A id \in DOMAIN leases :
    LET l == leases[id]
        extensions == RowsOf(l.resource, {"acquire", "renew", "ttl_update"})
    IN l.status = "active" =>
         \E i \in extensions :
           /\ IsLast(extensions, i)
           /\ l.expires_at = audit[i].at + l.ttl_seconds
           /\ l.expires_at > audit[i].at

-----------------------------------------------------------------------------
(* What a step may never do *)

\* A lease row that is released or expired never changes again and is never
\* deleted, whatever late call still presents its token.
TerminalRowsFrozen ==
  [][\A id \in DOMAIN leases :
       IsTerminal(leases[id].status) =>
         id \in DOMAIN leases' /\ leases'[id] = leases[id]]_vars

\* A resource row is never deleted, its counter never decreases, and a step
\* that changes who holds the resource, or that nobody does, increases it.
HandOverRaisesCounter ==
  [][\A r \in DOMAIN resources :
       /\ r \in DOMAIN resources'
       /\ resources'[r].fencing_token >= resources[r].fencing_token
       /\ resources'[r].current_lease_id # resources[r].current_lease_id
            => resources'[r].fencing_token > resources[r].fencing_token]_vars

\* Until its deadline a lease ends only because its holder released or
\* transferred it or an administrator revoked it; no other client's acquire,
\* no sweep and no recovery takes it away.
LiveLeaseSurvives ==
  [][\A id \in DOMAIN leases :
       (/\ leases[id].status = "active"
        /\ leases[id].expires_at > now
        /\ leases'[id].status # "active")
         => \E i \in Len(audit) + 1 .. Len(audit') :
              /\ audit'[i].lease_id = id
              /\ audit'[i].action \in {"release", "transfer", "force_release"}]_vars

-----------------------------------------------------------------------------
(* Restart *)

StaleActive(id) ==
  /\ id \in DOMAIN leases
  /\ leases[id].status = "active"
  /\ leases[id].expires_at <= now

\* When main goes on to listen, no lease is active that was past its deadline
\* when Recover looked: now if nothing had expired, else the time of the sweep
\* rows, the last of the log.
StartupServesNothingStale ==
  [][(phase = "starting" /\ phase' = "serving") =>
       LET looked == IF owed = 0 THEN now ELSE Last(audit).at IN
       \A id \in DOMAIN leases' :
         leases'[id].status = "active" => leases'[id].expires_at > looked]_vars

\* A lease that is past its deadline while the process starts is retired and
\* the listener is reached, however often the process is killed on the way,
\* between the two transactions of Recover or elsewhere.
StaleRetiredAtRestart ==
  \A id \in LeaseId :
    (phase = "starting" /\ StaleActive(id))
      ~> (phase = "serving" /\ ~StaleActive(id))

-----------------------------------------------------------------------------
(* The abstract specification *)

Held(r) ==
  IF ActiveLeases(r) = {}
  THEN 0
  ELSE leases[CHOOSE id \in ActiveLeases(r) : TRUE].fencing_token

Fenced == INSTANCE FencedLease WITH
  held <- [r \in Resource |-> Held(r)],
  high <- [r \in Resource |-> Counter(r)],
  closed <- [r \in Resource |-> GetResource(resources, r).locked]

\* The service is a fenced lease: the token of the active lease is the token
\* the resource is held under, the counter is the bound.
FencedSpec == Fenced!Spec

-----------------------------------------------------------------------------
(* A sentence of the repository that the code does not satisfy *)

\* manager.go:3: "the background sweep"; store/schema.go:7: "while the sweeper
\* runs".  A lease left past its deadline is then retired sooner or later.
StaleEventuallyRetired ==
  \A id \in LeaseId : StaleActive(id) ~> ~StaleActive(id)

=============================================================================
