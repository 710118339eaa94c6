-------------------------- MODULE DurabilityProofs --------------------------
(***************************************************************************)
(* Theorems about the service on a machine that may lose power, for every  *)
(* value of the constants: fencing is not taken back past the disk.        *)
(***************************************************************************)
EXTENDS LeaseDurability, LeaseHistoryProofs

USE StoreAssumption, ManagerAssumption

-----------------------------------------------------------------------------
(* LeaseInv as a predicate of three tables *)

TypedTables(rs, ls, log) ==
  /\ DOMAIN rs \subseteq Resource
  /\ rs \in [DOMAIN rs -> ResourceRow]
  /\ DOMAIN ls \subseteq LeaseId
  /\ ls \in [DOMAIN ls -> LeaseRow]
  /\ log \in Seq(AuditRow)

LeasesHaveRows(rs, ls) ==
  \A id \in DOMAIN ls :
    LET l == ls[id]
        row == rs[l.resource]
    IN /\ l.resource \in DOMAIN rs
       /\ l.fencing_token > 0
       /\ IF l.status = "active"
          THEN l.fencing_token = row.fencing_token /\ row.current_lease_id = id
          ELSE l.fencing_token < row.fencing_token

RowsNameLeases(rs, ls) ==
  \A r \in DOMAIN rs :
    LET id == rs[r].current_lease_id IN
    id # NoLease => /\ id \in DOMAIN ls
                    /\ ls[id].resource = r
                    /\ ls[id].status = "active"

SoundTables(rs, ls, log) ==
  /\ TypedTables(rs, ls, log)
  /\ LeasesHaveRows(rs, ls)
  /\ RowsNameLeases(rs, ls)

SoundProcess == now \in Time /\ phase \in {"starting", "serving"} /\ owed \in Nat

LEMMA InvTables == LeaseInv <=> SoundTables(resources, leases, audit) /\ SoundProcess
BY Zenon DEF LeaseInv, TypeOK, LeaseHasRow, RowNamesLease,
             SoundTables, TypedTables, LeasesHaveRows, RowsNameLeases, SoundProcess

\* The disk holds the tables of an earlier commit: sound, with no lease that
\* the service has forgotten and no counter that it has not reached.
DiskBehind ==
  /\ SoundTables(disk.resources, disk.leases, disk.audit)
  /\ DOMAIN disk.leases \subseteq DOMAIN leases
  /\ \A r \in Resource : GetResource(disk.resources, r).fencing_token <= Counter(r)

DurabilityInv == LeaseInv /\ DiskBehind

LEMMA TablesAgree ==
  ASSUME LeaseInv, disk = Tables
  PROVE  DiskBehind
<1>1. SoundTables(resources, leases, audit)
  BY InvTables
<1>2. disk.resources = resources /\ disk.leases = leases /\ disk.audit = audit
  BY DEF Tables
<1>3. \A r \in Resource : Counter(r) \in Nat
  BY RowType DEF LeaseInv, Counter, ResourceRow
<1> QED
  BY <1>1, <1>2, <1>3 DEF DiskBehind, Counter

LEMMA DurabilityInitial == DurabilityInit => DurabilityInv
BY InitInv, TablesAgree DEF DurabilityInit, DurabilityInv

LEMMA CheckpointBehind ==
  ASSUME LeaseInv, Checkpoint
  PROVE  DurabilityInv'
<1>1. LeaseInv'
  BY DEF Checkpoint, LeaseInv, TypeOK, LeaseHasRow, RowNamesLease, vars, tables, process
<1>2. SoundTables(resources, leases, audit)
  BY InvTables
<1>3. /\ disk'.resources = resources' /\ disk'.leases = leases' /\ disk'.audit = audit'
      /\ resources' = resources /\ leases' = leases /\ audit' = audit
  BY DEF Checkpoint, Tables, vars, tables
<1>4. \A r \in Resource : GetResource(resources, r).fencing_token \in Nat
  BY RowType DEF LeaseInv, ResourceRow
<1>5. SoundTables(disk'.resources, disk'.leases, disk'.audit)
  BY <1>2, <1>3
<1>6. \A r \in Resource : GetResource(disk'.resources, r).fencing_token <= Counter(r)'
  BY <1>3, <1>4 DEF Counter
<1>7. DiskBehind'
  BY <1>3, <1>5, <1>6 DEF DiskBehind, SoundTables, TypedTables, LeasesHaveRows, RowsNameLeases
<1> QED
  BY <1>1, <1>7 DEF DurabilityInv

\* The service never forgets a lease by itself.
LEMMA LeasesStay ==
  ASSUME LeaseInv, [Next]_vars
  PROVE  DOMAIN leases \subseteq DOMAIN leases'
<1>1. CASE UNCHANGED <<resources, leases>>
  BY <1>1
<1>2. CASE Shape
  BY <1>2 DEF Shape, Keeps, Ends, Grants, SetLeaseStatus, InsertLease
<1> QED
  BY <1>1, <1>2, StepShape DEF vars, tables

LEMMA WorkBehind ==
  ASSUME DurabilityInv, [Next]_vars, UNCHANGED disk
  PROVE  DurabilityInv'
<1>1. LeaseInv'
  BY StepInv DEF DurabilityInv
<1>2. DOMAIN disk.leases \subseteq DOMAIN leases'
  BY LeasesStay DEF DurabilityInv, DiskBehind
<1>3. ASSUME NEW r \in Resource
      PROVE  GetResource(disk.resources, r).fencing_token <= Counter(r)'
  <2>1. GetResource(disk.resources, r).fencing_token \in Nat
    BY DEF DurabilityInv, DiskBehind, SoundTables, TypedTables, GetResource, ResourceRow
  <2>2. GetResource(disk.resources, r).fencing_token <= Counter(r)
    BY DEF DurabilityInv, DiskBehind
  <2>3. Counter(r) \in Nat /\ Counter(r)' \in Nat /\ Counter(r) <= Counter(r)'
    BY CountersMonotone DEF DurabilityInv
  <2> QED
    BY <2>1, <2>2, <2>3
<1>4. DiskBehind'
  BY <1>2, <1>3 DEF DurabilityInv, DiskBehind, SoundTables, TypedTables,
                    LeasesHaveRows, RowsNameLeases
<1> QED
  BY <1>1, <1>4 DEF DurabilityInv

LEMMA LossBehind ==
  ASSUME DurabilityInv, PowerLoss
  PROVE  DurabilityInv'
<1>1. /\ resources' = disk.resources /\ leases' = disk.leases /\ audit' = disk.audit
      /\ disk' = disk /\ now' = now /\ phase' = "starting" /\ owed' = 0
  BY DEF PowerLoss
<1>2. SoundTables(disk.resources, disk.leases, disk.audit) /\ now \in Time
  BY DEF DurabilityInv, DiskBehind, LeaseInv, TypeOK
<1>3. LeaseInv'
  BY <1>1, <1>2 DEF SoundTables, TypedTables, LeasesHaveRows, RowsNameLeases,
                    LeaseInv, TypeOK, LeaseHasRow, RowNamesLease
<1>4. \A r \in Resource : GetResource(disk.resources, r).fencing_token \in Nat
  BY <1>2 DEF SoundTables, TypedTables, GetResource, ResourceRow
<1>5. \A r \in Resource : GetResource(disk'.resources, r).fencing_token <= Counter(r)'
  BY <1>1, <1>4 DEF Counter
<1>6. DiskBehind'
  BY <1>1, <1>2, <1>5 DEF DiskBehind, SoundTables, TypedTables, LeasesHaveRows,
                          RowsNameLeases
<1> QED
  BY <1>3, <1>6 DEF DurabilityInv

LEMMA DurabilityStep ==
  ASSUME DurabilityInv, [DurabilityNext]_dvars
  PROVE  DurabilityInv'
<1>1. CASE Work \/ UNCHANGED dvars
  BY <1>1, WorkBehind DEF Work, dvars
<1>2. CASE Checkpoint
  BY <1>2, CheckpointBehind DEF DurabilityInv
<1>3. CASE PowerLoss
  BY <1>3, LossBehind
<1> QED
  BY <1>1, <1>2, <1>3 DEF DurabilityNext

-----------------------------------------------------------------------------
(* The theorem *)

\* A new lease carries a larger token than its resource has on the disk.
THEOREM NoDiskTokenReissued == DurabilitySpec => DiskTokensNotReissued
<1> DEFINE Larger == \A id \in DOMAIN leases' \ DOMAIN leases :
             leases'[id].fencing_token >
               GetResource(disk.resources, leases'[id].resource).fencing_token
<1>1. DurabilityInv /\ [DurabilityNext]_dvars => DurabilityInv'
  BY DurabilityStep
<1>2. ASSUME DurabilityInv, [DurabilityNext]_dvars
      PROVE  [Larger]_dvars
  <2>1. CASE UNCHANGED dvars
    BY <2>1
  <2>2. CASE DOMAIN leases' \subseteq DOMAIN leases
    BY <2>2
  <2>3. CASE Checkpoint
    BY <2>2, <2>3 DEF Checkpoint, vars, tables
  <2>4. CASE PowerLoss
    BY <1>2, <2>2, <2>4 DEF PowerLoss, DurabilityInv, DiskBehind
  <2>5. CASE Work
    <3>1. CASE UNCHANGED <<resources, leases>> \/ Keeps
      BY <2>2, <3>1 DEF Keeps
    <3>2. ASSUME NEW gone, NEW status, Ends(gone, status)
          PROVE  Larger
      BY <2>2, <3>2 DEF Ends, SetLeaseStatus
    <3>3. ASSUME NEW r \in Resource, NEW id, NEW row, NEW status,
                 Grants(r, id, row, status)
          PROVE  Larger
      <4>1. /\ DOMAIN leases' = DOMAIN leases \cup {id}
            /\ leases'[id] = row
            /\ row.resource = r
            /\ row.fencing_token = Counter(r) + 1
        BY <3>3 DEF Grants, InsertLease, SetLeaseStatus, NextToken, Counter
      <4>2. /\ GetResource(disk.resources, r).fencing_token <= Counter(r)
            /\ Counter(r) \in Nat
        BY <1>2, RowType DEF DurabilityInv, DiskBehind, LeaseInv, Counter, ResourceRow
      <4>3. GetResource(disk.resources, r).fencing_token \in Nat
        BY <1>2 DEF DurabilityInv, DiskBehind, SoundTables, TypedTables,
                    GetResource, ResourceRow
      <4> QED
        BY <4>1, <4>2, <4>3
    <3> QED
      BY <1>2, <2>5, <3>1, <3>2, <3>3, StepShape DEF Work, Shape, DurabilityInv
  <2> QED
    BY <1>2, <2>1, <2>3, <2>4, <2>5 DEF DurabilityNext
<1> QED
  BY DurabilityInitial, <1>1, <1>2, PTL DEF DurabilitySpec, DiskTokensNotReissued

=============================================================================
