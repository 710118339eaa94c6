-------------------------- MODULE LeaseDurability --------------------------
(***************************************************************************)
(* LeaseManager on a machine that may lose power.  Store.Open sets         *)
(* journal_mode=WAL and synchronous=NORMAL: a commit is written to the log *)
(* of SQLite and is not forced to the disk, which happens at checkpoints.  *)
(* A kill of the process keeps what the operating system has; a power loss *)
(* keeps what was forced out, the tables of some earlier commit.           *)
(***************************************************************************)
EXTENDS LeaseProperties

VARIABLE disk       \* the tables that a power loss would leave

dvars == <<vars, disk>>

Tables == [resources |-> resources, leases |-> leases, audit |-> audit]

DurabilityInit ==
  /\ Init
  /\ disk = Tables

\* A step of the service.
Work ==
  /\ Next
  /\ UNCHANGED disk

\* Everything committed so far is on the disk.
Checkpoint ==
  /\ disk' = Tables
  /\ UNCHANGED vars

\* The power fails and main starts again on what the disk has.
PowerLoss ==
  /\ resources' = disk.resources
  /\ leases' = disk.leases
  /\ audit' = disk.audit
  /\ phase' = "starting"
  /\ owed' = 0
  /\ UNCHANGED <<now, disk>>

DurabilityNext == Work \/ Checkpoint \/ PowerLoss

DurabilitySpec == DurabilityInit /\ [][DurabilityNext]_dvars

-----------------------------------------------------------------------------

\* How far a power loss can take fencing back: it may make the service grant
\* again a token that a client was given, but none that was on the disk.  A new
\* lease always has a larger token than its resource has there.
DiskTokensNotReissued ==
  [][\A id \in DOMAIN leases' \ DOMAIN leases :
       leases'[id].fencing_token >
         GetResource(disk.resources, leases'[id].resource).fencing_token]_dvars

=============================================================================
