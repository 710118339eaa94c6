---------------------------- MODULE MCLeaseServer ----------------------------
(* Instances of LeaseServer for TLC. *)
EXTENDS LeaseServer

\* Lease ids, resources, holders and request goroutines are only compared.
Symmetry ==
  Permutations(LeaseId) \cup Permutations(Resource)
    \cup Permutations(Holder) \cup Permutations(Caller)

=============================================================================
