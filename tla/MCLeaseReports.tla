--------------------------- MODULE MCLeaseReports ---------------------------
(* Instances of LeaseReports for TLC. *)
EXTENDS LeaseReports

\* Lease ids, resources and holders are only compared.
Symmetry ==
  Permutations(LeaseId) \cup Permutations(Resource) \cup Permutations(Holder)

=============================================================================
