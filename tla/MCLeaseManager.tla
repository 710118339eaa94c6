--------------------------- MODULE MCLeaseManager ---------------------------
(* Instances of LeaseManager for TLC. *)
EXTENDS LeaseProperties

\* Lease ids are only compared, so are the names of resources and holders.
Symmetry ==
  Permutations(LeaseId) \cup Permutations(Resource) \cup Permutations(Holder)

=============================================================================
