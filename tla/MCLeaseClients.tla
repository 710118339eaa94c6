--------------------------- MODULE MCLeaseClients ---------------------------
(* Instances of LeaseClients for TLC. *)
EXTENDS LeaseClients, LeaseProperties

\* Lease ids, resources and clients are only compared.
Symmetry ==
  Permutations(LeaseId) \cup Permutations(Resource) \cup Permutations(Holder)

=============================================================================
