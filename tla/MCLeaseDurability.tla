------------------------- MODULE MCLeaseDurability -------------------------
(* Instances of LeaseDurability for TLC. *)
EXTENDS LeaseDurability

\* Lease ids, resources and holders are only compared.
Symmetry ==
  Permutations(LeaseId) \cup Permutations(Resource) \cup Permutations(Holder)

=============================================================================
