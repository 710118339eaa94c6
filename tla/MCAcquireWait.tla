---------------------------- MODULE MCAcquireWait ----------------------------
(* Instances of AcquireWait for TLC. *)
EXTENDS WaitProperties

\* Waiters are only compared, so are lease ids, resources and other holders.
Symmetry ==
  Permutations(LeaseId) \cup Permutations(Resource)
    \cup Permutations(Waiter) \cup Permutations(Holder \ Waiter)

=============================================================================
