------------------------------- MODULE MCLease -------------------------------
(* Lease on two handles. *)
EXTENDS Lease, TLC

Symmetry == Permutations(Handles)

=============================================================================
