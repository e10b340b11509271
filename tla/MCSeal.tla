------------------------------- MODULE MCSeal -------------------------------
(* Seal on two sealers. *)
EXTENDS Seal, TLC

Symmetry == Permutations(Sealers)

=============================================================================
