------------------------------- MODULE MCTiers -------------------------------
(* Tiers on one or two workers. *)
EXTENDS Tiers, TLC

Symmetry == Permutations(Workers)

=============================================================================
