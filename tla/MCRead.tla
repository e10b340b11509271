------------------------------- MODULE MCRead -------------------------------
(* Read with one query at a time, beside one or two workers. *)
EXTENDS Read, TLC

Symmetry == Permutations(Workers)

=============================================================================
