------------------------------ MODULE MCClaims ------------------------------
(* Claims on two workers and three ranges: two that overlap, and a whole-log *)
(* claim (end = EVERYTHING) that overlaps both.                              *)
EXTENDS Claims, TLC

MCRanges == {[start |-> 1, end |-> 3], [start |-> 2, end |-> 4], [start |-> 0, end |-> 9]}

Symmetry == Permutations(Workers)

=============================================================================
