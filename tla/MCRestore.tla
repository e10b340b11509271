----------------------------- MODULE MCRestore ------------------------------
(* Restore, from every disaster within the bounds. *)
EXTENDS Restore

=============================================================================
