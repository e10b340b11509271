------------------------------ MODULE MCRetire ------------------------------
(* Retired, and so Retire, on one log. *)
EXTENDS Retired

=============================================================================
