------------------------------ MODULE MCReclaim ------------------------------
(***************************************************************************)
(* Small instances of Reclaim.                                             *)
(***************************************************************************)
EXTENDS Reclaim
=============================================================================
