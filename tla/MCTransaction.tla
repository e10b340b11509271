--------------------------- MODULE MCTransaction ---------------------------
(* Transaction and the tail cache: two threads, one other process. *)
EXTENDS Transaction

=============================================================================
