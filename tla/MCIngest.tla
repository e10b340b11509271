------------------------------ MODULE MCIngest ------------------------------
(* One bulk load after another on a handful of offsets. *)
EXTENDS Ingest

=============================================================================
