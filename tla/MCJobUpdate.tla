---------------------------- MODULE MCJobUpdate -----------------------------
(* The model-checking instance of JobUpdate.                               *)
EXTENDS JobUpdate

=============================================================================
