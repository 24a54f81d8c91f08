----------------------------- MODULE MCNetExec -----------------------------
(* Instances of NetExec for TLC. *)
EXTENDS NetExec, TLC

=============================================================================
