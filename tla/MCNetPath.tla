----------------------------- MODULE MCNetPath -----------------------------
(* An instance of NetPath for TLC. *)
EXTENDS NetPath
=============================================================================
