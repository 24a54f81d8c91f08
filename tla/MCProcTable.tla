---------------------------- MODULE MCProcTable ----------------------------
(* Model-checking instances of ProcTable. *)
EXTENDS ProcTable
=============================================================================
