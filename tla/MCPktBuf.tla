------------------------------ MODULE MCPktBuf ------------------------------
(* An instance of PktBuf for TLC. *)
EXTENDS PktBuf
=============================================================================
