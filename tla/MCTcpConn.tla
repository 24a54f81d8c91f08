----------------------------- MODULE MCTcpConn -----------------------------
(* An instance of TcpConn for TLC. *)
EXTENDS TcpConn

Upload == [A |-> 2, B |-> 0]
=============================================================================
