---------------------------- MODULE MCTcpSocket ----------------------------
(* Instances of TcpSocket for TLC. *)
EXTENDS TcpSocket, TLC

CONSTANTS t1, t2

TwoTasks == {t1, t2}
OnePeer  == {<<"there", 7>>}
Symmetry == Permutations(Tasks)
=============================================================================
