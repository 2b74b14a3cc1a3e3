---------------------------- MODULE MCTcpServer ----------------------------
(***************************************************************************)
(* Small instances of TcpServer for TLC.                                   *)
(***************************************************************************)
EXTENDS TcpServer, TLC

Symmetry == Permutations(Conn)

=============================================================================
