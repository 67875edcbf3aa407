---------------------------- MODULE MCTcpServer ----------------------------
(* TcpServer with a small pool, few descriptors and a list of one event. *)
EXTENDS TcpServer
=============================================================================
