----------------------------- MODULE MCTcpServer -----------------------------
(* TcpServer for TLC: few peers and descriptors, two calls of start(). *)
EXTENDS TcpServer

=============================================================================
