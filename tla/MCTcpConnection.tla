--------------------------- MODULE MCTcpConnection ---------------------------
(* TcpConnection for TLC: few threads and messages. *)
EXTENDS TcpConnection, TLC

Symmetry == Permutations(Threads) \cup Permutations(Messages)

=============================================================================
