-------------------------- MODULE MCEventLoopThread --------------------------
EXTENDS EventLoopThread, TLC

CONSTANTS e1, e2

MCObjects == {e1, e2}

\* The objects are independent of each other and alike.
Symmetry == Permutations(MCObjects)

=============================================================================
