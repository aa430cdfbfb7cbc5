------------------------------ MODULE MCPoller ------------------------------
(* Three channels on two descriptors: c1 and c2 have the same one in turn.   *)
EXTENDS Poller

CONSTANTS c1, c2, c3, f1, f2

MCChannels == {c1, c2, c3}
MCFds == {f1, f2}
MCFdOf == [c \in MCChannels |-> IF c = c3 THEN f2 ELSE f1]

=============================================================================
