----------------------------- MODULE MCEventLoop -----------------------------
(***************************************************************************)
(* EventLoop for TLC.  The bounds are the constants of EventLoop: how many *)
(* threads, functors and channels there are, and where the eventfd counter *)
(* saturates.                                                              *)
(***************************************************************************)
EXTENDS EventLoop

=============================================================================
