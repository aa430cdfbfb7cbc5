--------------------------- MODULE SerialExecutor ---------------------------
(***************************************************************************)
(* What EventLoop promises to the callers of queueInLoop: every functor    *)
(* handed over is run once, in the order of the hand-over, one at a time,  *)
(* until the loop stops.  Nothing is said of locks, of the two vectors, of *)
(* the eventfd or of the poller.                                           *)
(***************************************************************************)
EXTENDS Sequences

CONSTANT Functors

VARIABLES
  queue,    \* functors handed over and not yet run, oldest first
  done,     \* functors run so far, in the order they ran
  stopped   \* the loop has returned

vars == <<queue, done, stopped>>

TypeOK ==
  /\ queue \in Seq(Functors)
  /\ done \in Seq(Functors)
  /\ stopped \in BOOLEAN

Init ==
  /\ queue = <<>>
  /\ done = <<>>
  /\ stopped = FALSE

\* A caller hands a functor over; a stopped executor still accepts it.
Post(f) ==
  /\ queue' = Append(queue, f)
  /\ UNCHANGED <<done, stopped>>

\* The executor runs the oldest functor.
Run ==
  /\ ~stopped
  /\ queue # <<>>
  /\ done' = Append(done, Head(queue))
  /\ queue' = Tail(queue)
  /\ UNCHANGED stopped

Stop ==
  /\ ~stopped
  /\ stopped' = TRUE
  /\ UNCHANGED <<queue, done>>

Next ==
  \/ \E f \in Functors : Post(f)
  \/ Run
  \/ Stop

SafeSpec == Init /\ [][Next]_vars

\* A functor that has been handed over is run, until the executor stops.
Progress == WF_vars(Run)

Spec == SafeSpec /\ Progress

=============================================================================
