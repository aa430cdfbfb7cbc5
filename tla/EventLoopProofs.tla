--------------------------- MODULE EventLoopProofs ---------------------------
(***************************************************************************)
(* Theorems about EventLoop, for any number of threads, functors and       *)
(* channels and any limit of the eventfd counter.                          *)
(***************************************************************************)
EXTENDS EventLoop, SequenceTheorems, TLAPS

-----------------------------------------------------------------------------
(* Facts about the operators *)

\* Appending to a vector adds one element to the set of its elements.
LEMMA ElementsAppend ==
  ASSUME NEW S, NEW s \in Seq(S), NEW x \in S
  PROVE  Elements(Append(s, x)) = Elements(s) \cup {x}
<1>1. /\ Append(s, x) \in Seq(S)
      /\ Len(Append(s, x)) = Len(s) + 1
      /\ Len(s) \in Nat
      /\ \A i \in 1..Len(s) : Append(s, x)[i] = s[i]
      /\ Append(s, x)[Len(s) + 1] = x
  OBVIOUS
<1>2. 1..(Len(s) + 1) = 1..Len(s) \cup {Len(s) + 1}
  BY <1>1
<1> QED
  BY <1>1, <1>2 DEF Elements

\* An empty vector has no elements.
LEMMA ElementsEmpty == Elements(<<>>) = {}
  BY DEF Elements

\* A write to the eventfd stays within the counter's range and leaves it
\* positive, also when it fails because the counter is at its limit.
LEMMA WriteEventfdPositive ==
  ASSUME NEW n \in 0..MaxEventfd
  PROVE  WriteEventfd(n) \in 0..MaxEventfd /\ WriteEventfd(n) > 0
  BY EventLoopAssumption DEF WriteEventfd

\* Moving the head of a vector to the end of the sequence before it leaves their
\* concatenation as it is: the effect of running one functor on the history.
LEMMA MoveHead ==
  ASSUME NEW S, NEW s \in Seq(S), NEW t \in Seq(S), t # <<>>
  PROVE  Append(s, Head(t)) \o Tail(t) = s \o t
<1> DEFINE l == Append(s, Head(t)) \o Tail(t)
<1> DEFINE r == s \o t
<1>1. /\ Head(t) \in S /\ Tail(t) \in Seq(S) /\ Len(Tail(t)) = Len(t) - 1
      /\ \A i \in 1..Len(Tail(t)) : Tail(t)[i] = t[i + 1]
      /\ Head(t) = t[1] /\ Len(t) \in Nat \ {0} /\ Len(s) \in Nat
  OBVIOUS
<1>2. /\ Append(s, Head(t)) \in Seq(S) /\ Len(Append(s, Head(t))) = Len(s) + 1
      /\ \A i \in 1..(Len(s) + 1) :
            Append(s, Head(t))[i] = IF i <= Len(s) THEN s[i] ELSE t[1]
  BY <1>1
<1>3. /\ l \in Seq(S) /\ Len(l) = Len(s) + Len(t)
      /\ \A i \in 1..(Len(s) + Len(t)) :
            l[i] = IF i <= Len(s) + 1 THEN Append(s, Head(t))[i]
                                      ELSE Tail(t)[i - (Len(s) + 1)]
  BY <1>1, <1>2, ConcatProperties
<1>4. /\ r \in Seq(S) /\ Len(r) = Len(s) + Len(t)
      /\ \A i \in 1..(Len(s) + Len(t)) :
            r[i] = IF i <= Len(s) THEN s[i] ELSE t[i - Len(s)]
  BY ConcatProperties
<1>5. \A i \in 1..(Len(s) + Len(t)) : l[i] = r[i]
  <2> SUFFICES ASSUME NEW i \in 1..(Len(s) + Len(t)) PROVE l[i] = r[i]
    OBVIOUS
  <2>1. CASE i <= Len(s)
    BY <2>1, <1>1, <1>2, <1>3, <1>4
  <2>2. CASE i = Len(s) + 1
    BY <2>2, <1>1, <1>2, <1>3, <1>4
  <2>3. CASE i > Len(s) + 1
    <3>1. i - (Len(s) + 1) \in 1..Len(Tail(t))
      BY <2>3, <1>1
    <3>2. l[i] = Tail(t)[i - (Len(s) + 1)]
      BY <2>3, <1>1, <1>3
    <3>3. l[i] = t[i - Len(s)]
      BY <3>1, <3>2, <1>1
    <3> QED
      BY <3>3, <2>3, <1>1, <1>4
  <2> QED
    BY <2>1, <2>2, <2>3, <1>1
<1> QED
  BY <1>3, <1>4, <1>5, SeqEqual

\* Appending to the last of two sequences appends to their concatenation.
LEMMA ConcatAppend ==
  ASSUME NEW S, NEW s \in Seq(S), NEW t \in Seq(S), NEW x \in S
  PROVE  s \o Append(t, x) = Append(s \o t, x)
<1>1. Append(t, x) = t \o <<x>> /\ <<x>> \in Seq(S)
  OBVIOUS
<1>2. s \o t \in Seq(S)
  BY ConcatProperties
<1>3. Append(s \o t, x) = (s \o t) \o <<x>>
  BY <1>2
<1> QED
  BY <1>1, <1>3, ConcatAssociative

-----------------------------------------------------------------------------
(* Type correctness *)

\* The variables keep their types: in particular the eventfd counter stays in
\* its range under any number of wakeup() calls.
THEOREM TypeCorrect == SafeSpec => []TypeOK
<1>1. Init => TypeOK
  <2> SUFFICES ASSUME Init PROVE TypeOK
    OBVIOUS
  <2>1. 0 \in 0..MaxEventfd
    BY EventLoopAssumption
  <2>2. <<>> \in Seq(Functors)
    OBVIOUS
  <2> QED
    BY <2>1, <2>2, Zenon DEF Init, TypeOK, LoopPc
<1>2. TypeOK /\ [Next]_vars => TypeOK'
  <2> SUFFICES ASSUME TypeOK, [Next]_vars PROVE TypeOK'
    OBVIOUS
  <2> USE DEF TypeOK, LoopPc, flags, queues, poll, history
  <2>1. CASE Loop
    BY <2>1 DEF Loop
  <2>2. CASE TestQuit
    BY <2>2 DEF TestQuit
  <2>3. CASE PollEvents
    BY <2>3 DEF PollEvents, Ready
  <2>4. CASE PollTimeout
    BY <2>4 DEF PollTimeout
  <2>5. CASE HandleRead
    BY <2>5, EventLoopAssumption DEF HandleRead
  <2>6. ASSUME NEW c \in IOChannels, HandleEvent(c) PROVE TypeOK'
    BY <2>6 DEF HandleEvent
  <2>7. CASE HandlerReturn
    BY <2>7 DEF HandlerReturn
  <2>8. CASE DoPendingFunctors
    BY <2>8 DEF DoPendingFunctors
  <2>9. CASE RunFunctor
    BY <2>9 DEF RunFunctor
  <2>10. CASE FunctorReturn \/ FunctorsDone
    BY <2>10 DEF FunctorReturn, FunctorsDone
  <2>11. ASSUME NEW f \in Functors, QueueInLoopSelf(f) PROVE TypeOK'
    <3>1. wakeupFd_' \in 0..MaxEventfd
      BY <2>11, WriteEventfdPositive DEF QueueInLoopSelf
    <3>2. pendingFunctors_' \in Seq(Functors) /\ posted' \in Seq(Functors)
      BY <2>11 DEF QueueInLoopSelf
    <3>3. early' \in SUBSET Functors
      BY <2>11 DEF QueueInLoopSelf
    <3> QED
      BY <2>11, <3>1, <3>2, <3>3 DEF QueueInLoopSelf
  <2>12. ASSUME NEW f \in Functors, RunInLoopSelf(f) PROVE TypeOK'
    BY <2>12 DEF RunInLoopSelf
  <2>13. CASE QuitSelf
    BY <2>13 DEF QuitSelf
  <2>14. ASSUME NEW t \in Threads, NEW f \in Functors, QueueInLoop(t, f)
         PROVE TypeOK'
    BY <2>14 DEF QueueInLoop
  <2>15. ASSUME NEW t \in Threads, Quit(t) PROVE TypeOK'
    BY <2>15 DEF Quit
  <2>16. ASSUME NEW t \in Threads, Wakeup(t) PROVE TypeOK'
    BY <2>16, WriteEventfdPositive DEF Wakeup
  <2>17. ASSUME NEW c \in IOChannels, RaiseIO(c) PROVE TypeOK'
    BY <2>17 DEF RaiseIO
  <2>18. CASE UNCHANGED vars
    BY <2>18 DEF vars
  <2> QED
    BY <2>1, <2>2, <2>3, <2>4, <2>5, <2>6, <2>7, <2>8, <2>9, <2>10, <2>11,
       <2>12, <2>13, <2>14, <2>15, <2>16, <2>17, <2>18
       DEF Next, LoopStep, UserCode, OtherThread
<1> QED
  BY <1>1, <1>2, PTL DEF SafeSpec

-----------------------------------------------------------------------------
(* Order and single execution *)

\* The local vector is empty outside doPendingFunctors().  Without this the swap
\* could throw functors away.
BatchInv == loopPc \notin {"functors", "functor"} => functors = <<>>

OrderInv == BatchInv /\ ExactlyOnceInOrder

\* Every step keeps the local vector empty outside doPendingFunctors() and the
\* history equal to what ran, followed by what is waiting.
LEMMA OrderStep == TypeOK /\ OrderInv /\ [Next]_vars => OrderInv'
<1> SUFFICES ASSUME TypeOK, OrderInv, [Next]_vars PROVE OrderInv'
  OBVIOUS
<1> USE DEF OrderInv, BatchInv, ExactlyOnceInOrder
<1>0. /\ pendingFunctors_ \in Seq(Functors) /\ functors \in Seq(Functors)
      /\ posted \in Seq(Functors) /\ executed \in Seq(Functors)
      /\ executed \o functors \in Seq(Functors)
  BY ConcatProperties DEF TypeOK
<1>1. CASE Loop \/ TestQuit \/ PollEvents \/ PollTimeout \/ HandleRead
           \/ HandlerReturn \/ FunctorReturn \/ FunctorsDone \/ QuitSelf
  BY <1>1 DEF Loop, TestQuit, PollEvents, PollTimeout, HandleRead, HandlerReturn,
              FunctorReturn, FunctorsDone, QuitSelf, queues, poll, history
<1>2. ASSUME NEW c \in IOChannels, HandleEvent(c) \/ RaiseIO(c) PROVE OrderInv'
  BY <1>2 DEF HandleEvent, RaiseIO, queues, history
<1>3. ASSUME NEW t \in Threads, Quit(t) \/ Wakeup(t) PROVE OrderInv'
  BY <1>3 DEF Quit, Wakeup, queues, history
<1>4. ASSUME NEW f \in Functors, RunInLoopSelf(f) PROVE OrderInv'
  BY <1>4 DEF RunInLoopSelf, queues
<1>5. CASE DoPendingFunctors
  <2>1. /\ functors = <<>> /\ functors' = pendingFunctors_
        /\ pendingFunctors_' = <<>> /\ posted' = posted /\ executed' = executed
        /\ loopPc' = "functors"
    BY <1>5 DEF DoPendingFunctors, history
  <2>2. /\ executed \o <<>> = executed
        /\ (executed \o pendingFunctors_) \o <<>> = executed \o pendingFunctors_
    BY <1>0, ConcatProperties, ConcatEmptySeq
  <2> QED
    BY <2>1, <2>2
<1>6. CASE RunFunctor
  <2>1. Append(executed, Head(functors)) \o Tail(functors) = executed \o functors
    BY <1>0, <1>6, MoveHead DEF RunFunctor
  <2> QED
    BY <1>6, <2>1 DEF RunFunctor
<1>7. ASSUME NEW f \in Functors,
             QueueInLoopSelf(f) \/ \E t \in Threads : QueueInLoop(t, f)
      PROVE  OrderInv'
  <2>1. /\ pendingFunctors_' = Append(pendingFunctors_, f)
        /\ posted' = Append(posted, f)
        /\ functors' = functors /\ executed' = executed /\ loopPc' = loopPc
    BY <1>7 DEF QueueInLoopSelf, QueueInLoop
  <2>2. (executed \o functors) \o Append(pendingFunctors_, f)
          = Append((executed \o functors) \o pendingFunctors_, f)
    BY <1>0, ConcatAppend
  <2> QED
    BY <2>1, <2>2
<1>8. CASE UNCHANGED vars
  BY <1>8 DEF vars, queues, history
<1> QED
  BY <1>1, <1>2, <1>3, <1>4, <1>5, <1>6, <1>7, <1>8
     DEF Next, LoopStep, UserCode, OtherThread

\* queueInLoop, the swap and the for loop never lose, repeat or reorder a functor.
THEOREM OrderPreserved == SafeSpec => []ExactlyOnceInOrder
<1>1. Init => OrderInv
  BY ConcatEmptySeq DEF Init, OrderInv, BatchInv, ExactlyOnceInOrder
<1> QED
  BY <1>1, OrderStep, TypeCorrect, PTL DEF SafeSpec, OrderInv

-----------------------------------------------------------------------------
(* No lost wake-up *)

\* NoLostWakeup speaks of epoll_wait only; to be inductive it has to say where
\* else a functor may sit without a wake-up: in the rest of the current round,
\* before the swap.  The third part is why a functor queued by a functor is
\* announced.
WakeupInv ==
  /\ (loopPc = "poll" /\ quit_) => WakeupDue
  /\ loopPc \notin {"dispatch", "handler"} =>
        Elements(pendingFunctors_) \subseteq early \/ WakeupDue
  /\ loopPc \in {"functors", "functor"} => callingPendingFunctors_

\* Every step of the loop thread and of the other threads keeps WakeupInv.
LEMMA WakeupStep == TypeOK /\ WakeupInv /\ [Next]_vars => WakeupInv'
<1> SUFFICES ASSUME TypeOK, WakeupInv, [Next]_vars PROVE WakeupInv'
  OBVIOUS
<1> USE DEF WakeupInv, flags, queues, history
<1>0. wakeupFd_ \in 0..MaxEventfd /\ pendingFunctors_ \in Seq(Functors)
  BY DEF TypeOK
<1>1. ASSUME UNCHANGED <<wakeupFd_, pc>> PROVE WakeupDue' = WakeupDue
  BY <1>1 DEF WakeupDue
<1>2. ASSUME UNCHANGED pendingFunctors_
      PROVE  Elements(pendingFunctors_)' = Elements(pendingFunctors_)
  BY <1>2 DEF Elements
<1>3. CASE Loop \/ TestQuit \/ PollEvents \/ PollTimeout
  BY <1>1, <1>2, <1>3 DEF Loop, TestQuit, PollEvents, PollTimeout
<1>4. CASE HandleRead
  BY <1>4 DEF HandleRead
<1>5. ASSUME NEW c \in IOChannels, HandleEvent(c) \/ RaiseIO(c) PROVE WakeupInv'
  BY <1>1, <1>2, <1>5 DEF HandleEvent, RaiseIO
<1>6. CASE HandlerReturn
  BY <1>6 DEF HandlerReturn
<1>7. CASE DoPendingFunctors
  <2>1. Elements(pendingFunctors_)' = {}
    BY <1>7, ElementsEmpty DEF DoPendingFunctors, Elements
  <2> QED
    BY <1>7, <2>1 DEF DoPendingFunctors
<1>8. CASE RunFunctor \/ FunctorReturn \/ FunctorsDone
  BY <1>1, <1>2, <1>8 DEF RunFunctor, FunctorReturn, FunctorsDone
<1>9. ASSUME NEW f \in Functors, QueueInLoopSelf(f) PROVE WakeupInv'
  <2>1. Elements(pendingFunctors_)' = Elements(pendingFunctors_) \cup {f}
    BY <1>0, <1>9, ElementsAppend DEF QueueInLoopSelf, Elements
  <2>2. WakeupDue => WakeupDue'
    BY <1>0, <1>9, WriteEventfdPositive DEF QueueInLoopSelf, WakeupDue
  <2>3. CASE loopPc = "idle"
    BY <1>9, <2>1, <2>2, <2>3 DEF QueueInLoopSelf
  <2>4. CASE loopPc = "handler"
    BY <1>9, <2>4 DEF QueueInLoopSelf
  <2>5. CASE loopPc = "functor"
    <3>1. WakeupDue'
      BY <1>0, <1>9, <2>5, WriteEventfdPositive
         DEF QueueInLoopSelf, WakeupNeeded, WakeupDue
    <3> QED
      BY <1>9, <2>5, <3>1 DEF QueueInLoopSelf
  <2> QED
    BY <1>9, <2>3, <2>4, <2>5 DEF QueueInLoopSelf, InUserCode
<1>10. ASSUME NEW f \in Functors, RunInLoopSelf(f) PROVE WakeupInv'
  BY <1>1, <1>2, <1>10 DEF RunInLoopSelf
<1>11. CASE QuitSelf
  BY <1>1, <1>2, <1>11 DEF QuitSelf, InUserCode
<1>12. ASSUME NEW t \in Threads, NEW f \in Functors, QueueInLoop(t, f)
       PROVE  WakeupInv'
  <2>1. pc'[t] = "wakeup"
    BY <1>12 DEF QueueInLoop, WakeupNeeded, TypeOK
  <2> QED
    BY <1>12, <2>1 DEF QueueInLoop, WakeupDue
<1>13. ASSUME NEW t \in Threads, Quit(t) PROVE WakeupInv'
  <2>1. pc'[t] = "wakeup"
    BY <1>13 DEF Quit, TypeOK
  <2> QED
    BY <1>13, <2>1 DEF Quit, WakeupDue
<1>14. ASSUME NEW t \in Threads, Wakeup(t) PROVE WakeupInv'
  <2>1. wakeupFd_' > 0
    BY <1>0, <1>14, WriteEventfdPositive DEF Wakeup
  <2> QED
    BY <1>14, <2>1 DEF Wakeup, WakeupDue
<1>15. CASE UNCHANGED vars
  BY <1>1, <1>2, <1>15 DEF vars
<1> QED
  BY <1>3, <1>4, <1>5, <1>6, <1>7, <1>8, <1>9, <1>10, <1>11, <1>12, <1>13,
     <1>14, <1>15 DEF Next, LoopStep, UserCode, OtherThread

\* The loop thread never sleeps in epoll_wait on work, or on a quit(), that nobody
\* is going to tell it about: however many threads call queueInLoop() and quit(),
\* and also when the eventfd counter is at its limit.
THEOREM WakeupNeverLost == SafeSpec => []NoLostWakeup
<1>1. Init => WakeupInv
  BY ElementsEmpty DEF Init, WakeupInv
<1>2. WakeupInv => NoLostWakeup
  BY DEF WakeupInv, NoLostWakeup
<1> QED
  BY <1>1, <1>2, WakeupStep, TypeCorrect, PTL DEF SafeSpec

-----------------------------------------------------------------------------
(* One round runs one batch *)

\* What is queued while doPendingFunctors() runs waits for the next round.
THEOREM RoundIsBounded == SafeSpec => DeferredToNextRound
<1>1. TypeOK /\ [Next]_vars
        => [(loopPc \in {"functors", "functor"})
              => (Len(functors') <= Len(functors))]_vars
  <2> SUFFICES ASSUME TypeOK, [Next]_vars, loopPc \in {"functors", "functor"}
               PROVE  Len(functors') <= Len(functors)
    OBVIOUS
  <2>1. functors \in Seq(Functors) /\ Len(functors) \in Nat
    BY DEF TypeOK
  <2>2. CASE RunFunctor
    <3>1. Len(functors') = Len(functors) - 1
      BY <2>1, <2>2, HeadTailProperties DEF RunFunctor
    <3> QED
      BY <2>1, <3>1
  <2>3. CASE ~RunFunctor
    <3>1. functors' = functors
      BY <2>3 DEF Next, LoopStep, UserCode, OtherThread, Loop, TestQuit, PollEvents,
         PollTimeout, HandleRead, HandleEvent, HandlerReturn, DoPendingFunctors,
         FunctorReturn, FunctorsDone, QueueInLoopSelf, RunInLoopSelf, QuitSelf,
         QueueInLoop, Quit, Wakeup, RaiseIO, vars, queues
    <3> QED
      BY <2>1, <3>1
  <2> QED
    BY <2>2, <2>3
<1> QED
  BY <1>1, TypeCorrect, PTL DEF SafeSpec, DeferredToNextRound

-----------------------------------------------------------------------------
(* Refinement *)

\* The head of a concatenation whose first part is not empty.
LEMMA HeadTailConcat ==
  ASSUME NEW S, NEW s \in Seq(S), NEW t \in Seq(S), s # <<>>
  PROVE  /\ s \o t # <<>>
         /\ Head(s \o t) = Head(s)
         /\ Tail(s \o t) = Tail(s) \o t
<1>1. /\ s \o t \in Seq(S)
      /\ Len(s \o t) = Len(s) + Len(t)
      /\ \A i \in 1..(Len(s) + Len(t)) :
            (s \o t)[i] = IF i <= Len(s) THEN s[i] ELSE t[i - Len(s)]
  BY ConcatProperties
<1>2. Len(s) \in Nat \ {0} /\ Len(t) \in Nat
  OBVIOUS
<1>3. s \o t # <<>> /\ Head(s \o t) = Head(s)
  BY <1>1, <1>2
<1>4. /\ Tail(s) \in Seq(S) /\ Len(Tail(s)) = Len(s) - 1
      /\ \A i \in 1..Len(Tail(s)) : Tail(s)[i] = s[i + 1]
  BY HeadTailProperties
<1>5. /\ Tail(s) \o t \in Seq(S) /\ Len(Tail(s) \o t) = Len(s) - 1 + Len(t)
      /\ \A i \in 1..(Len(s) - 1 + Len(t)) :
            (Tail(s) \o t)[i] = IF i <= Len(s) - 1 THEN Tail(s)[i]
                                                    ELSE t[i - (Len(s) - 1)]
  BY <1>2, <1>4, ConcatProperties
<1>6. /\ Tail(s \o t) \in Seq(S) /\ Len(Tail(s \o t)) = Len(s) - 1 + Len(t)
      /\ \A i \in 1..(Len(s) - 1 + Len(t)) : Tail(s \o t)[i] = (s \o t)[i + 1]
  BY <1>1, <1>2, <1>3, HeadTailProperties
<1>7. \A i \in 1..(Len(s) - 1 + Len(t)) : Tail(s \o t)[i] = (Tail(s) \o t)[i]
  <2> SUFFICES ASSUME NEW i \in 1..(Len(s) - 1 + Len(t))
               PROVE  Tail(s \o t)[i] = (Tail(s) \o t)[i]
    OBVIOUS
  <2>1. i + 1 \in 1..(Len(s) + Len(t)) /\ i + 1 - Len(s) = i - (Len(s) - 1)
    BY <1>2
  <2>2. CASE i <= Len(s) - 1
    BY <2>1, <2>2, <1>1, <1>2, <1>4, <1>5, <1>6
  <2>3. CASE i > Len(s) - 1
    BY <2>1, <2>3, <1>1, <1>2, <1>5, <1>6
  <2> QED
    BY <2>2, <2>3, <1>2
<1> QED
  BY <1>3, <1>5, <1>6, <1>7, SeqEqual

\* The two vectors, the swap, the eventfd and the threads together behave as one
\* queue from which functors are run in order until the loop stops.
THEOREM ImplementsQueue == SafeSpec => Executor!SafeSpec
<1>1. Init => Executor!Init
  BY ConcatEmptySeq DEF Init, Executor!Init
<1>2. TypeOK /\ OrderInv /\ [Next]_vars => [Executor!Next]_Executor!vars
  <2> SUFFICES ASSUME TypeOK, OrderInv, [Next]_vars
               PROVE  [Executor!Next]_Executor!vars
    OBVIOUS
  <2> USE DEF queues, history
  <2>0. pendingFunctors_ \in Seq(Functors) /\ functors \in Seq(Functors)
    BY DEF TypeOK
  <2>1. CASE TestQuit
    <3>1. UNCHANGED <<functors, pendingFunctors_, executed>> /\ loopPc = "while"
      BY <2>1 DEF TestQuit
    <3>2. CASE quit_
      BY <2>1, <3>1, <3>2 DEF TestQuit, Executor!Next, Executor!Stop
    <3>3. CASE ~quit_
      BY <2>1, <3>1, <3>3 DEF TestQuit, Executor!vars
    <3> QED
      BY <3>2, <3>3
  <2>2. CASE DoPendingFunctors
    <3>1. functors = <<>>
      BY <2>2 DEF DoPendingFunctors, OrderInv, BatchInv
    <3>2. functors \o pendingFunctors_ = pendingFunctors_ \o <<>>
      BY <2>0, <3>1, ConcatEmptySeq
    <3> QED
      BY <2>2, <3>2 DEF DoPendingFunctors, Executor!vars
  <2>3. CASE RunFunctor
    <3>1. /\ functors \o pendingFunctors_ # <<>>
          /\ Head(functors \o pendingFunctors_) = Head(functors)
          /\ Tail(functors \o pendingFunctors_) = Tail(functors) \o pendingFunctors_
      BY <2>0, <2>3, HeadTailConcat DEF RunFunctor
    <3> QED
      BY <2>3, <3>1 DEF RunFunctor, Executor!Next, Executor!Run
  <2>4. ASSUME NEW f \in Functors,
               QueueInLoopSelf(f) \/ \E t \in Threads : QueueInLoop(t, f)
        PROVE  Executor!Next
    <3>1. functors \o Append(pendingFunctors_, f)
            = Append(functors \o pendingFunctors_, f)
      BY <2>0, ConcatAppend
    <3> QED
      BY <2>4, <3>1 DEF QueueInLoopSelf, QueueInLoop, Executor!Next, Executor!Post
  <2>5. CASE \/ Loop \/ PollEvents \/ PollTimeout \/ HandleRead
             \/ (\E c \in IOChannels : HandleEvent(c)) \/ HandlerReturn
             \/ FunctorReturn \/ FunctorsDone \/ QuitSelf
             \/ (\E f \in Functors : RunInLoopSelf(f))
             \/ (\E t \in Threads : Quit(t) \/ Wakeup(t))
             \/ (\E c \in IOChannels : RaiseIO(c))
             \/ UNCHANGED vars
    <3>1. /\ UNCHANGED <<functors, pendingFunctors_, executed>>
          /\ (loopPc' = "exited") = (loopPc = "exited")
      BY <2>5 DEF Loop, PollEvents, PollTimeout, HandleRead, HandleEvent,
         HandlerReturn, FunctorReturn, FunctorsDone, QuitSelf, RunInLoopSelf, Quit,
         Wakeup, RaiseIO, vars
    <3> QED
      BY <3>1 DEF Executor!vars
  <2> QED
    BY <2>1, <2>2, <2>3, <2>4, <2>5 DEF Next, LoopStep, UserCode, OtherThread
<1>3. Init => OrderInv
  BY ConcatEmptySeq DEF Init, OrderInv, BatchInv, ExactlyOnceInOrder
<1> QED
  BY <1>1, <1>2, <1>3, OrderStep, TypeCorrect, PTL DEF SafeSpec, Executor!SafeSpec

=============================================================================
