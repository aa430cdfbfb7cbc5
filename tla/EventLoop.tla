------------------------------ MODULE EventLoop ------------------------------
(***************************************************************************)
(* EventLoop.h, EventLoop.cpp: one event loop, the thread that runs it and *)
(* the other threads that hand it functors or tell it to quit.             *)
(*                                                                         *)
(* The loop thread alternates between epoll_wait, the handlers of the      *)
(* active channels and doPendingFunctors().  Other threads append to       *)
(* pendingFunctors_ under mutex_ and then, in a second step, write the     *)
(* eventfd that wakes epoll_wait up; quit() likewise stores quit_ first    *)
(* and writes the eventfd in a second step.  Every interleaving of those   *)
(* steps with the loop thread's is a behaviour of Next.                    *)
(*                                                                         *)
(* The bodies of handlers and functors belong to the users of the loop.    *)
(* While one of them runs, the loop thread may make any call that the      *)
(* class offers: queueInLoop, runInLoop, quit.                             *)
(***************************************************************************)
EXTENDS Naturals, Sequences

CONSTANTS
  Threads,         \* the threads other than the loop's own
  Functors,        \* the functors handed over; each of them at most once
  IOChannels,      \* the channels of the loop other than wakeupChannel_
  wakeupChannel_,
  NoChannel,       \* nullptr
  MaxEventfd       \* largest value of an eventfd counter (2^64 - 2)

ASSUME EventLoopAssumption ==
  /\ MaxEventfd \in Nat \ {0}
  /\ wakeupChannel_ \notin IOChannels
  /\ NoChannel \notin IOChannels

VARIABLES
  looping_, quit_, callingPendingFunctors_,
  pendingFunctors_,      \* protected by mutex_
  functors,              \* doPendingFunctors()'s local vector
  wakeupFd_,             \* the counter of the eventfd
  activeChannels_, currentActiveChannel_,
  ioReady,               \* IOChannels whose file the kernel finds ready
  loopPc,                \* where the loop thread is
  pc,                    \* where each other thread is
  posted, executed,      \* history: order of hand-over, order of execution
  early,                 \* history: queued by the loop thread before loop()
  direct                 \* history: run inside runInLoop() by the loop thread

flags == <<looping_, quit_, callingPendingFunctors_>>
queues == <<pendingFunctors_, functors>>
poll == <<activeChannels_, currentActiveChannel_, ioReady>>
history == <<posted, executed, early, direct>>
vars == <<flags, queues, wakeupFd_, poll, loopPc, pc, history>>

LoopPc == {"idle", "while", "poll", "dispatch", "handler", "functors",
           "functor", "exited"}

TypeOK ==
  /\ looping_ \in BOOLEAN
  /\ quit_ \in BOOLEAN
  /\ callingPendingFunctors_ \in BOOLEAN
  /\ pendingFunctors_ \in Seq(Functors)
  /\ functors \in Seq(Functors)
  /\ wakeupFd_ \in 0..MaxEventfd
  /\ activeChannels_ \in SUBSET (IOChannels \cup {wakeupChannel_})
  /\ currentActiveChannel_ \in IOChannels \cup {NoChannel}
  /\ ioReady \in SUBSET IOChannels
  /\ loopPc \in LoopPc
  /\ pc \in [Threads -> {"idle", "wakeup"}]
  /\ posted \in Seq(Functors)
  /\ executed \in Seq(Functors)
  /\ early \in SUBSET Functors
  /\ direct \in SUBSET Functors

\* EventLoop::EventLoop, with the wakeup channel registered for reading.
Init ==
  /\ looping_ = FALSE
  /\ quit_ = FALSE
  /\ callingPendingFunctors_ = FALSE
  /\ pendingFunctors_ = <<>>
  /\ functors = <<>>
  /\ wakeupFd_ = 0
  /\ activeChannels_ = {}
  /\ currentActiveChannel_ = NoChannel
  /\ ioReady = {}
  /\ loopPc = "idle"
  /\ pc = [t \in Threads |-> "idle"]
  /\ posted = <<>>
  /\ executed = <<>>
  /\ early = {}
  /\ direct = {}

Elements(s) == {s[i] : i \in 1..Len(s)}

Fresh(f) == f \notin Elements(posted) \cup direct

-----------------------------------------------------------------------------
(* The eventfd *)

\* Faulty variant: the eight bytes are written without a look at the counter,
\* which wraps at its limit.
WriteEventfd_Wraps(n) == (n + 1) % (MaxEventfd + 1)

\* Faulty variant: the counter is taken for one without a limit.
WriteEventfd_Unlimited(n) == n + 1

\* write() of 1 to the non-blocking eventfd.  At the limit it fails with EAGAIN,
\* wakeup() logs and the counter stays.
WriteEventfd(n) == IF n < MaxEventfd THEN n + 1 ELSE n

\* Faulty variant: only other threads wake the loop up.
WakeupNeeded_OtherThreadsOnly(inLoopThread) == ~inLoopThread

\* if (!isInLoopThread() || callingPendingFunctors_)
WakeupNeeded(inLoopThread) == ~inLoopThread \/ callingPendingFunctors_

-----------------------------------------------------------------------------
(* The loop thread *)

\* loop() up to the while.
Loop ==
  /\ loopPc = "idle"
  /\ ~looping_
  /\ looping_' = TRUE
  /\ quit_' = FALSE
  /\ loopPc' = "while"
  /\ UNCHANGED <<callingPendingFunctors_, queues, wakeupFd_, poll, pc, history>>

\* while (!quit_): either loop() returns, or activeChannels_ is cleared and the
\* thread enters epoll_wait.
TestQuit ==
  /\ loopPc = "while"
  /\ \/ quit_ /\ loopPc' = "exited" /\ UNCHANGED activeChannels_
     \/ ~quit_ /\ loopPc' = "poll" /\ activeChannels_' = {}
  /\ UNCHANGED <<flags, queues, wakeupFd_, currentActiveChannel_, ioReady, pc,
                 history>>

Ready == ioReady \cup {c \in {wakeupChannel_} : wakeupFd_ > 0}

\* epoll_wait returns with events: as many ready channels as events_ has room
\* for, whichever the kernel puts first.
PollEvents ==
  /\ loopPc = "poll"
  /\ \E active \in SUBSET Ready :
       /\ active # {}
       /\ activeChannels_' = active
  /\ loopPc' = "dispatch"
  /\ UNCHANGED <<flags, queues, wakeupFd_, currentActiveChannel_, ioReady, pc,
                 history>>

\* epoll_wait returns empty-handed: kPollTimeMs have passed, or EINTR.
PollTimeout ==
  /\ loopPc = "poll"
  /\ Ready = {}
  /\ loopPc' = "dispatch"
  /\ UNCHANGED <<flags, queues, wakeupFd_, poll, pc, history>>

\* The wakeup channel's handler, EventLoop::handleRead: reads the counter, which
\* resets it.
HandleRead ==
  /\ loopPc = "dispatch"
  /\ wakeupChannel_ \in activeChannels_
  /\ wakeupFd_' = 0
  /\ activeChannels_' = activeChannels_ \ {wakeupChannel_}
  /\ UNCHANGED <<flags, queues, currentActiveChannel_, ioReady, loopPc, pc,
                 history>>

\* currentActiveChannel_->handleEvent(): the handler of another channel starts ...
HandleEvent(c) ==
  /\ loopPc = "dispatch"
  /\ c \in activeChannels_
  /\ currentActiveChannel_' = c
  /\ loopPc' = "handler"
  /\ UNCHANGED <<flags, queues, wakeupFd_, activeChannels_, ioReady, pc, history>>

\* ... and returns.  It may have drained its file, or not (level triggered).
HandlerReturn ==
  /\ loopPc = "handler"
  /\ activeChannels_' = activeChannels_ \ {currentActiveChannel_}
  /\ ioReady' \in {ioReady, ioReady \ {currentActiveChannel_}}
  /\ loopPc' = "dispatch"
  /\ UNCHANGED <<flags, queues, wakeupFd_, currentActiveChannel_, pc, history>>

\* Faulty variant: the vector is copied out, not swapped.
DoPendingFunctors_Copies ==
  /\ loopPc = "dispatch"
  /\ activeChannels_ = {}
  /\ callingPendingFunctors_' = TRUE
  /\ functors' = pendingFunctors_
  /\ loopPc' = "functors"
  /\ UNCHANGED <<looping_, quit_, pendingFunctors_, wakeupFd_, poll, pc, history>>

\* doPendingFunctors() up to its for loop: the flag, and the swap under mutex_.
DoPendingFunctors ==
  /\ loopPc = "dispatch"
  /\ activeChannels_ = {}
  /\ callingPendingFunctors_' = TRUE
  /\ functors' = pendingFunctors_
  /\ pendingFunctors_' = <<>>
  /\ loopPc' = "functors"
  /\ UNCHANGED <<looping_, quit_, wakeupFd_, poll, pc, history>>

\* Faulty variant: what has been queued in the meantime joins the running batch.
RunFunctor_JoinsBatch ==
  /\ loopPc = "functors"
  /\ functors # <<>>
  /\ executed' = Append(executed, Head(functors))
  /\ functors' = Tail(functors) \o pendingFunctors_
  /\ pendingFunctors_' = <<>>
  /\ loopPc' = "functor"
  /\ UNCHANGED <<flags, wakeupFd_, poll, pc, posted, early, direct>>

\* functor() starts ...
RunFunctor ==
  /\ loopPc = "functors"
  /\ functors # <<>>
  /\ executed' = Append(executed, Head(functors))
  /\ functors' = Tail(functors)
  /\ loopPc' = "functor"
  /\ UNCHANGED <<flags, pendingFunctors_, wakeupFd_, poll, pc, posted, early, direct>>

\* ... and returns.
FunctorReturn ==
  /\ loopPc = "functor"
  /\ loopPc' = "functors"
  /\ UNCHANGED <<flags, queues, wakeupFd_, poll, pc, history>>

\* doPendingFunctors() returns, with callingPendingFunctors_ as it is.
FunctorsDone ==
  /\ loopPc = "functors"
  /\ functors = <<>>
  /\ loopPc' = "while"
  /\ UNCHANGED <<flags, queues, wakeupFd_, poll, pc, history>>

-----------------------------------------------------------------------------
(* Calls made by the loop thread: from a handler, from a functor, or before  *)
(* loop().  callingPendingFunctors_ is only read on this thread, and only    *)
(* this thread takes functors out, so the append and the eventfd write of    *)
(* one call are one step here.                                               *)

InUserCode == loopPc \in {"idle", "handler", "functor"}

\* queueInLoop() on the loop thread.
QueueInLoopSelf(f) ==
  /\ InUserCode
  /\ Fresh(f)
  /\ pendingFunctors_' = Append(pendingFunctors_, f)
  /\ posted' = Append(posted, f)
  /\ early' = IF loopPc = "idle" THEN early \cup {f} ELSE early
  /\ wakeupFd_' = IF WakeupNeeded(TRUE) THEN WriteEventfd(wakeupFd_)
                                        ELSE wakeupFd_
  /\ UNCHANGED <<flags, functors, poll, loopPc, pc, executed, direct>>

\* runInLoop() on the loop thread runs the functor on the spot, ahead of the
\* queue.  The calls its body makes are calls of the enclosing user code.
RunInLoopSelf(f) ==
  /\ InUserCode
  /\ Fresh(f)
  /\ direct' = direct \cup {f}
  /\ UNCHANGED <<flags, queues, wakeupFd_, poll, loopPc, pc, posted, executed, early>>

\* quit() on the loop thread.
QuitSelf ==
  /\ InUserCode
  /\ quit_' = TRUE
  /\ UNCHANGED <<looping_, callingPendingFunctors_, queues, wakeupFd_, poll,
                 loopPc, pc, history>>

-----------------------------------------------------------------------------
(* Calls made by the other threads *)

\* runInLoop() or queueInLoop() on another thread: the append under mutex_.
QueueInLoop(t, f) ==
  /\ pc[t] = "idle"
  /\ Fresh(f)
  /\ pendingFunctors_' = Append(pendingFunctors_, f)
  /\ posted' = Append(posted, f)
  /\ pc' = [pc EXCEPT ![t] = IF WakeupNeeded(FALSE) THEN "wakeup" ELSE "idle"]
  /\ UNCHANGED <<flags, functors, wakeupFd_, poll, loopPc, executed, early, direct>>

\* Faulty variant: quit() leaves it to the loop thread to notice.
Quit_NoWakeup(t) ==
  /\ pc[t] = "idle"
  /\ quit_' = TRUE
  /\ UNCHANGED <<looping_, callingPendingFunctors_, queues, wakeupFd_, poll,
                 loopPc, pc, history>>

\* quit() on another thread: the store to quit_.
Quit(t) ==
  /\ pc[t] = "idle"
  /\ quit_' = TRUE
  /\ pc' = [pc EXCEPT ![t] = "wakeup"]
  /\ UNCHANGED <<looping_, callingPendingFunctors_, queues, wakeupFd_, poll,
                 loopPc, history>>

\* wakeup(), the second step of both.
Wakeup(t) ==
  /\ pc[t] = "wakeup"
  /\ wakeupFd_' = WriteEventfd(wakeupFd_)
  /\ pc' = [pc EXCEPT ![t] = "idle"]
  /\ UNCHANGED <<flags, queues, poll, loopPc, history>>

\* A file becomes ready.
RaiseIO(c) ==
  /\ c \notin ioReady
  /\ ioReady' = ioReady \cup {c}
  /\ UNCHANGED <<flags, queues, wakeupFd_, activeChannels_, currentActiveChannel_,
                 loopPc, pc, history>>

-----------------------------------------------------------------------------
\* The loop thread's own steps, epoll_wait's time-out aside.
LoopStep ==
  \/ Loop \/ TestQuit
  \/ PollEvents
  \/ HandleRead \/ (\E c \in IOChannels : HandleEvent(c)) \/ HandlerReturn
  \/ DoPendingFunctors \/ RunFunctor \/ FunctorReturn \/ FunctorsDone

UserCode ==
  \/ \E f \in Functors : QueueInLoopSelf(f) \/ RunInLoopSelf(f)
  \/ QuitSelf

OtherThread(t) ==
  \/ \E f \in Functors : QueueInLoop(t, f)
  \/ Quit(t)
  \/ Wakeup(t)

Next ==
  \/ LoopStep
  \/ PollTimeout
  \/ UserCode
  \/ \E t \in Threads : OtherThread(t)
  \/ \E c \in IOChannels : RaiseIO(c)

SafeSpec == Init /\ [][Next]_vars

\* A thread inside queueInLoop() or quit() goes on, and so does the loop thread:
\* its caller calls loop(), handlers and functors return.
PromptSpec ==
  /\ SafeSpec
  /\ WF_vars(LoopStep)
  /\ \A t \in Threads : WF_vars(Wakeup(t))

\* The same, and epoll_wait does time out when nothing is ready.
Spec ==
  /\ SafeSpec
  /\ WF_vars(LoopStep \/ PollTimeout)
  /\ \A t \in Threads : WF_vars(Wakeup(t))

-----------------------------------------------------------------------------
(* Properties *)

\* queueInLoop, swap and for loop together: what has run, what is in the local
\* vector and what is still in pendingFunctors_ is, in this order, exactly what
\* was handed over.  Nothing is lost, run twice or overtaken, across threads.
ExactlyOnceInOrder == posted = executed \o functors \o pendingFunctors_

\* An eventfd write has happened and was not consumed yet, or a thread is about
\* to make one.
WakeupDue == wakeupFd_ > 0 \/ \E t \in Threads : pc[t] = "wakeup"

\* No lost wake-up: while the loop thread sleeps in epoll_wait with functors in
\* pendingFunctors_ or quit_ set, a wake-up is due.  Exempt are functors that
\* the loop thread queued itself before loop(): these wait for the time-out.
NoLostWakeup ==
  loopPc = "poll" =>
    /\ quit_ => WakeupDue
    /\ Elements(pendingFunctors_) \subseteq early \/ WakeupDue

\* The comment in queueInLoop: a functor queued while doPendingFunctors() runs is
\* put off to the next round, so one round runs a fixed batch and the channels
\* get their turn.  No step inside the round makes the batch longer.
DeferredToNextRound ==
  [][(loopPc \in {"functors", "functor"}) => (Len(functors') <= Len(functors))]_vars

\* Every functor handed over runs, promptly (without help from the time-out of
\* epoll_wait), unless loop() returns first.
FunctorsRun ==
  \A f \in Functors :
    (f \in Elements(posted) /\ f \notin early)
      ~> (f \in Elements(executed) \/ loopPc = "exited")

\* quit() called on a loop that has been started makes loop() return, promptly.
\* (Before loop() it is lost: loop() stores false into quit_.)
QuitStops == (quit_ /\ looping_) ~> (loopPc = "exited")

\* EventLoop implements the contract of its queue.
Executor ==
  INSTANCE SerialExecutor WITH
    queue <- functors \o pendingFunctors_,
    done <- executed,
    stopped <- loopPc = "exited"

\* EventLoop is a serial executor: order, single execution and, as long as the
\* loop runs, progress.  The latter takes the time-out of epoll_wait, because of
\* the functors that the loop thread queued before loop().
ImplementsExecutor ==
  /\ Executor!SafeSpec
  /\ WF_vars(LoopStep \/ PollTimeout) => Executor!Progress

=============================================================================
