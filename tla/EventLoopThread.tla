--------------------------- MODULE EventLoopThread ---------------------------
(***************************************************************************)
(* EventLoopThread and Thread: a thread that makes an EventLoop on its own *)
(* stack and publishes it in loop_, and the owner that starts it.          *)
(*                                                                         *)
(* Two hand-shakes take place for each object.  Thread::start() waits on a *)
(* semaphore until the new thread has its tid_.  startLoop() waits on a    *)
(* condition variable for loop_, but the condition it tests is its own     *)
(* local variable, which nothing assigns during the wait; and the thread   *)
(* takes no lock to publish, because "std::unique_lock<std::mutex> lock()" *)
(* declares a function.                                                    *)
(*                                                                         *)
(* An owner that has called startLoop() never gets to the destructor, and  *)
(* one that has not leaves it nothing to do, so it is not modelled.        *)
(***************************************************************************)
EXTENDS Naturals

CONSTANT Objects       \* the EventLoopThread objects

VARIABLES
  owner,               \* where the caller of startLoop() is, per object
  thread,              \* where the object's thread is
  started_, tid_,      \* Thread: the flag, and whether the id is known
  sem,                 \* the semaphore in Thread::start
  mutex_,              \* who holds it: "owner", "thread" or "free"
  loop_,               \* whether loop_ points to an EventLoop
  loop,                \* whether startLoop()'s local does
  loopAlive            \* whether the thread's EventLoop exists

ownerVars == <<owner, started_, loop>>
threadVars == <<thread, tid_, loop_, loopAlive>>
vars == <<ownerVars, threadVars, sem, mutex_>>

OwnerPc == {"idle", "sem", "lock", "test", "wait", "relock", "returned"}
ThreadPc == {"none", "born", "post", "func", "publish", "notify", "loop", "exit",
             "clear", "done"}

TypeOK ==
  /\ owner \in [Objects -> OwnerPc]
  /\ thread \in [Objects -> ThreadPc]
  /\ started_ \in [Objects -> BOOLEAN]
  /\ tid_ \in [Objects -> BOOLEAN]
  /\ sem \in [Objects -> 0..1]
  /\ mutex_ \in [Objects -> {"free", "owner", "thread"}]
  /\ loop_ \in [Objects -> BOOLEAN]
  /\ loop \in [Objects -> BOOLEAN]
  /\ loopAlive \in [Objects -> BOOLEAN]

Init ==
  /\ owner = [e \in Objects |-> "idle"]
  /\ thread = [e \in Objects |-> "none"]
  /\ started_ = [e \in Objects |-> FALSE]
  /\ tid_ = [e \in Objects |-> FALSE]
  /\ sem = [e \in Objects |-> 0]
  /\ mutex_ = [e \in Objects |-> "free"]
  /\ loop_ = [e \in Objects |-> FALSE]
  /\ loop = [e \in Objects |-> FALSE]
  /\ loopAlive = [e \in Objects |-> FALSE]

OwnerGoes(e, from, to) == owner[e] = from /\ owner' = [owner EXCEPT ![e] = to]
ThreadGoes(e, from, to) == thread[e] = from /\ thread' = [thread EXCEPT ![e] = to]

-----------------------------------------------------------------------------
(* The owner *)

\* startLoop() calls Thread::start(): the thread is made.
Start(e) ==
  /\ OwnerGoes(e, "idle", "sem")
  /\ started_' = [started_ EXCEPT ![e] = TRUE]
  /\ ThreadGoes(e, "none", "born")
  /\ UNCHANGED <<loop, tid_, loop_, loopAlive, sem, mutex_>>

\* Faulty variant: start() does not wait.
SemWait_Skipped(e) ==
  /\ OwnerGoes(e, "sem", "lock")
  /\ UNCHANGED <<started_, loop, threadVars, sem, mutex_>>

\* sem_wait() gets through and start() returns.
SemWait(e) ==
  /\ OwnerGoes(e, "sem", "lock")
  /\ sem[e] > 0
  /\ sem' = [sem EXCEPT ![e] = @ - 1]
  /\ UNCHANGED <<started_, loop, threadVars, mutex_>>

\* The mutex, taken by the unique_lock or taken back at the end of cond_.wait().
OwnerLock(e) ==
  /\ OwnerGoes(e, "lock", "test") \/ OwnerGoes(e, "relock", "test")
  /\ mutex_[e] = "free"
  /\ mutex_' = [mutex_ EXCEPT ![e] = "owner"]
  /\ UNCHANGED <<started_, loop, threadVars, sem>>

\* while (loop == nullptr) cond_.wait(lock); loop = loop_; return loop;
TestLoop(e) ==
  /\ OwnerGoes(e, "test", IF loop[e] THEN "returned" ELSE "wait")
  /\ loop' = IF loop[e] THEN [loop EXCEPT ![e] = loop_[e]] ELSE loop
  /\ mutex_' = [mutex_ EXCEPT ![e] = "free"]
  /\ UNCHANGED <<started_, threadVars, sem>>

\* A condition variable may wake its waiter for no reason.
SpuriousWakeup(e) ==
  /\ OwnerGoes(e, "wait", "relock")
  /\ UNCHANGED <<started_, loop, threadVars, sem, mutex_>>

-----------------------------------------------------------------------------
(* The thread *)

\* tid_ = CurrentThread::tid()
SetTid(e) ==
  /\ ThreadGoes(e, "born", "post")
  /\ tid_' = [tid_ EXCEPT ![e] = TRUE]
  /\ UNCHANGED <<ownerVars, loop_, loopAlive, sem, mutex_>>

\* Faulty variant: the semaphore is posted once for the id and once for the thread.
SemPost_Twice(e) ==
  /\ ThreadGoes(e, "post", "func")
  /\ sem' = [sem EXCEPT ![e] = @ + 2]
  /\ UNCHANGED <<ownerVars, tid_, loop_, loopAlive, mutex_>>

\* sem_post(&sem)
SemPost(e) ==
  /\ ThreadGoes(e, "post", "func")
  /\ sem' = [sem EXCEPT ![e] = @ + 1]
  /\ UNCHANGED <<ownerVars, tid_, loop_, loopAlive, mutex_>>

\* threadFunc() makes the EventLoop and runs callback_ on it.
MakeLoop(e) ==
  /\ ThreadGoes(e, "func", "publish")
  /\ loopAlive' = [loopAlive EXCEPT ![e] = TRUE]
  /\ UNCHANGED <<ownerVars, tid_, loop_, sem, mutex_>>

\* Faulty variant: the pointer is handed over only to an owner that waits already.
Publish_ToWaiter(e) ==
  /\ ThreadGoes(e, "publish", "notify")
  /\ loop_' = [loop_ EXCEPT ![e] = owner[e] = "wait"]
  /\ UNCHANGED <<ownerVars, tid_, loopAlive, sem, mutex_>>

\* loop_ = &loop, without the mutex.
Publish(e) ==
  /\ ThreadGoes(e, "publish", "notify")
  /\ loop_' = [loop_ EXCEPT ![e] = TRUE]
  /\ UNCHANGED <<ownerVars, tid_, loopAlive, sem, mutex_>>

\* cond_.notify_one() wakes the owner if it waits, and is lost if it does not;
\* then loop.loop() starts.
Notify(e) ==
  /\ ThreadGoes(e, "notify", "loop")
  /\ owner' = [owner EXCEPT ![e] = IF @ = "wait" THEN "relock" ELSE @]
  /\ UNCHANGED <<started_, loop, tid_, loop_, loopAlive, sem, mutex_>>

\* loop.loop() returns, if somebody quits the loop.
LoopReturns(e) ==
  /\ ThreadGoes(e, "loop", "exit")
  /\ UNCHANGED <<ownerVars, tid_, loop_, loopAlive, sem, mutex_>>

\* std::unique_lock<std::mutex> lock(mutex_)
ThreadLock(e) ==
  /\ ThreadGoes(e, "exit", "clear")
  /\ mutex_[e] = "free"
  /\ mutex_' = [mutex_ EXCEPT ![e] = "thread"]
  /\ UNCHANGED <<ownerVars, tid_, loop_, loopAlive, sem>>

\* Faulty variant: the pointer to the dead loop stays.
ThreadExit_KeepsPointer(e) ==
  /\ ThreadGoes(e, "clear", "done")
  /\ mutex_' = [mutex_ EXCEPT ![e] = "free"]
  /\ loopAlive' = [loopAlive EXCEPT ![e] = FALSE]
  /\ UNCHANGED <<ownerVars, tid_, loop_, sem>>

\* loop_ = nullptr, the lock is released and the EventLoop destroyed.
ThreadExit(e) ==
  /\ ThreadGoes(e, "clear", "done")
  /\ loop_' = [loop_ EXCEPT ![e] = FALSE]
  /\ mutex_' = [mutex_ EXCEPT ![e] = "free"]
  /\ loopAlive' = [loopAlive EXCEPT ![e] = FALSE]
  /\ UNCHANGED <<ownerVars, tid_, sem>>

-----------------------------------------------------------------------------
OwnerStep(e) == SemWait(e) \/ OwnerLock(e) \/ TestLoop(e)

ThreadStep(e) ==
  \/ SetTid(e) \/ SemPost(e) \/ MakeLoop(e) \/ Publish(e) \/ Notify(e)
  \/ ThreadLock(e) \/ ThreadExit(e)

Next ==
  \E e \in Objects :
    Start(e) \/ OwnerStep(e) \/ SpuriousWakeup(e) \/ ThreadStep(e) \/ LoopReturns(e)

SafeSpec == Init /\ [][Next]_vars

\* Threads that can go on do.  Nobody need call startLoop() or quit the loop.
Spec ==
  /\ SafeSpec
  /\ \A e \in Objects : WF_vars(OwnerStep(e)) /\ WF_vars(ThreadStep(e))

-----------------------------------------------------------------------------
(* Properties *)

\* "Before start() returns, the new thread has started and got its thread id."
StartedHasTid == \A e \in Objects : owner[e] \notin {"idle", "sem"} => tid_[e]

\* loop_ never points to an EventLoop that is not there: the thread publishes it
\* when it is made and takes it back, before its stack frame goes.
LoopPointerValid == \A e \in Objects : loop_[e] => loopAlive[e]

\* Neither hand-shake holds the thread up: once started, it publishes its loop and
\* enters it, whatever the owner does with the mutex.
ThreadReachesLoop ==
  \A e \in Objects : (thread[e] = "born") ~> (thread[e] = "loop" /\ loop_[e])

\* "A condition variable is used to wait for loop_": startLoop() returns.
StartLoopReturns == \A e \in Objects : (owner[e] = "sem") ~> (owner[e] = "returned")

=============================================================================
