------------------------ MODULE EventLoopThreadProofs ------------------------
(***************************************************************************)
(* The hand-shake of Thread::start and the life of the published pointer,  *)
(* for any number of EventLoopThread objects.                              *)
(***************************************************************************)
EXTENDS EventLoopThread, TLAPS

\* The semaphore is posted once, after the id is known.
SemInv ==
  \A e \in Objects :
    /\ thread[e] \in {"none", "born", "post"} => sem[e] = 0
    /\ thread[e] \notin {"none", "born"} => tid_[e]
    /\ owner[e] = "idle" => thread[e] = "none"
    /\ owner[e] \notin {"idle", "sem"} => thread[e] \notin {"none", "born", "post"}

\* Where the thread is when the loop exists, and when it is published.
LoopInv ==
  \A e \in Objects :
    /\ loop_[e] => thread[e] \in {"notify", "loop", "exit", "clear"}
    /\ thread[e] \in {"publish", "notify", "loop", "exit", "clear"} => loopAlive[e]

IInv == TypeOK /\ SemInv /\ LoopInv

\* No thread is there at first, and no loop.
LEMMA IInvInit == Init => IInv
<1>1. Init => TypeOK
  <2>1. 0 \in 0..1
    OBVIOUS
  <2> QED
    BY <2>1 DEF Init, TypeOK, OwnerPc, ThreadPc
<1> QED
  BY <1>1 DEF Init, IInv, SemInv, LoopInv

\* Every step of owner and thread preserves the invariant.
LEMMA IInvStep == IInv /\ [Next]_vars => IInv'
<1> SUFFICES ASSUME IInv, [Next]_vars PROVE IInv'
  OBVIOUS
<1> USE DEF IInv, ownerVars, threadVars, OwnerGoes, ThreadGoes
<1>1. ASSUME NEW e \in Objects,
             Start(e) \/ OwnerLock(e) \/ TestLoop(e) \/ SpuriousWakeup(e)
      PROVE  IInv'
  <2>1. TypeOK'
    <3>1. CASE Start(e)
      BY <3>1 DEF Start, TypeOK, OwnerPc, ThreadPc
    <3>2. CASE OwnerLock(e)
      BY <3>2 DEF OwnerLock, TypeOK, OwnerPc
    <3>3. CASE TestLoop(e)
      <4>1. owner' \in [Objects -> OwnerPc]
        BY <3>3 DEF TestLoop, TypeOK, OwnerPc
      <4>2. loop' \in [Objects -> BOOLEAN]
        <5>1. loop_[e] \in BOOLEAN
          BY DEF TypeOK
        <5>2. loop' = loop \/ loop' = [loop EXCEPT ![e] = loop_[e]]
          BY <3>3 DEF TestLoop
        <5> QED
          BY <5>1, <5>2 DEF TypeOK
      <4> QED
        BY <3>3, <4>1, <4>2 DEF TestLoop, TypeOK
    <3>4. CASE SpuriousWakeup(e)
      BY <3>4 DEF SpuriousWakeup, TypeOK, OwnerPc
    <3> QED
      BY <1>1, <3>1, <3>2, <3>3, <3>4
  <2>2. SemInv' /\ LoopInv'
    <3>1. CASE Start(e)
      BY <3>1 DEF Start, TypeOK, SemInv, LoopInv
    <3>2. CASE OwnerLock(e)
      BY <3>2 DEF OwnerLock, TypeOK, SemInv, LoopInv
    <3>3. CASE TestLoop(e)
      <4>1. /\ owner[e] = "test"
            /\ \E pc \in {"returned", "wait"} : owner' = [owner EXCEPT ![e] = pc]
            /\ UNCHANGED <<thread, tid_, loop_, loopAlive, sem>>
        BY <3>3 DEF TestLoop
      <4> QED
        BY <4>1 DEF TypeOK, SemInv, LoopInv
    <3>4. CASE SpuriousWakeup(e)
      BY <3>4 DEF SpuriousWakeup, TypeOK, SemInv, LoopInv
    <3> QED
      BY <1>1, <3>1, <3>2, <3>3, <3>4
  <2> QED
    BY <2>1, <2>2
<1>2. ASSUME NEW e \in Objects, SemWait(e) PROVE IInv'
  <2>1. /\ sem[e] = 1 /\ sem' = [sem EXCEPT ![e] = 0]
        /\ thread[e] \notin {"none", "born", "post"}
    <3>1. sem[e] \in 0..1 /\ sem[e] > 0 /\ sem' = [sem EXCEPT ![e] = sem[e] - 1]
      BY <1>2 DEF SemWait, TypeOK
    <3>2. sem[e] = 1
      BY <3>1
    <3> QED
      BY <3>1, <3>2 DEF SemInv
  <2>2. TypeOK'
    BY <1>2, <2>1 DEF SemWait, TypeOK, OwnerPc
  <2>3. SemInv' /\ LoopInv'
    BY <1>2, <2>1 DEF SemWait, TypeOK, SemInv, LoopInv
  <2> QED
    BY <2>2, <2>3
<1>3. ASSUME NEW e \in Objects, SemPost(e) PROVE IInv'
  <2>1. sem[e] = 0 /\ sem' = [sem EXCEPT ![e] = 1]
    <3>1. sem[e] = 0 /\ sem' = [sem EXCEPT ![e] = sem[e] + 1]
      BY <1>3 DEF SemPost, SemInv
    <3>2. sem[e] + 1 = 1
      BY <3>1
    <3> QED
      BY <3>1, <3>2
  <2>2. TypeOK'
    BY <1>3, <2>1 DEF SemPost, TypeOK, ThreadPc
  <2>3. SemInv' /\ LoopInv'
    BY <1>3, <2>1 DEF SemPost, TypeOK, SemInv, LoopInv
  <2> QED
    BY <2>2, <2>3
<1>4. ASSUME NEW e \in Objects, SetTid(e) \/ MakeLoop(e) \/ Publish(e) PROVE IInv'
  <2>1. TypeOK'
    BY <1>4 DEF SetTid, MakeLoop, Publish, TypeOK, ThreadPc
  <2>2. SemInv' /\ LoopInv'
    BY <1>4 DEF SetTid, MakeLoop, Publish, TypeOK, SemInv, LoopInv
  <2> QED
    BY <2>1, <2>2
<1>5. ASSUME NEW e \in Objects, Notify(e) PROVE IInv'
  <2>1. TypeOK'
    BY <1>5 DEF Notify, TypeOK, OwnerPc, ThreadPc
  <2>2. SemInv' /\ LoopInv'
    BY <1>5 DEF Notify, TypeOK, SemInv, LoopInv
  <2> QED
    BY <2>1, <2>2
<1>6. ASSUME NEW e \in Objects, LoopReturns(e) \/ ThreadLock(e) \/ ThreadExit(e)
      PROVE  IInv'
  <2>1. TypeOK'
    BY <1>6 DEF LoopReturns, ThreadLock, ThreadExit, TypeOK, ThreadPc
  <2>2. SemInv' /\ LoopInv'
    BY <1>6 DEF LoopReturns, ThreadLock, ThreadExit, TypeOK, SemInv, LoopInv
  <2> QED
    BY <2>1, <2>2
<1>7. CASE UNCHANGED vars
  BY <1>7 DEF vars, TypeOK, SemInv, LoopInv
<1> QED
  BY <1>1, <1>2, <1>3, <1>4, <1>5, <1>6, <1>7 DEF Next, OwnerStep, ThreadStep

\* TypeOK is an invariant of EventLoopThread.
THEOREM ThreadTypeCorrect == SafeSpec => []TypeOK
BY IInvInit, IInvStep, PTL DEF SafeSpec, IInv

\* StartedHasTid is an invariant: the semaphore keeps Thread::start from returning
\* before the new thread has its id.
THEOREM StartWaitsForTid == SafeSpec => []StartedHasTid
<1>1. IInv => StartedHasTid
  BY DEF IInv, SemInv, StartedHasTid
<1> QED
  BY <1>1, IInvInit, IInvStep, PTL DEF SafeSpec

\* LoopPointerValid is an invariant: loop_ points to a living EventLoop or nowhere.
THEOREM PublishedLoopLives == SafeSpec => []LoopPointerValid
<1>1. IInv => LoopPointerValid
  BY DEF IInv, LoopInv, LoopPointerValid
<1> QED
  BY <1>1, IInvInit, IInvStep, PTL DEF SafeSpec

=============================================================================
