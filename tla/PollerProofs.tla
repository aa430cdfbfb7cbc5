---------------------------- MODULE PollerProofs ----------------------------
(***************************************************************************)
(* The safety properties of Poller, for any number of channels and         *)
(* descriptors.                                                            *)
(***************************************************************************)
EXTENDS Poller, FiniteSetTheorems, TLAPS

-----------------------------------------------------------------------------
(* Types *)

\* update() keeps the interest list well-typed.
LEMMA UpdateType ==
  ASSUME TypeOK, NEW op, NEW c \in Channels, NEW ev \in SUBSET Interests,
         Update(op, c, ev)
  PROVE  /\ epollPtr' \in [Fds -> Channels \cup {NoChannel}]
         /\ epollMask' \in [Fds -> SUBSET Interests]
         /\ ctlFailed' \in BOOLEAN
<1> DEFINE fails == CtlError(op, FdOf[c])
           entry == IF op = "DEL" THEN <<NoChannel, {}>> ELSE <<c, ev>>
<1>1. entry[1] \in Channels \cup {NoChannel} /\ entry[2] \in SUBSET Interests
  OBVIOUS
<1>2. /\ ctlFailed' = (ctlFailed \/ fails)
      /\ epollPtr' = IF fails THEN epollPtr
                              ELSE [epollPtr EXCEPT ![FdOf[c]] = entry[1]]
      /\ epollMask' = IF fails THEN epollMask
                               ELSE [epollMask EXCEPT ![FdOf[c]] = entry[2]]
  BY DEF Update
<1> HIDE DEF fails, entry
<1>3. /\ epollPtr' \in [Fds -> Channels \cup {NoChannel}]
      /\ epollMask' \in [Fds -> SUBSET Interests]
  BY <1>1, <1>2 DEF TypeOK
<1>4. ctlFailed' \in BOOLEAN
  BY <1>2, Zenon
<1> QED
  BY <1>3, <1>4

\* The new value of events_ is a set of interests.
LEMMA NewEventsType ==
  ASSUME NEW ev \in SUBSET Interests PROVE NewEvents(ev) \subseteq SUBSET Interests
BY DEF NewEvents, Interests

\* Resize() returns a natural number.
LEMMA ResizeType ==
  ASSUME TypeOK, NEW n PROVE Resize(n) \in Nat
BY DEF TypeOK, Resize

\* Reported() is a set of conditions.
LEMMA ReportedType ==
  ASSUME TypeOK, NEW fd \in Fds PROVE Reported(fd) \in SUBSET Conditions
BY DEF TypeOK, Reported

\* TypeOK is an invariant of Poller.
THEOREM PollerTypeCorrect == SafeSpec => []TypeOK
<1> USE PollerAssumption
<1>1. Init => TypeOK
  <2>1. 0 \in Nat /\ kInitEventListSize \in Nat
    OBVIOUS
  <2> QED
    BY <2>1 DEF Init, TypeOK, Index
<1>2. TypeOK /\ [Next]_vars => TypeOK'
  <2> SUFFICES ASSUME TypeOK, [Next]_vars PROVE TypeOK'
    OBVIOUS
  <2> USE DEF channelVars, pollerVars, dispatchVars
  <2>1. ASSUME NEW c \in Channels, SetEvents(c) PROVE TypeOK'
    <3>1. PICK ev \in SUBSET Interests : UpdateChannel(c, ev)
      BY <2>1, NewEventsType DEF SetEvents, TypeOK
    <3>2. \E op : Update(op, c, ev)
      BY <3>1 DEF UpdateChannel
    <3>3. /\ epollPtr' \in [Fds -> Channels \cup {NoChannel}]
          /\ epollMask' \in [Fds -> SUBSET Interests]
          /\ ctlFailed' \in BOOLEAN
      BY <3>2, UpdateType
    <3>4. /\ addedToLoop_' \in [Channels -> BOOLEAN]
          /\ events_' \in [Channels -> SUBSET Interests]
          /\ channels_' \in [Fds -> Channels \cup {NoChannel}]
          /\ index_' \in [Channels -> Index]
      BY <3>1 DEF UpdateChannel, TypeOK, Index
    <3> QED
      BY <2>1, <3>3, <3>4 DEF SetEvents, TypeOK
  <2>2. ASSUME NEW c \in Channels, Remove(c) PROVE TypeOK'
    <3>0. withdrawn' \in SUBSET Channels
      BY <2>2 DEF Remove, TypeOK
    <3>1. /\ epollPtr' \in [Fds -> Channels \cup {NoChannel}]
          /\ epollMask' \in [Fds -> SUBSET Interests]
          /\ ctlFailed' \in BOOLEAN
      <4>1. CASE index_[c] = "kAdded"
        BY <2>2, <4>1, UpdateType DEF Remove, DelIfAdded
      <4>2. CASE index_[c] # "kAdded"
        BY <2>2, <4>2 DEF Remove, DelIfAdded, TypeOK
      <4> QED
        BY <4>1, <4>2
    <3>2. /\ addedToLoop_' \in [Channels -> BOOLEAN]
          /\ channels_' \in [Fds -> Channels \cup {NoChannel}]
          /\ index_' \in [Channels -> Index]
      BY <2>2 DEF Remove, TypeOK, Index
    <3> QED
      BY <2>2, <3>0, <3>1, <3>2 DEF Remove, TypeOK
  <2>3. ASSUME NEW c \in Channels, Create(c) PROVE TypeOK'
    BY <2>3 DEF Create, TypeOK, Index
  <2>4. ASSUME NEW c \in Channels, Destroy(c) PROVE TypeOK'
    BY <2>4 DEF Destroy, TypeOK, Index
  <2>5. CASE PollerPoll
    <3>1. PICK got \in SUBSET ReadyFds :
            /\ activeChannels_' = FillActiveChannels(got)
            /\ revents_' = [c \in Channels |->
                              IF c \in activeChannels_' THEN Reported(FdOf[c])
                                                        ELSE revents_[c]]
            /\ eventListSize' = Resize(Cardinality(got))
      BY <2>5 DEF PollerPoll
    <3>2. activeChannels_' \in SUBSET Channels
      BY <3>1 DEF FillActiveChannels, ReadyFds, Reported, TypeOK
    <3>3. revents_' \in [Channels -> SUBSET Conditions]
      BY <3>1, ReportedType DEF TypeOK
    <3>4. eventListSize' \in Nat
      BY <3>1, ResizeType
    <3> QED
      BY <2>5, <3>2, <3>3, <3>4 DEF PollerPoll, TypeOK
  <2>6. ASSUME NEW c \in Channels, HandleEvent(c) PROVE TypeOK'
    BY <2>6 DEF HandleEvent, TypeOK, Callbacks
  <2>7. CASE NextCallback
    BY <2>7 DEF NextCallback, TypeOK
  <2>8. CASE HandlerReturn
    BY <2>8 DEF HandlerReturn, TypeOK
  <2>9. ASSUME NEW fd \in Fds, KernelChange(fd) PROVE TypeOK'
    BY <2>9 DEF KernelChange, TypeOK
  <2>10. CASE UNCHANGED vars
    BY <2>10 DEF vars, TypeOK
  <2> QED
    BY <2>1, <2>2, <2>3, <2>4, <2>5, <2>6, <2>7, <2>8, <2>9, <2>10
    DEF Next, LoopStep, UserCode
<1> QED
  BY <1>1, <1>2, PTL DEF SafeSpec

-----------------------------------------------------------------------------
(* Registration *)

\* A descriptor belongs to one channel at a time: it is closed only with it.
OneChannelPerFd == \A c, d \in alive : FdOf[c] = FdOf[d] => c = d

\* Map and interest list hold a channel under its own descriptor.
UnderOwnFd ==
  \A fd \in Fds :
    /\ channels_[fd] # NoChannel => FdOf[channels_[fd]] = fd
    /\ epollPtr[fd] # NoChannel => FdOf[epollPtr[fd]] = fd

\* The inductive invariant behind RegistrationAgrees and CtlNeverFails.
RegInv == RegistrationAgrees /\ CtlNeverFails /\ OneChannelPerFd /\ UnderOwnFd

\* The descriptor of a living channel is in the interest list for that channel
\* or not at all, so ADD succeeds unless the channel is kAdded.
LEMMA FdFree ==
  ASSUME TypeOK, RegInv, NEW c \in alive
  PROVE  epollPtr[FdOf[c]] = IF index_[c] = "kAdded" THEN c ELSE NoChannel
<1> USE PollerAssumption
<1>1. c \in Channels /\ FdOf[c] \in Fds
  BY DEF TypeOK
<1>2. CASE index_[c] = "kAdded"
  BY <1>1, <1>2 DEF RegInv, RegistrationAgrees
<1>3. CASE index_[c] # "kAdded"
  <2> SUFFICES ASSUME epollPtr[FdOf[c]] # NoChannel PROVE FALSE
    BY <1>3
  <2>1. epollPtr[FdOf[c]] \in alive
    BY <1>1 DEF RegInv, RegistrationAgrees
  <2>2. FdOf[epollPtr[FdOf[c]]] = FdOf[c]
    BY <1>1 DEF RegInv, UnderOwnFd
  <2>3. epollPtr[FdOf[c]] = c
    BY <2>1, <2>2 DEF RegInv, OneChannelPerFd
  <2> QED
    BY <1>3, <2>3 DEF RegInv, RegistrationAgrees
<1> QED
  BY <1>2, <1>3

\* Steps that leave the fields of the other channels alone, and the entries of the
\* other descriptors.
OthersKept(c) ==
  \A d \in Channels \ {c} : /\ d \in alive <=> d \in alive'
                            /\ events_'[d] = events_[d]
                            /\ index_'[d] = index_[d]
                            /\ addedToLoop_'[d] = addedToLoop_[d]

OtherFdsKept(c) ==
  \A fd \in Fds \ {FdOf[c]} : /\ channels_'[fd] = channels_[fd]
                              /\ epollPtr'[fd] = epollPtr[fd]
                              /\ epollMask'[fd] = epollMask[fd]

\* Entries of descriptors other than those of c, and the fields of channels other
\* than c, do not matter to each other: a step that touches only c and its
\* descriptor keeps RegInv if it leaves c in order.
LEMMA LocalChange ==
  ASSUME TypeOK, TypeOK', RegInv, NEW c \in Channels,
         OthersKept(c), OtherFdsKept(c),
         \A d \in alive : d # c => FdOf[d] # FdOf[c],
         c \in alive' =>
           /\ addedToLoop_'[c] <=> index_'[c] # "kNew"
           /\ channels_'[FdOf[c]] = c <=> index_'[c] # "kNew"
           /\ epollPtr'[FdOf[c]] = c <=> index_'[c] = "kAdded"
           /\ index_'[c] = "kAdded" => epollMask'[FdOf[c]] = events_'[c],
         {channels_'[FdOf[c]], epollPtr'[FdOf[c]]} \subseteq {NoChannel} \cup ({c} \cap alive'),
         ~ctlFailed'
  PROVE  RegInv'
<1> USE PollerAssumption DEF OthersKept, OtherFdsKept
<1>1. FdOf[c] \in Fds /\ alive \subseteq Channels /\ alive' \subseteq Channels
  BY DEF TypeOK
<1>2. OneChannelPerFd'
  BY <1>1 DEF RegInv, OneChannelPerFd
<1>3. UnderOwnFd'
  BY <1>1 DEF RegInv, UnderOwnFd
<1>4. ASSUME NEW d \in alive'
      PROVE  /\ addedToLoop_'[d] <=> index_'[d] # "kNew"
             /\ channels_'[FdOf[d]] = d <=> index_'[d] # "kNew"
             /\ epollPtr'[FdOf[d]] = d <=> index_'[d] = "kAdded"
             /\ index_'[d] = "kAdded" => epollMask'[FdOf[d]] = events_'[d]
  <2>1. CASE d = c
    BY <2>1
  <2>2. CASE d # c
    <3>1. d \in alive /\ FdOf[d] \in Fds \ {FdOf[c]}
      BY <1>1, <2>2
    <3> QED
      BY <1>1, <2>2, <3>1 DEF RegInv, RegistrationAgrees, HasChannel
  <2> QED
    BY <2>1, <2>2
<1>5. ASSUME NEW fd \in Fds
      PROVE  {channels_'[fd], epollPtr'[fd]} \subseteq alive' \cup {NoChannel}
  <2>1. CASE fd = FdOf[c]
    BY <2>1
  <2>2. CASE fd # FdOf[c]
    <3>1. /\ {channels_[fd], epollPtr[fd]} \subseteq alive \cup {NoChannel}
          /\ channels_[fd] # c /\ epollPtr[fd] # c
      BY <2>2 DEF RegInv, RegistrationAgrees, UnderOwnFd
    <3> QED
      BY <1>1, <2>2, <3>1
  <2> QED
    BY <2>1, <2>2
<1> QED
  BY <1>2, <1>3, <1>4, <1>5 DEF RegInv, RegistrationAgrees, HasChannel, CtlNeverFails

\* RegInv is preserved by every step.
LEMMA RegStep == TypeOK /\ TypeOK' /\ RegInv /\ [Next]_vars => RegInv'
<1> SUFFICES ASSUME TypeOK, TypeOK', RegInv, [Next]_vars PROVE RegInv'
  OBVIOUS
<1> USE PollerAssumption DEF channelVars, pollerVars, dispatchVars
<1>0. ~ctlFailed /\ alive \subseteq Channels
  BY DEF RegInv, CtlNeverFails, TypeOK
<1>1. ASSUME NEW c \in Channels, SetEvents(c) PROVE RegInv'
  <2>1. PICK ev : UpdateChannel(c, ev)
    BY <1>1 DEF SetEvents
  <2>2. c \in alive /\ alive' = alive /\ FdOf[c] \in Fds
    BY <1>1 DEF SetEvents
  <2>3. \A d \in alive : d # c => FdOf[d] # FdOf[c]
    BY <2>2 DEF RegInv, OneChannelPerFd
  <2>4. HasChannel(c) <=> index_[c] # "kNew"
    BY <2>2 DEF RegInv, RegistrationAgrees
  <2>5. epollPtr[FdOf[c]] = IF index_[c] = "kAdded" THEN c ELSE NoChannel
    BY <2>2, FdFree
  <2>6. CASE index_[c] \in {"kNew", "kDeleted"}
    <3>1. ~CtlError("ADD", FdOf[c])
      BY <2>5, <2>6 DEF CtlError
    <3>2. /\ epollPtr' = [epollPtr EXCEPT ![FdOf[c]] = c]
          /\ epollMask' = [epollMask EXCEPT ![FdOf[c]] = ev]
          /\ ~ctlFailed'
      BY <2>1, <2>6, <3>1, <1>0 DEF UpdateChannel, Update
    <3>3. /\ channels_' = [channels_ EXCEPT ![FdOf[c]] = c]
          /\ index_' = [index_ EXCEPT ![c] = "kAdded"]
          /\ addedToLoop_' = [addedToLoop_ EXCEPT ![c] = TRUE]
          /\ events_' = [events_ EXCEPT ![c] = ev]
      BY <2>1, <2>2, <2>4, <2>6 DEF UpdateChannel, HasChannel, TypeOK
    <3>4. OthersKept(c)
      BY <2>2, <3>3 DEF TypeOK, OthersKept
    <3>5. OtherFdsKept(c)
      BY <3>2, <3>3 DEF TypeOK, OtherFdsKept
    <3>6. /\ addedToLoop_'[c] /\ index_'[c] = "kAdded" /\ events_'[c] = ev
          /\ channels_'[FdOf[c]] = c /\ epollPtr'[FdOf[c]] = c
          /\ epollMask'[FdOf[c]] = ev
      BY <2>2, <3>2, <3>3 DEF TypeOK
    <3> QED
      BY <2>2, <2>3, <3>2, <3>4, <3>5, <3>6, LocalChange
  <2>7. CASE index_[c] = "kAdded" /\ ev = {}
    <3>1. ~CtlError("DEL", FdOf[c])
      BY <2>2, <2>5, <2>7 DEF CtlError
    <3>2. /\ epollPtr' = [epollPtr EXCEPT ![FdOf[c]] = NoChannel]
          /\ epollMask' = [epollMask EXCEPT ![FdOf[c]] = {}]
          /\ ~ctlFailed'
      BY <2>1, <2>7, <3>1, <1>0 DEF UpdateChannel, Update
    <3>3. /\ channels_' = channels_
          /\ index_' = [index_ EXCEPT ![c] = "kDeleted"]
          /\ addedToLoop_' = [addedToLoop_ EXCEPT ![c] = TRUE]
          /\ events_' = [events_ EXCEPT ![c] = ev]
      BY <2>1, <2>7 DEF UpdateChannel
    <3>4. OthersKept(c)
      BY <2>2, <3>3 DEF TypeOK, OthersKept
    <3>5. OtherFdsKept(c)
      BY <3>2, <3>3 DEF TypeOK, OtherFdsKept
    <3>6. /\ addedToLoop_'[c] /\ index_'[c] = "kDeleted"
          /\ channels_'[FdOf[c]] = c /\ epollPtr'[FdOf[c]] = NoChannel
      BY <2>2, <2>4, <2>7, <3>2, <3>3 DEF TypeOK, HasChannel
    <3> QED
      BY <2>2, <2>3, <3>2, <3>4, <3>5, <3>6, LocalChange
  <2>8. CASE index_[c] = "kAdded" /\ ev # {}
    <3>1. ~CtlError("MOD", FdOf[c])
      BY <2>2, <2>5, <2>8 DEF CtlError
    <3>2. /\ epollPtr' = [epollPtr EXCEPT ![FdOf[c]] = c]
          /\ epollMask' = [epollMask EXCEPT ![FdOf[c]] = ev]
          /\ ~ctlFailed'
      BY <2>1, <2>8, <3>1, <1>0 DEF UpdateChannel, Update
    <3>3. /\ UNCHANGED <<channels_, index_>>
          /\ addedToLoop_' = [addedToLoop_ EXCEPT ![c] = TRUE]
          /\ events_' = [events_ EXCEPT ![c] = ev]
      BY <2>1, <2>8 DEF UpdateChannel
    <3>4. OthersKept(c)
      BY <2>2, <3>3 DEF TypeOK, OthersKept
    <3>5. OtherFdsKept(c)
      BY <3>2, <3>3 DEF TypeOK, OtherFdsKept
    <3>6. /\ addedToLoop_'[c] /\ index_'[c] = "kAdded" /\ events_'[c] = ev
          /\ channels_'[FdOf[c]] = c /\ epollPtr'[FdOf[c]] = c
          /\ epollMask'[FdOf[c]] = ev
      BY <2>2, <2>4, <2>8, <3>2, <3>3 DEF TypeOK, HasChannel
    <3> QED
      BY <2>2, <2>3, <3>2, <3>4, <3>5, <3>6, LocalChange
  <2> QED
    BY <2>2, <2>6, <2>7, <2>8 DEF TypeOK, Index
<1>2. ASSUME NEW c \in Channels, Remove(c) PROVE RegInv'
  <2>1. c \in alive /\ alive' = alive /\ events_' = events_ /\ FdOf[c] \in Fds
    BY <1>2 DEF Remove
  <2>2. \A d \in alive : d # c => FdOf[d] # FdOf[c]
    BY <2>1 DEF RegInv, OneChannelPerFd
  <2>3. epollPtr[FdOf[c]] = IF index_[c] = "kAdded" THEN c ELSE NoChannel
    BY <2>1, FdFree
  <2>4. /\ epollPtr' = [epollPtr EXCEPT ![FdOf[c]] = NoChannel]
        /\ \A fd \in Fds \ {FdOf[c]} : epollMask'[fd] = epollMask[fd]
        /\ ~ctlFailed'
    <3>1. CASE index_[c] = "kAdded"
      <4>1. ~CtlError("DEL", FdOf[c])
        BY <2>1, <2>3, <3>1 DEF CtlError
      <4> QED
        BY <1>0, <1>2, <2>1, <3>1, <4>1 DEF Remove, DelIfAdded, Update, TypeOK
    <3>2. CASE index_[c] # "kAdded"
      BY <1>0, <1>2, <2>3, <3>2 DEF Remove, DelIfAdded, TypeOK
    <3> QED
      BY <3>1, <3>2
  <2>5. /\ channels_' = [channels_ EXCEPT ![FdOf[c]] = NoChannel]
        /\ index_' = [index_ EXCEPT ![c] = "kNew"]
        /\ addedToLoop_' = [addedToLoop_ EXCEPT ![c] = FALSE]
    BY <1>2 DEF Remove
  <2>6. OthersKept(c) /\ OtherFdsKept(c)
    BY <2>1, <2>4, <2>5 DEF TypeOK, OthersKept, OtherFdsKept
  <2>7. /\ ~addedToLoop_'[c] /\ index_'[c] = "kNew"
        /\ channels_'[FdOf[c]] = NoChannel /\ epollPtr'[FdOf[c]] = NoChannel
    BY <2>1, <2>4, <2>5 DEF TypeOK
  <2> QED
    BY <2>2, <2>4, <2>6, <2>7, LocalChange
<1>3. ASSUME NEW c \in Channels, Create(c) PROVE RegInv'
  <2>1. /\ c \notin alive /\ alive' = alive \cup {c} /\ FdOf[c] \in Fds
        /\ \A d \in alive : d # c => FdOf[d] # FdOf[c]
        /\ UNCHANGED <<channels_, epollPtr, epollMask, ctlFailed>>
    BY <1>3 DEF Create
  <2>2. channels_[FdOf[c]] = NoChannel /\ epollPtr[FdOf[c]] = NoChannel
    BY <1>0, <1>3, <2>1 DEF Create, RegInv, RegistrationAgrees, UnderOwnFd
  <2>3. /\ events_' = [events_ EXCEPT ![c] = {}]
        /\ index_' = [index_ EXCEPT ![c] = "kNew"]
        /\ addedToLoop_' = [addedToLoop_ EXCEPT ![c] = FALSE]
    BY <1>3 DEF Create
  <2>4. OthersKept(c) /\ OtherFdsKept(c)
    BY <2>1, <2>3 DEF TypeOK, OthersKept, OtherFdsKept
  <2>5. /\ ~addedToLoop_'[c] /\ index_'[c] = "kNew"
        /\ channels_'[FdOf[c]] = NoChannel /\ epollPtr'[FdOf[c]] = NoChannel
    BY <2>1, <2>2, <2>3 DEF TypeOK
  <2> QED
    BY <1>0, <2>1, <2>4, <2>5, LocalChange
<1>4. ASSUME NEW c \in Channels, Destroy(c) PROVE RegInv'
  <2>1. /\ c \in alive /\ alive' = alive \ {c} /\ FdOf[c] \in Fds
        /\ ~addedToLoop_[c]
        /\ UNCHANGED <<addedToLoop_, channels_, ctlFailed>>
    BY <1>4 DEF Destroy
  <2>2. \A d \in alive : d # c => FdOf[d] # FdOf[c]
    BY <2>1 DEF RegInv, OneChannelPerFd
  <2>3. channels_[FdOf[c]] = NoChannel
    <3> SUFFICES ASSUME channels_[FdOf[c]] # NoChannel PROVE FALSE
      OBVIOUS
    <3>1. channels_[FdOf[c]] \in alive /\ FdOf[channels_[FdOf[c]]] = FdOf[c]
      BY <2>1 DEF RegInv, RegistrationAgrees, UnderOwnFd
    <3>2. channels_[FdOf[c]] = c
      BY <2>2, <3>1
    <3> QED
      BY <2>1, <3>2 DEF RegInv, RegistrationAgrees, HasChannel
  <2>4. /\ events_' = [events_ EXCEPT ![c] = {}]
        /\ index_' = [index_ EXCEPT ![c] = "kNew"]
        /\ epollPtr' = [epollPtr EXCEPT ![FdOf[c]] = NoChannel]
        /\ epollMask' = [epollMask EXCEPT ![FdOf[c]] = {}]
    BY <1>4 DEF Destroy
  <2>5. OthersKept(c) /\ OtherFdsKept(c)
    BY <2>1, <2>4 DEF TypeOK, OthersKept, OtherFdsKept
  <2>6. channels_'[FdOf[c]] = NoChannel /\ epollPtr'[FdOf[c]] = NoChannel
    BY <2>1, <2>3, <2>4 DEF TypeOK
  <2> QED
    BY <1>0, <2>1, <2>2, <2>5, <2>6, LocalChange
<1>5. CASE UNCHANGED <<channelVars, pollerVars>>
  BY <1>5 DEF RegInv, RegistrationAgrees, HasChannel, CtlNeverFails, OneChannelPerFd,
     UnderOwnFd
<1> QED
  BY <1>1, <1>2, <1>3, <1>4, <1>5 DEF Next, LoopStep, UserCode, PollerPoll, HandleEvent,
     NextCallback, HandlerReturn, KernelChange, vars

\* RegInv is an invariant.
LEMMA RegAlways == SafeSpec => []RegInv
<1>1. Init => RegInv
  BY PollerAssumption DEF Init, RegInv, RegistrationAgrees, CtlNeverFails,
     OneChannelPerFd, UnderOwnFd
<1> QED
  BY <1>1, RegStep, PollerTypeCorrect, PTL DEF SafeSpec

\* RegistrationAgrees is an invariant of Poller: the channel, the poller and the
\* kernel agree on what is watched, and none of them names a destroyed channel.
THEOREM RegistrationStaysConsistent == SafeSpec => []RegistrationAgrees
BY RegAlways, PTL DEF RegInv

\* CtlNeverFails is an invariant of Poller: epoll_ctl gets no request it refuses.
THEOREM EpollCtlSucceeds == SafeSpec => []CtlNeverFails
BY RegAlways, PTL DEF RegInv

-----------------------------------------------------------------------------
(* Dispatch *)

\* DispatchesRegistered is an invariant of Poller: whatever a handler does, creating,
\* changing, removing and destroying channels, the channels left to dispatch exist and
\* are known to the poller, but for those it has itself called remove() on.
THEOREM DispatchIsSafe == SafeSpec => []DispatchesRegistered
<1>1. Init => DispatchesRegistered
  BY DEF Init, DispatchesRegistered
<1>2. TypeOK /\ RegInv /\ DispatchesRegistered /\ [Next]_vars => DispatchesRegistered'
  <2> SUFFICES ASSUME TypeOK, RegInv, DispatchesRegistered, [Next]_vars
               PROVE  DispatchesRegistered'
    OBVIOUS
  <2> USE PollerAssumption DEF channelVars, pollerVars, dispatchVars
  <2>0. /\ alive \subseteq Channels /\ activeChannels_ \subseteq Channels
        /\ \A c \in activeChannels_ \ withdrawn : c \in alive /\ channels_[FdOf[c]] = c
        /\ \A c \in activeChannels_ : revents_[c] # {}
    BY DEF TypeOK, DispatchesRegistered, HasChannel
  <2>1. CASE PollerPoll
    <3>1. PICK got \in SUBSET ReadyFds :
            /\ activeChannels_' = {epollPtr[fd] : fd \in got}
            /\ revents_' = [c \in Channels |->
                              IF c \in activeChannels_' THEN Reported(FdOf[c])
                                                        ELSE revents_[c]]
      BY <2>1 DEF PollerPoll, FillActiveChannels
    <3>2. ASSUME NEW fd \in got
          PROVE  /\ epollPtr[fd] \in alive /\ FdOf[epollPtr[fd]] = fd
                 /\ HasChannel(epollPtr[fd]) /\ Reported(fd) # {}
      <4>1. fd \in Fds /\ epollPtr[fd] # NoChannel /\ Reported(fd) # {}
        BY <3>2 DEF ReadyFds, Reported
      <4>2. epollPtr[fd] \in alive /\ FdOf[epollPtr[fd]] = fd
        BY <4>1 DEF RegInv, RegistrationAgrees, UnderOwnFd
      <4> QED
        BY <4>1, <4>2 DEF RegInv, RegistrationAgrees
    <3>3. UNCHANGED <<alive, channels_>>
      BY <2>1 DEF PollerPoll
    <3>4. ASSUME NEW c \in activeChannels_'
          PROVE  c \in alive' /\ HasChannel(c)' /\ revents_'[c] # {}
      <4>1. PICK fd \in got : c = epollPtr[fd]
        BY <3>1
      <4>2. c \in Channels /\ FdOf[c] = fd
        BY <2>0, <3>2, <4>1
      <4>3. revents_'[c] = Reported(fd)
        BY <3>1, <4>2
      <4> QED
        BY <3>2, <3>3, <4>1, <4>3 DEF HasChannel
    <3> QED
      BY <3>4 DEF DispatchesRegistered
  <2>2. ASSUME NEW c \in Channels, SetEvents(c) PROVE DispatchesRegistered'
    <3>1. UNCHANGED <<alive, revents_, activeChannels_, withdrawn>>
      BY <2>2 DEF SetEvents
    <3>2. channels_' = [channels_ EXCEPT ![FdOf[c]] = c] \/ channels_' = channels_
      BY <2>2 DEF SetEvents, UpdateChannel
    <3>3. c \in alive
      BY <2>2 DEF SetEvents
    <3>4. \A d \in activeChannels_ \ withdrawn : d # c => FdOf[d] # FdOf[c]
      BY <2>0, <3>3 DEF RegInv, OneChannelPerFd
    <3> QED
      BY <2>0, <3>1, <3>2, <3>4 DEF DispatchesRegistered, HasChannel, TypeOK
  <2>3. ASSUME NEW c \in Channels, Remove(c) PROVE DispatchesRegistered'
    <3>1. /\ UNCHANGED <<alive, revents_, activeChannels_>>
          /\ withdrawn' = withdrawn \cup ({c} \cap activeChannels_)
          /\ channels_' = [channels_ EXCEPT ![FdOf[c]] = NoChannel]
          /\ c \in alive
      BY <2>3 DEF Remove
    <3>2. \A d \in activeChannels_ \ withdrawn : d # c => FdOf[d] # FdOf[c]
      BY <2>0, <3>1 DEF RegInv, OneChannelPerFd
    <3> QED
      BY <2>0, <3>1, <3>2 DEF DispatchesRegistered, HasChannel, TypeOK
  <2>4. ASSUME NEW c \in Channels, Destroy(c) PROVE DispatchesRegistered'
    <3>1. /\ UNCHANGED <<channels_, revents_, activeChannels_, withdrawn>>
          /\ alive' = alive \ {c}
          /\ c \in alive /\ ~addedToLoop_[c]
      BY <2>4 DEF Destroy
    <3>2. ~HasChannel(c)
      BY <3>1 DEF RegInv, RegistrationAgrees
    <3>3. c \notin activeChannels_ \ withdrawn
      BY <3>2 DEF DispatchesRegistered
    <3> QED
      BY <2>0, <3>1, <3>3 DEF DispatchesRegistered, HasChannel
  <2>5. ASSUME NEW c \in Channels, Create(c) PROVE DispatchesRegistered'
    <3>1. c \notin activeChannels_
      BY <2>5 DEF Create
    <3> QED
      BY <2>0, <2>5, <3>1 DEF Create, DispatchesRegistered, HasChannel, TypeOK
  <2>6. CASE HandlerReturn
    BY <2>0, <2>6 DEF HandlerReturn, DispatchesRegistered, HasChannel, TypeOK
  <2>7. CASE \/ \E c \in Channels : HandleEvent(c)
             \/ NextCallback
             \/ \E fd \in Fds : KernelChange(fd)
             \/ UNCHANGED vars
    BY <2>7 DEF HandleEvent, NextCallback, KernelChange, vars, DispatchesRegistered,
       HasChannel
  <2> QED
    BY <2>1, <2>2, <2>3, <2>4, <2>5, <2>6, <2>7 DEF Next, LoopStep, UserCode
<1> QED
  BY <1>1, <1>2, PollerTypeCorrect, RegAlways, PTL DEF SafeSpec

\* EventListBounded is an invariant of Poller: doubling events_ stops by itself.
THEOREM EventListStaysBounded == SafeSpec => []EventListBounded
<1>1. Init => EventListBounded
  BY PollerAssumption DEF Init, EventListBounded
<1>2. TypeOK /\ EventListBounded /\ [Next]_vars => EventListBounded'
  <2> SUFFICES ASSUME TypeOK, EventListBounded, [Next]_vars PROVE EventListBounded'
    OBVIOUS
  <2> USE DEF channelVars, pollerVars, dispatchVars
  <2>1. CASE PollerPoll
    <3>1. PICK got \in SUBSET ReadyFds : eventListSize' = Resize(Cardinality(got))
      BY <2>1 DEF PollerPoll
    <3>2. /\ Cardinality(got) \in Nat /\ Cardinality(Fds) \in Nat
          /\ Cardinality(got) <= Cardinality(Fds)
      <4>1. got \subseteq Fds
        BY DEF ReadyFds
      <4> QED
        BY <4>1, PollerAssumption, FS_Subset, FS_CardinalityType
    <3> QED
      BY <3>1, <3>2, PollerAssumption DEF Resize, EventListBounded, TypeOK
  <2>2. CASE UNCHANGED eventListSize
    BY <2>2 DEF EventListBounded
  <2> QED
    BY <2>1, <2>2 DEF Next, LoopStep, UserCode, HandleEvent, NextCallback, HandlerReturn,
       SetEvents, Remove, Create, Destroy, KernelChange, vars
<1> QED
  BY <1>1, <1>2, PollerTypeCorrect, PTL DEF SafeSpec

=============================================================================
