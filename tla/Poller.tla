------------------------------- MODULE Poller -------------------------------
(***************************************************************************)
(* Channel, Poller and EpollPoller, with the parts of EventLoop between    *)
(* them (updateChannel, removeChannel, the dispatch in loop()).            *)
(*                                                                         *)
(* Four places record whether and for what a channel is watched: the       *)
(* channel's own events_ and addedToLoop_, its index_ (the poller's        *)
(* note in the channel), the poller's map channels_, and the interest list *)
(* in the kernel, which holds a raw Channel*.  File descriptors are        *)
(* reused: a channel may be made for a descriptor that an earlier, by now  *)
(* destroyed, channel had.                                                 *)
(*                                                                         *)
(* Everything runs on the loop's thread.  Handlers and functors are code   *)
(* of the users; they may at any time create channels, change what a       *)
(* channel is interested in, and remove and destroy channels, also such as *)
(* are still to be dispatched: connectDestroyed() is queued, but a         *)
(* TcpServer destroyed in a handler takes its connections and its acceptor *)
(* with it at once.  A member function called on a destroyed channel is    *)
(* undefined; the dispatch stops there.                                    *)
(***************************************************************************)
EXTENDS Naturals, Sequences, FiniteSets

CONSTANTS
  Channels,             \* the Channel objects ever made
  Conditions,           \* the conditions that arise at descriptors
  Fds,                  \* the file descriptors
  FdOf,                 \* fd_ of each channel
  NoChannel,            \* nullptr
  kInitEventListSize

ASSUME PollerAssumption ==
  /\ IsFiniteSet(Fds)
  /\ FdOf \in [Channels -> Fds]
  /\ NoChannel \notin Channels
  /\ Conditions \subseteq {"in", "out", "hup", "err"}
  /\ kInitEventListSize \in Nat \ {0}

VARIABLES
  alive,                \* the channels that exist
  events_, revents_, index_, addedToLoop_,      \* fields of Channel
  channels_,            \* Poller::channels_
  eventListSize,        \* EpollPoller::events_.size()
  epollPtr, epollMask,  \* the kernel's interest list, by descriptor
  ctlFailed,            \* history: some epoll_ctl has failed
  ready,                \* the conditions the kernel sees at each descriptor
  activeChannels_,      \* those whose handleEvent() is still to come
  currentActiveChannel_,
  callbacks,            \* the callbacks handleEventWithGuard() still owes
  withdrawn             \* history: removed while still to be dispatched

channelVars == <<alive, events_, index_, addedToLoop_>>
pollerVars == <<channels_, epollPtr, epollMask, ctlFailed>>
dispatchVars == <<revents_, eventListSize, activeChannels_,
                  currentActiveChannel_, callbacks>>
vars == <<channelVars, pollerVars, dispatchVars, ready, withdrawn>>

\* EPOLLIN | EPOLLPRI, EPOLLOUT, and the two that epoll reports unasked.
kReadEvent == {"in"}
kWriteEvent == {"out"}
Interests == kReadEvent \cup kWriteEvent
Unasked == {"hup", "err"}

Index == {"kNew", "kAdded", "kDeleted"}
CallbackOrder == <<"close", "error", "read", "write">>
CallbackKinds == {"close", "error", "read", "write"}

TypeOK ==
  /\ alive \in SUBSET Channels
  /\ events_ \in [Channels -> SUBSET Interests]
  /\ revents_ \in [Channels -> SUBSET Conditions]
  /\ index_ \in [Channels -> Index]
  /\ addedToLoop_ \in [Channels -> BOOLEAN]
  /\ channels_ \in [Fds -> Channels \cup {NoChannel}]
  /\ eventListSize \in Nat
  /\ epollPtr \in [Fds -> Channels \cup {NoChannel}]
  /\ epollMask \in [Fds -> SUBSET Interests]
  /\ ctlFailed \in BOOLEAN
  /\ ready \in [Fds -> SUBSET Conditions]
  /\ activeChannels_ \in SUBSET Channels
  /\ currentActiveChannel_ \in Channels \cup {NoChannel}
  /\ callbacks \in SUBSET CallbackKinds
  /\ withdrawn \in SUBSET Channels

Init ==
  /\ alive = {}
  /\ events_ = [c \in Channels |-> {}]
  /\ revents_ = [c \in Channels |-> {}]
  /\ index_ = [c \in Channels |-> "kNew"]
  /\ addedToLoop_ = [c \in Channels |-> FALSE]
  /\ channels_ = [f \in Fds |-> NoChannel]
  /\ eventListSize = kInitEventListSize
  /\ epollPtr = [f \in Fds |-> NoChannel]
  /\ epollMask = [f \in Fds |-> {}]
  /\ ctlFailed = FALSE
  /\ ready = [f \in Fds |-> {}]
  /\ activeChannels_ = {}
  /\ currentActiveChannel_ = NoChannel
  /\ callbacks = {}
  /\ withdrawn = {}

InHandler == currentActiveChannel_ # NoChannel

\* Handlers and functors run in turn; between two handlers there is no user code.
InUserCode == InHandler \/ activeChannels_ = {}

\* Poller::hasChannel
HasChannel(c) == channels_[FdOf[c]] = c

-----------------------------------------------------------------------------
(* epoll_ctl *)

\* EEXIST and ENOENT.
CtlError(op, fd) == (op = "ADD") = (epollPtr[fd] # NoChannel)

\* EpollPoller::update.  An error is logged (LOG_FATAL too returns) and the
\* interest list stays as it was.
Update(op, c, ev) ==
  LET fd == FdOf[c]
      fails == CtlError(op, fd)
      entry == IF op = "DEL" THEN <<NoChannel, {}>> ELSE <<c, ev>>
  IN /\ ctlFailed' = (ctlFailed \/ fails)
     /\ epollPtr' = IF fails THEN epollPtr ELSE [epollPtr EXCEPT ![fd] = entry[1]]
     /\ epollMask' = IF fails THEN epollMask ELSE [epollMask EXCEPT ![fd] = entry[2]]

-----------------------------------------------------------------------------
(* Channel and EpollPoller *)

\* Faulty variant: a channel that goes back to kAdded is not told apart from one
\* that is there already.
UpdateChannel_ForgetsDeleted(c, ev) ==
  /\ addedToLoop_' = [addedToLoop_ EXCEPT ![c] = TRUE]
  /\ events_' = [events_ EXCEPT ![c] = ev]
  /\ \/ /\ index_[c] = "kNew"
        /\ channels_' = [channels_ EXCEPT ![FdOf[c]] = c]
        /\ index_' = [index_ EXCEPT ![c] = "kAdded"]
        /\ Update("ADD", c, ev)
     \/ /\ index_[c] # "kNew"
        /\ index_' = [index_ EXCEPT ![c] = IF ev = {} THEN "kDeleted" ELSE "kAdded"]
        /\ Update(IF ev = {} THEN "DEL" ELSE "MOD", c, ev)
        /\ UNCHANGED channels_

\* Channel::update and EpollPoller::updateChannel, with the new value ev of events_.
UpdateChannel(c, ev) ==
  /\ addedToLoop_' = [addedToLoop_ EXCEPT ![c] = TRUE]
  /\ events_' = [events_ EXCEPT ![c] = ev]
  /\ \/ /\ index_[c] \in {"kNew", "kDeleted"}
        /\ channels_' = IF index_[c] = "kNew" THEN [channels_ EXCEPT ![FdOf[c]] = c]
                                              ELSE channels_
        /\ index_' = [index_ EXCEPT ![c] = "kAdded"]
        /\ Update("ADD", c, ev)
     \/ /\ index_[c] = "kAdded"
        /\ ev = {}
        /\ Update("DEL", c, ev)
        /\ index_' = [index_ EXCEPT ![c] = "kDeleted"]
        /\ UNCHANGED channels_
     \/ /\ index_[c] = "kAdded"
        /\ ev # {}
        /\ Update("MOD", c, ev)
        /\ UNCHANGED <<index_, channels_>>

\* What enableReading(), disableReading(), enableWriting(), disableWriting() and
\* disableAll() make of events_.
NewEvents(ev) ==
  {ev \cup kReadEvent, ev \ kReadEvent, ev \cup kWriteEvent, ev \ kWriteEvent, {}}

\* One of those five calls.
SetEvents(c) ==
  /\ InUserCode
  /\ c \in alive
  /\ \E ev \in NewEvents(events_[c]) : UpdateChannel(c, ev)
  /\ UNCHANGED <<alive, dispatchVars, ready, withdrawn>>

\* Faulty variant: the test on index is the wrong way round.
DelIfAdded_Inverted(c) ==
  IF index_[c] = "kDeleted" THEN Update("DEL", c, {})
                            ELSE UNCHANGED <<epollPtr, epollMask, ctlFailed>>

\* removeChannel(): if (index == kAdded) update(EPOLL_CTL_DEL, channel)
DelIfAdded(c) ==
  IF index_[c] = "kAdded" THEN Update("DEL", c, {})
                          ELSE UNCHANGED <<epollPtr, epollMask, ctlFailed>>

\* Channel::remove and EpollPoller::removeChannel.  The two asserts are what the
\* callers owe: nothing is watched for any more, and the channel was added.
Remove(c) ==
  /\ InUserCode
  /\ c \in alive
  /\ events_[c] = {}
  /\ index_[c] # "kNew"
  /\ addedToLoop_' = [addedToLoop_ EXCEPT ![c] = FALSE]
  /\ channels_' = [channels_ EXCEPT ![FdOf[c]] = NoChannel]
  /\ DelIfAdded(c)
  /\ index_' = [index_ EXCEPT ![c] = "kNew"]
  /\ withdrawn' = withdrawn \cup ({c} \cap activeChannels_)
  /\ UNCHANGED <<alive, events_, dispatchVars, ready>>

\* Channel::Channel, for a descriptor that has just been opened.  (An object that is
\* still to be dispatched, but gone, is not made again: it would be another one.)
Create(c) ==
  /\ InUserCode
  /\ c \notin activeChannels_
  /\ \A d \in alive : FdOf[d] # FdOf[c]
  /\ alive' = alive \cup {c}
  /\ events_' = [events_ EXCEPT ![c] = {}]
  /\ revents_' = [revents_ EXCEPT ![c] = {}]
  /\ index_' = [index_ EXCEPT ![c] = "kNew"]
  /\ addedToLoop_' = [addedToLoop_ EXCEPT ![c] = FALSE]
  /\ UNCHANGED <<pollerVars, eventListSize, activeChannels_,
                 currentActiveChannel_, callbacks, ready, withdrawn>>

\* Channel::~Channel, after which the owner closes the descriptor and the kernel
\* forgets it.  The caller owes the asserts on eventHandling_ and addedToLoop_; the one
\* on hasChannel() is a property.  The fields are gone: the model resets them.
Destroy(c) ==
  /\ InUserCode
  /\ c \in alive /\ c # currentActiveChannel_
  /\ ~addedToLoop_[c]
  /\ alive' = alive \ {c}
  /\ events_' = [events_ EXCEPT ![c] = {}]
  /\ index_' = [index_ EXCEPT ![c] = "kNew"]
  /\ epollPtr' = [epollPtr EXCEPT ![FdOf[c]] = NoChannel]
  /\ epollMask' = [epollMask EXCEPT ![FdOf[c]] = {}]
  /\ ready' = [ready EXCEPT ![FdOf[c]] = {}]
  /\ UNCHANGED <<addedToLoop_, channels_, ctlFailed, dispatchVars, withdrawn>>

-----------------------------------------------------------------------------
(* epoll_wait and the dispatch *)

\* What the kernel reports for a descriptor.
Reported(fd) ==
  IF epollPtr[fd] = NoChannel THEN {} ELSE ready[fd] \cap (epollMask[fd] \cup Unasked)

ReadyFds == {fd \in Fds : Reported(fd) # {}}

Least(m, n) == IF m < n THEN m ELSE n

\* Faulty variant: events_ is never made larger.
Resize_Never(numEvents) == eventListSize

\* Faulty variant: events_ grows by what has come in.
Resize_Always(numEvents) == eventListSize + numEvents

\* events_.size() after poll() has found numEvents.
Resize(numEvents) ==
  IF numEvents = eventListSize THEN 2 * eventListSize ELSE eventListSize

\* Faulty variant: all of events_ is walked, not only what the kernel has filled.
FillActiveChannels_WholeList(got) == {epollPtr[fd] : fd \in Fds}

\* fillActiveChannels(): the data.ptr of the descriptors reported.
FillActiveChannels(got) == {epollPtr[fd] : fd \in got}

\* EpollPoller::poll with fillActiveChannels(), when something is ready: the
\* kernel fills as much of events_ as it can, with whichever descriptors it likes.
\* (A call that times out or is interrupted changes nothing.)
PollerPoll ==
  /\ activeChannels_ = {} /\ ~InHandler
  /\ \E got \in SUBSET ReadyFds :
       /\ got # {}
       /\ Cardinality(got) = Least(eventListSize, Cardinality(ReadyFds))
       /\ activeChannels_' = FillActiveChannels(got)
       /\ revents_' = [c \in Channels |->
                         IF c \in activeChannels_' THEN Reported(FdOf[c]) ELSE revents_[c]]
       /\ eventListSize' = Resize(Cardinality(got))
  /\ withdrawn' = {}
  /\ UNCHANGED <<channelVars, pollerVars, currentActiveChannel_, callbacks, ready>>

\* The tests of handleEventWithGuard() on revents_.
Callbacks(revents) ==
  {kind \in CallbackKinds :
     CASE kind = "close" -> "hup" \in revents /\ "in" \notin revents
       [] kind = "error" -> "err" \in revents
       [] kind = "read"  -> "in" \in revents
       [] kind = "write" -> "out" \in revents}

\* Channel::handleEvent: handleEventWithGuard() starts.
HandleEvent(c) ==
  /\ ~InHandler
  /\ c \in activeChannels_ \cap alive
  /\ currentActiveChannel_' = c
  /\ callbacks' = Callbacks(revents_[c])
  /\ UNCHANGED <<channelVars, pollerVars, revents_, eventListSize, activeChannels_,
                 ready, withdrawn>>

\* The first of the callbacks still owed has run; the order is that of the code.
NextCallback ==
  /\ InHandler
  /\ \E i \in DOMAIN CallbackOrder :
       /\ CallbackOrder[i] \in callbacks
       /\ \A j \in 1..(i - 1) : CallbackOrder[j] \notin callbacks
       /\ callbacks' = callbacks \ {CallbackOrder[i]}
  /\ UNCHANGED <<channelVars, pollerVars, revents_, eventListSize, activeChannels_,
                 currentActiveChannel_, ready, withdrawn>>

\* handleEvent() returns.  revents_ is not read again before poll() sets it; the
\* model clears it.
HandlerReturn ==
  /\ InHandler
  /\ callbacks = {}
  /\ activeChannels_' = activeChannels_ \ {currentActiveChannel_}
  /\ currentActiveChannel_' = NoChannel
  /\ revents_' = [revents_ EXCEPT ![currentActiveChannel_] = {}]
  /\ UNCHANGED <<channelVars, pollerVars, eventListSize, callbacks, ready, withdrawn>>

\* Data arrives or is drained, the peer closes, the send buffer fills up, ...
KernelChange(fd) ==
  /\ \E c \in alive : FdOf[c] = fd
  /\ \E conditions \in SUBSET Conditions : ready' = [ready EXCEPT ![fd] = conditions]
  /\ UNCHANGED <<channelVars, pollerVars, dispatchVars, withdrawn>>

-----------------------------------------------------------------------------
LoopStep ==
  \/ PollerPoll
  \/ \E c \in Channels : HandleEvent(c)
  \/ NextCallback
  \/ HandlerReturn

UserCode == \E c \in Channels : SetEvents(c) \/ Remove(c) \/ Create(c) \/ Destroy(c)

Next == LoopStep \/ UserCode \/ \E fd \in Fds : KernelChange(fd)

SafeSpec == Init /\ [][Next]_vars

\* The loop keeps running: handlers return and epoll_wait is called again.
Spec == SafeSpec /\ WF_vars(LoopStep)

-----------------------------------------------------------------------------
(* Properties *)

\* The four records of a channel's registration agree: updateChannel() and
\* removeChannel() keep index_, addedToLoop_, channels_ and the kernel's list in
\* step, whatever the order of calls, and no list names a destroyed channel.
RegistrationAgrees ==
  /\ \A c \in alive :
       /\ addedToLoop_[c] <=> index_[c] # "kNew"
       /\ HasChannel(c) <=> index_[c] # "kNew"
       /\ epollPtr[FdOf[c]] = c <=> index_[c] = "kAdded"
       /\ index_[c] = "kAdded" => epollMask[FdOf[c]] = events_[c]
  /\ \A fd \in Fds : {channels_[fd], epollPtr[fd]} \subseteq alive \cup {NoChannel}

\* No call sequence makes epoll_ctl fail: LOG_FATAL in EpollPoller::update is
\* never reached, although it would not stop the program.
CtlNeverFails == ~ctlFailed

\* The asserts of fillActiveChannels() hold, and go on holding until the dispatch of the
\* batch is over: handleEvent() is called on channels that exist and are registered,
\* except where a handler of this very batch has called remove() on the channel.  What
\* handlers do to other channels, a new one with the descriptor of a destroyed one
\* included, does not matter, and no earlier remove() leaves a pointer in the kernel.
DispatchesRegistered ==
  \A c \in activeChannels_ :
    /\ revents_[c] # {}
    /\ c \notin withdrawn => c \in alive /\ HasChannel(c)

\* events_ doubles only when it was full, so it never outgrows twice the number
\* of descriptors.
EventListBounded ==
  eventListSize <= kInitEventListSize \/ eventListSize <= 2 * Cardinality(Fds)

\* A channel that is still to be dispatched has been destroyed: the loop will call it.
DispatchesGone == activeChannels_ \ alive # {}

\* A channel that stays ready is handled, even if the kernel always reports the
\* others first: a full events_ grows until all of them fit.
ReadyIsHandled ==
  \A c \in Channels :
    (epollPtr[FdOf[c]] = c /\ Reported(FdOf[c]) # {})
      ~> \/ currentActiveChannel_ = c
         \/ epollPtr[FdOf[c]] # c \/ Reported(FdOf[c]) = {}
         \/ DispatchesGone

=============================================================================
