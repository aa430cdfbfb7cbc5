------------------------------ MODULE TcpServer ------------------------------
(***************************************************************************)
(* TcpServer.h, TcpServer.cpp with Acceptor, Socket and                    *)
(* EventLoopThreadPool: a server on its base loop, from the first start()  *)
(* to the destructors of server and loop, with several connections.        *)
(*                                                                         *)
(* TcpConnection looks into one connection.  Here a connection is its      *)
(* state, whether its channel reads and is added to the loop, its name,    *)
(* and who holds a pointer; sending and the errors of sockets are left to  *)
(* TcpConnection.  The point is what connections, the map of the server    *)
(* and the channels still to be dispatched do to each other.  Each peer    *)
(* connects at most once and stands for the connection it gets.            *)
(*                                                                         *)
(* As in TcpConnection, todo is what the loop thread's handler or batch of *)
(* functors still has to do; code of the user runs at the head of a        *)
(* callback, between functors, and outside loop().  All connections run on *)
(* the base loop (setThreadNum() has no effect), so the runInLoop() of the *)
(* server calls at once there.                                             *)
(***************************************************************************)
EXTENDS Naturals, Sequences, FiniteSets

CONSTANTS
  Peers,
  Limits,             \* how many descriptors there may be for connections
  MaxStarted,         \* bound: where the calls of start() end
  acceptChannel_

ASSUME TcpServerAssumption ==
  /\ IsFiniteSet(Peers)
  /\ Limits \subseteq Nat \ {0}
  /\ MaxStarted \in Nat \ {0}
  /\ acceptChannel_ \notin Peers

VARIABLES
  started_, numThreads_,
  limit,                    \* descriptors for connections; does not change
  acceptor,                 \* acceptChannel_ is new, listening or gone
  server,                   \* alive, dying in its destructor, gone
  nextConnId_, connections_,
  state_, name_,            \* of the connections
  reading, added,           \* connections whose channel reads, is added to the loop
  waiting,                  \* the listen queue of the kernel
  closed,                   \* peers whose stream is at its end
  phase, todo,              \* the loop thread
  pendingFunctors_, quit_,
  active,                   \* activeChannels_ still to be dispatched
  held,                     \* whom the guard or the batch of functors holds
  kept,                     \* connections other threads have a pointer to
  crashed,                  \* why the program has stopped
  anomalies                 \* history: how the server was destroyed too early

serverVars == <<started_, numThreads_, limit, acceptor, server>>
mapVars == <<nextConnId_, connections_>>
connVars == <<state_, name_, reading, added>>
peerVars == <<waiting, closed>>
objects == <<serverVars, mapVars, connVars, peerVars>>
round == <<phase, quit_, active, held>>
loopVars == <<round, todo, pendingFunctors_>>
others == <<kept, anomalies>>
fate == <<others, crashed>>
vars == <<objects, loopVars, fate>>

Channels == Peers \cup {acceptChannel_}
UserCallbacks == {"connectionCallback_", "messageCallback_"}
Functors == {"connectDestroyed", "listen"}
Calls == UserCallbacks \cup Functors \cup {"removeConnection", "remove", "TcpServerDestructor"}

Call(c, ch) == [call |-> c, of |-> ch]

TypeOK ==
  /\ started_ \in 0..MaxStarted /\ numThreads_ \in {0, 1} /\ limit \in Limits
  /\ acceptor \in {"new", "listening", "gone"}
  /\ server \in {"alive", "dying", "gone"}
  /\ nextConnId_ \in Nat
  /\ connections_ \subseteq Peers
  /\ state_ \in [Peers -> {"none", "kConnected", "kDisconnecting", "kDisconnected"}]
  /\ name_ \in [Peers -> Nat]
  /\ reading \subseteq Peers /\ added \subseteq Peers
  /\ waiting \subseteq Peers /\ closed \subseteq Peers
  /\ phase \in {"setup", "startLoop", "poll", "dispatch", "functors", "exited", "over"}
  /\ todo \in Seq([call : Calls, of : Channels])
  /\ pendingFunctors_ \in Seq([call : Functors, of : Channels])
  /\ quit_ \in BOOLEAN
  /\ active \subseteq Channels /\ held \subseteq Channels
  /\ kept \subseteq Peers
  /\ crashed \in {"no", "isNoneEvent", "eventHandling", "noChannel", "noAcceptor",
                  "noServer"}
  /\ anomalies \subseteq {"inHandler", "lateListen"}

\* The constructors have run, loop() has not.  That of TcpServer leaves started_ to
\* chance: zero, or, as 1 here, a number the calls of start() do not bring to zero.
Init ==
  /\ started_ \in {0, 1} /\ numThreads_ = 0 /\ limit \in Limits
  /\ acceptor = "new" /\ server = "alive"
  /\ nextConnId_ = 1 /\ connections_ = {}
  /\ state_ = [p \in Peers |-> "none"] /\ name_ = [p \in Peers |-> 0]
  /\ reading = {} /\ added = {}
  /\ waiting = {} /\ closed = {}
  /\ phase = "setup" /\ todo = <<>> /\ pendingFunctors_ = <<>> /\ quit_ = FALSE
  /\ active = {} /\ held = {} /\ kept = {}
  /\ crashed = "no" /\ anomalies = {}

-----------------------------------------------------------------------------
(* Helpers *)

\* The loop thread's next step is that call; it leaves those calls instead.
Does(c, ch) == todo # <<>> /\ Head(todo) = Call(c, ch)
Leaves(calls) == todo' = calls \o Tail(todo)

\* handleEvent() of the channel is under way.
Handling(ch) == phase = "dispatch" /\ todo # <<>> /\ ch \in held

Mentions(calls, p) == \E i \in DOMAIN calls : calls[i].of = p

\* A TcpConnectionPtr is left, and with it connection and descriptor, which ~Socket
\* closes.
Owned(p) ==
  \/ p \in connections_ \cup kept
  \/ Handling(p) \/ (phase = "functors" /\ p \in held)
  \/ Mentions(todo, p) \/ Mentions(pendingFunctors_, p)
Alive(p) == state_[p] # "none" /\ Owned(p)
Exists(ch) == IF ch = acceptChannel_ THEN acceptor # "gone" ELSE Alive(ch)

Full == Cardinality({p \in Peers : Alive(p)}) >= limit

\* connections_ without the entry of that name.
Erased(name) == {p \in connections_ : name_[p] # name}

\* disableAll(), which adds a channel that was removed before.
DisableAll(p) == reading' = reading \ {p} /\ added' = added \cup {p}

-----------------------------------------------------------------------------
(* The acceptor *)

\* epoll reported the channel, and it is its turn.
Dispatches(ch) ==
  /\ phase = "dispatch" /\ todo = <<>> /\ ch \in active
  /\ active' = active \ {ch}
  /\ held' = {ch}
  /\ UNCHANGED <<phase, pendingFunctors_, quit_>>

\* connectEstablished(), up to the call of connectionCallback_.
ConnectEstablished(p) ==
  /\ state_' = [state_ EXCEPT ![p] = "kConnected"]
  /\ reading' = reading \cup {p} /\ added' = added \cup {p}
  /\ todo' = <<Call("connectionCallback_", p)>>

\* Faulty variant: the next connection gets the same name.
NewConnection_SameName(p) ==
  /\ name_' = [name_ EXCEPT ![p] = nextConnId_]
  /\ connections_' = Erased(nextConnId_) \cup {p}
  /\ ConnectEstablished(p)
  /\ UNCHANGED nextConnId_

\* TcpServer::newConnection.
NewConnection(p) ==
  /\ name_' = [name_ EXCEPT ![p] = nextConnId_]
  /\ nextConnId_' = nextConnId_ + 1
  /\ connections_' = Erased(nextConnId_) \cup {p}
  /\ ConnectEstablished(p)

\* Faulty variant: what accept() returns is not looked at.
Accept_Unchecked ==
  /\ \/ Full /\ NewConnection(acceptChannel_) /\ UNCHANGED waiting
     \/ \E p \in waiting : ~Full /\ waiting' = waiting \ {p} /\ NewConnection(p)
  /\ UNCHANGED <<acceptor, closed>>

\* Faulty variant: against a loop that spins, the channel stops reading, for good.
Accept_StopsWhenFull ==
  \/ /\ Full
     /\ acceptor' = "new"
     /\ UNCHANGED <<mapVars, connVars, peerVars, todo>>
  \/ \E p \in waiting :
       /\ ~Full /\ waiting' = waiting \ {p}
       /\ NewConnection(p)
       /\ UNCHANGED <<acceptor, closed>>

\* accept() takes the next of the queue.  It also takes it when it then fails, with
\* ECONNABORTED, or EINVAL because the len it is given is not initialised.  It fails
\* without a free descriptor, which is only logged.
Accept ==
  /\ \/ /\ Full
        /\ UNCHANGED <<mapVars, connVars, peerVars, todo>>
     \/ \E p \in waiting :
          /\ ~Full /\ waiting' = waiting \ {p}
          /\ \/ NewConnection(p) /\ UNCHANGED closed
             \/ closed' = closed \cup {p} /\ UNCHANGED <<mapVars, connVars, todo>>
  /\ UNCHANGED acceptor

\* Acceptor::handleRead.
AcceptorHandleRead ==
  /\ Dispatches(acceptChannel_)
  /\ Exists(acceptChannel_)
  /\ Accept
  /\ UNCHANGED <<started_, numThreads_, limit, server, fate>>

-----------------------------------------------------------------------------
(* The connections *)

\* Faulty variant: the server is not told.
HandleClose_NoCloseCallback(p) ==
  /\ state_' = [state_ EXCEPT ![p] = "kDisconnected"]
  /\ DisableAll(p)
  /\ todo' = <<Call("connectionCallback_", p)>>

\* handleClose(), up to the call of connectionCallback_; closeCallback_ follows.
HandleClose(p) ==
  /\ state_' = [state_ EXCEPT ![p] = "kDisconnected"]
  /\ DisableAll(p)
  /\ todo' = <<Call("connectionCallback_", p), Call("removeConnection", p)>>

\* handleRead(): data, or the end of the stream.
HandleRead(p) ==
  /\ Dispatches(p)
  /\ Exists(p)
  /\ \/ /\ p \notin closed
        /\ todo' = <<Call("messageCallback_", p)>>
        /\ UNCHANGED <<state_, reading, added>>
     \/ /\ p \in closed
        /\ HandleClose(p)
  /\ UNCHANGED <<serverVars, mapVars, name_, peerVars, fate>>

\* The loop calls handleEvent() of a channel that is gone.
HandleEventGone(ch) ==
  /\ Dispatches(ch)
  /\ ~Exists(ch)
  /\ crashed' = "noChannel"
  /\ UNCHANGED <<objects, todo, others>>

\* Faulty variant: connectDestroyed() is queued, the map forgotten.
RemoveConnection_KeepsEntry(p) ==
  /\ Does("removeConnection", p)
  /\ pendingFunctors_' = Append(pendingFunctors_, Call("connectDestroyed", p))
  /\ Leaves(<<>>)
  /\ UNCHANGED <<objects, round, fate>>

\* removeConnection() and removeConnectionInLoop(), on the bare this of the server.
RemoveConnection(p) ==
  /\ Does("removeConnection", p)
  /\ \/ /\ server = "alive"
        /\ connections_' = Erased(name_[p])
        /\ pendingFunctors_' = Append(pendingFunctors_, Call("connectDestroyed", p))
        /\ UNCHANGED crashed
     \/ /\ server = "gone"
        /\ crashed' = "noServer"
        /\ UNCHANGED <<connections_, pendingFunctors_>>
  /\ Leaves(<<>>)
  /\ UNCHANGED <<serverVars, nextConnId_, connVars, peerVars, round, others>>

\* connectDestroyed(), up to channel_->remove().
ConnectDestroyed(p) ==
  /\ Does("connectDestroyed", p)
  /\ \/ /\ state_[p] = "kConnected"
        /\ state_' = [state_ EXCEPT ![p] = "kDisconnected"]
        /\ DisableAll(p)
        /\ Leaves(<<Call("connectionCallback_", p), Call("remove", p)>>)
     \/ /\ state_[p] # "kConnected"
        /\ Leaves(<<Call("remove", p)>>)
        /\ UNCHANGED <<state_, reading, added>>
  /\ UNCHANGED <<serverVars, mapVars, name_, peerVars, round, pendingFunctors_, fate>>

\* channel_->remove(), with its assert.
Remove(p) ==
  /\ Does("remove", p)
  /\ \/ p \in reading /\ crashed' = "isNoneEvent" /\ UNCHANGED added
     \/ p \notin reading /\ added' = added \ {p} /\ UNCHANGED crashed
  /\ Leaves(<<>>)
  /\ UNCHANGED <<serverVars, mapVars, state_, name_, reading, peerVars, round,
                 pendingFunctors_, others>>

\* A callback returns.
UserReturns(p) ==
  /\ \E c \in UserCallbacks : Does(c, p)
  /\ Leaves(<<>>)
  /\ UNCHANGED <<objects, round, pendingFunctors_, fate>>

-----------------------------------------------------------------------------
(* The loop around them *)

\* loop() is called.
Loop ==
  /\ phase = "setup" /\ todo = <<>>
  /\ phase' = "poll"
  /\ quit_' = FALSE
  /\ UNCHANGED <<objects, todo, pendingFunctors_, active, held, fate>>

\* epoll_wait reports listen queue and ends of streams for as long as they are there,
\* and data of some connections.
Poll ==
  /\ phase = "poll"
  /\ phase' = "dispatch"
  /\ \E data \in SUBSET (reading \ closed) :
       active' = data \cup (reading \cap closed)
                   \cup {ch \in {acceptChannel_} : acceptor = "listening" /\ waiting # {}}
  /\ held' = {}
  /\ UNCHANGED <<objects, todo, pendingFunctors_, quit_, fate>>

\* Faulty variant: a loop that has been told to quit goes at once.
DoPendingFunctors_UnlessQuit ==
  /\ phase = "dispatch" /\ todo = <<>> /\ active = {}
  /\ phase' = IF quit_ THEN "exited" ELSE "functors"
  /\ todo' = IF quit_ THEN <<>> ELSE pendingFunctors_
  /\ pendingFunctors_' = IF quit_ THEN pendingFunctors_ ELSE <<>>
  /\ held' = {pendingFunctors_[i].of : i \in DOMAIN pendingFunctors_}
  /\ UNCHANGED <<objects, quit_, active, fate>>

\* doPendingFunctors() takes the functors over ...
DoPendingFunctors ==
  /\ phase = "dispatch" /\ todo = <<>> /\ active = {}
  /\ phase' = "functors"
  /\ todo' = pendingFunctors_
  /\ pendingFunctors_' = <<>>
  /\ held' = {pendingFunctors_[i].of : i \in DOMAIN pendingFunctors_}
  /\ UNCHANGED <<objects, quit_, active, fate>>

\* ... its vector goes, and loop() looks at quit_.
FunctorsDone ==
  /\ phase = "functors" /\ todo = <<>>
  /\ phase' = IF quit_ THEN "exited" ELSE "poll"
  /\ held' = {}
  /\ UNCHANGED <<objects, todo, pendingFunctors_, quit_, active, fate>>

\* Acceptor::listen as a functor, bound to the bare pointer.
ListenInLoop ==
  /\ Does("listen", acceptChannel_)
  /\ \/ acceptor # "gone" /\ acceptor' = "listening" /\ UNCHANGED crashed
     \/ acceptor = "gone" /\ crashed' = "noAcceptor" /\ UNCHANGED acceptor
  /\ Leaves(<<>>)
  /\ UNCHANGED <<started_, numThreads_, limit, server, mapVars, connVars, peerVars,
                 round, pendingFunctors_, others>>

-----------------------------------------------------------------------------
(* The user on the loop thread, and the destructors *)

UserRuns ==
  \/ phase \in {"setup", "functors", "exited"} /\ todo = <<>>
  \/ phase = "functors" /\ todo # <<>> /\ Head(todo).call \in Functors
  \/ todo # <<>> /\ Head(todo).call \in UserCallbacks

\* Faulty variant: the number is stored.
SetThreadNum_Stores(numThreads) == numThreads_' = numThreads

\* EventLoopThreadPool::setThreadNum assigns its parameter to itself.
SetThreadNum(numThreads) == numThreads_' = numThreads_

\* EventLoopThreadPool::start: with a thread it would wait in startLoop() for ever.
PoolStartReturns == numThreads_' = 0

\* start(), on the loop thread; the user may have called setThreadNum() before.
Start ==
  /\ UserRuns
  /\ server = "alive" /\ started_ < MaxStarted
  /\ started_' = started_ + 1
  /\ \E numThreads \in {0, 1} : SetThreadNum(numThreads)
  /\ phase' = IF started_ = 0 /\ ~PoolStartReturns THEN "startLoop" ELSE phase
  /\ acceptor' = IF started_ = 0 /\ PoolStartReturns THEN "listening" ELSE acceptor
  /\ UNCHANGED <<limit, server, mapVars, connVars, peerVars, todo, pendingFunctors_,
                 quit_, active, held, fate>>

\* start(), on another thread.
StartElsewhere ==
  /\ server = "alive" /\ started_ < MaxStarted
  /\ started_' = started_ + 1
  /\ pendingFunctors_' = IF started_ = 0
                         THEN Append(pendingFunctors_, Call("listen", acceptChannel_))
                         ELSE pendingFunctors_
  /\ UNCHANGED <<numThreads_, limit, acceptor, server, mapVars, connVars, peerVars,
                 round, todo, fate>>

\* shutdown() in a callback.
ShutdownSelf(p) ==
  /\ \E c \in UserCallbacks : Does(c, p)
  /\ state_[p] = "kConnected"
  /\ state_' = [state_ EXCEPT ![p] = "kDisconnecting"]
  /\ UNCHANGED <<serverVars, mapVars, name_, reading, added, peerVars, loopVars, fate>>

\* The user destroys the server.
ServerGoes ==
  /\ UserRuns
  /\ server = "alive" /\ server' = "dying"
  /\ todo' = <<Call("TcpServerDestructor", acceptChannel_)>> \o todo
  /\ anomalies' = anomalies
       \cup {a \in {"inHandler"} : phase = "dispatch"}
       \cup {a \in {"lateListen"} : Mentions(todo \o pendingFunctors_, acceptChannel_)}
  /\ UNCHANGED <<started_, numThreads_, limit, acceptor, mapVars, connVars, peerVars,
                 round, pendingFunctors_, kept, crashed>>

\* ~Acceptor, with the assert of ~Channel; the kernel resets who waits.
AcceptorDestructor ==
  /\ acceptor' = "gone"
  /\ closed' = closed \cup waiting /\ waiting' = {}
  /\ crashed' = IF Handling(acceptChannel_) THEN "eventHandling" ELSE crashed

\* TcpServer::~TcpServer: connectDestroyed() of each connection, in the order of the
\* hash map, then ~Acceptor.
TcpServerDestructor ==
  /\ Does("TcpServerDestructor", acceptChannel_)
  /\ \/ \E p \in connections_ :
          /\ connections_' = connections_ \ {p}
          /\ Leaves(<<Call("connectDestroyed", p), Head(todo)>>)
          /\ UNCHANGED <<acceptor, server, peerVars, crashed>>
     \/ /\ connections_ = {}
        /\ server' = "gone"
        /\ AcceptorDestructor
        /\ Leaves(<<>>)
        /\ UNCHANGED connections_
  /\ UNCHANGED <<started_, numThreads_, limit, nextConnId_, connVars, round,
                 pendingFunctors_, others>>

\* ~EventLoop, when server and connections are gone; it drops its functors.
EventLoopDestructor ==
  /\ phase = "exited" /\ todo = <<>> /\ server = "gone" /\ kept = {}
  /\ phase' = "over"
  /\ pendingFunctors_' = <<>>
  /\ UNCHANGED <<objects, todo, quit_, active, held, fate>>

-----------------------------------------------------------------------------
(* Any thread, and the peers *)

\* EventLoop::quit, while loop() runs.
Quit ==
  /\ phase \in {"poll", "dispatch", "functors"}
  /\ quit_' = TRUE
  /\ UNCHANGED <<objects, phase, todo, pendingFunctors_, active, held, fate>>

\* A callback hands its TcpConnectionPtr to another thread ...
Keep(p) ==
  /\ \E c \in UserCallbacks : Does(c, p)
  /\ kept' = kept \cup {p}
  /\ UNCHANGED <<objects, loopVars, crashed, anomalies>>

\* ... which drops it.
Drop(p) ==
  /\ p \in kept
  /\ kept' = kept \ {p}
  /\ UNCHANGED <<objects, loopVars, crashed, anomalies>>

PeerConnects(p) ==
  /\ acceptor = "listening"
  /\ state_[p] = "none" /\ p \notin waiting \cup closed
  /\ waiting' = waiting \cup {p}
  /\ UNCHANGED <<serverVars, mapVars, connVars, closed, loopVars, fate>>

\* The peer has sent all it has to send, and it has been read.
PeerCloses(p) ==
  /\ p \in waiting \/ Alive(p)
  /\ closed' = closed \cup {p}
  /\ UNCHANGED <<serverVars, mapVars, connVars, waiting, loopVars, fate>>

-----------------------------------------------------------------------------
\* ~Channel asserts that the channel has been removed.
DestroyedAdded == \E p \in added : ~Owned(p)
Running == crashed = "no" /\ ~DestroyedAdded

LoopStep ==
  /\ Running
  /\ \/ Loop \/ Poll \/ AcceptorHandleRead \/ DoPendingFunctors \/ FunctorsDone
     \/ ListenInLoop \/ TcpServerDestructor
     \/ \E ch \in Channels : HandleEventGone(ch)
     \/ \E p \in Peers : \/ HandleRead(p) \/ RemoveConnection(p) \/ ConnectDestroyed(p)
                         \/ Remove(p) \/ UserReturns(p)

UserStep ==
  /\ Running
  /\ \/ Start \/ StartElsewhere \/ ServerGoes \/ EventLoopDestructor \/ Quit
     \/ \E p \in Peers : ShutdownSelf(p) \/ Keep(p)

PeerStep == Running /\ \E p \in Peers : PeerConnects(p) \/ PeerCloses(p)

Next == LoopStep \/ UserStep \/ PeerStep \/ \E p \in Peers : Running /\ Drop(p)

\* loop() is called and goes on, and a pointer that is kept is dropped some day.
Spec ==
  /\ Init /\ [][Next]_vars
  /\ WF_vars(LoopStep)
  /\ \A p \in Peers : WF_vars(Running /\ Drop(p))

-----------------------------------------------------------------------------
(* Properties *)

Open(p) == state_[p] \in {"kConnected", "kDisconnecting"}

\* While the server lives, its map holds the connections that are open and those whose
\* removeConnection() is due, under different names.
MapIsOpen ==
  server = "alive" =>
    /\ connections_ = {p \in Peers : Open(p) \/ \E i \in DOMAIN todo :
                                                   todo[i] = Call("removeConnection", p)}
    /\ \A p, q \in connections_ : name_[p] = name_[q] => p = q

\* What the loop still has to dispatch exists: handlers run by other connections, the
\* functors and threads that drop pointers leave it alone, except that a server
\* destroyed in a handler takes its connections with it.
DispatchFindsChannel == (\A ch \in active : Exists(ch)) \/ "inHandler" \in anomalies

\* Whenever quit() comes, no removal is dropped with the loop: ~Channel finds its channel
\* removed, also where a handler destroys the server.
RemovedFirst == crashed = "no" => ~DestroyedAdded

\* No other assert of Channel fails and nobody calls a destroyed channel, server or
\* acceptor, except where the server is destroyed in a handler, with its listen() still
\* queued, or with a connection that was shut down and not closed.
CrashesExplained ==
  /\ crashed \in {"eventHandling", "noChannel", "noServer"} => "inHandler" \in anomalies
  /\ crashed = "noAcceptor" => "lateListen" \in anomalies
  /\ crashed = "isNoneEvent" =>
       server # "alive" /\ \E p \in reading : state_[p] = "kDisconnecting"

AssertsHold == RemovedFirst /\ CrashesExplained

\* The connection of a peer that closes is destroyed and its descriptor given back,
\* unless the loop is told to stop.
ClosedIsFreed ==
  \A p \in Peers : (p \in closed /\ Alive(p)) ~> (~Alive(p) \/ quit_ \/ ~Running)

\* Out of descriptors, the listen queue waits; it is served when one comes back.
WaitingIsServed ==
  []<>(~Full) =>
    \A p \in Peers : (p \in waiting) ~> (p \notin waiting \/ quit_ \/ ~Running)

\* If started_ happens to be zero at first, start() makes the server listen, whatever
\* thread calls it, and whatever setThreadNum() was called with.
StartListens ==
  started_ = 0 => ((started_ # 0) ~> (acceptor # "new" \/ quit_ \/ ~Running))

\* "assert(!eventHandling_)" in ~Channel: no channel is destroyed while it handles an
\* event; nor is one that the loop has still to call.
NoneDestroyedInUse == crashed \notin {"eventHandling", "noChannel"}

=============================================================================
