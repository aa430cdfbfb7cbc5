---------------------------- MODULE TcpConnection ----------------------------
(***************************************************************************)
(* TcpConnection.h, TcpConnection.cpp: one connection from                 *)
(* connectEstablished() to its destructor, with the two functions of       *)
(* TcpServer that take it out of connections_, and the part of its channel *)
(* that its asserts look at.                                               *)
(*                                                                         *)
(* The loop thread runs the channel's handlers and the functors; what a    *)
(* handler or functor still has to do is the sequence todo, and its head   *)
(* is the next step.  Callbacks of the user run inside and may send, shut  *)
(* down, destroy the TcpServer or hand the TcpConnectionPtr on to another  *)
(* thread.  Those threads call send() and shutdown(), which test state_    *)
(* first and act on it in later steps; send() leaves a pointer to the      *)
(* string of its caller, who may change or destroy that.                   *)
(*                                                                         *)
(* The two buffers are sequences of bytes, or nothing at all, until an     *)
(* append() or readFd() writes behind the vector, which Buffer shows to    *)
(* happen.                                                                 *)
(*                                                                         *)
(* The base loop is also the connection's: EventLoopThreadPool has no      *)
(* other (setThreadNum() assigns its parameter to itself), so runInLoop()  *)
(* in newConnection() and removeConnection() calls at once.                *)
(*                                                                         *)
(* A failed assert aborts the program; a member function called on a       *)
(* destroyed object, a string read that is gone and a write behind the     *)
(* vector of a buffer are undefined.  The model stops there.               *)
(***************************************************************************)
EXTENDS Naturals, Sequences

CONSTANTS
  Threads,            \* threads of the user other than the loop's
  Messages,           \* what is sent; each at most once
  MessageSize,        \* bytes of a message
  highWaterMark_,     \* 64 MB
  PeerActs,           \* what the peer may do: a subset of {"close", "reset"}
  ServerMayGo,        \* whether the TcpServer may be destroyed meanwhile
  NoMessage, NoThread

ASSUME TcpConnectionAssumption ==
  /\ MessageSize \in Nat \ {0}
  /\ highWaterMark_ \in Nat
  /\ NoMessage \notin Messages /\ NoThread \notin Threads
  /\ ServerMayGo \in BOOLEAN

VARIABLES
  state_,
  events_, index_,          \* of channel_
  outputBuffer_,
  connections_,             \* TcpServer::connections_: "holds" the connection, has
                            \* "erased" it, or is "destroyed" with the server
  phase, todo,              \* the loop thread
  pendingFunctors_,
  held,                     \* the guard or the running batch holds a pointer
  holders,                  \* the threads that hold a pointer
  pc,                       \* what each thread is about to do
  text,                     \* the message in the string it has passed to send()
  room, wrShut, wire,       \* the socket: room to write, SHUT_WR, bytes taken
  peer, sockErr,            \* the peer, and the pending error it has caused
  crashed,                  \* why the program has stopped
  anomalies,                \* history: what has gone against the order of things
  taken, offered,           \* history: messages sendInLoop() took, all messages
  told, outOfTurn           \* history: the last news for the user, its order

channelVars == <<events_, index_>>
connVars == <<state_, channelVars, outputBuffer_, connections_>>
loopVars == <<phase, todo, pendingFunctors_, held>>
threadVars == <<holders, pc, text>>
socketVars == <<room, wrShut, wire, peer, sockErr>>
fate == <<crashed, anomalies>>
sends == <<taken, offered>>
news == <<told, outOfTurn>>
vars == <<connVars, loopVars, threadVars, socketVars, fate, sends, news>>

\* The contract of the sending side.
Sending == INSTANCE ByteStream WITH fin <- wrShut

Bytes == Messages \X (1..MessageSize)

\* Code of the user, called with a TcpConnectionPtr.
UserCallbacks == {"connectionCallback_", "messageCallback_", "writeCompleteCallback_",
                  "highWaterMarkCallback_"}

Handlers == {"closeCallback", "errorCallback", "readCallback", "writeCallback"}

\* Functors bound to a shared pointer, and functors bound to this.
StrongFunctors == {"connectEstablished", "connectDestroyed", "writeCompleteCallback_",
                   "highWaterMarkCallback_"}
RawFunctors == {"sendInLoop", "shutdownInLoop"}

LoopCalls == UserCallbacks \cup Handlers \cup StrongFunctors \cup RawFunctors
               \cup {"removeConnection", "remove"}
ThreadCalls == RawFunctors \cup {"none", "setState"}

\* A call, and the thread whose string it is to send.
Call(c) == [call |-> c, buf |-> NoThread]
Work(calls) == [call : calls, buf : Threads \cup {NoThread}]

TypeOK ==
  /\ state_ \in {"kDisconnected", "kConnecting", "kConnected", "kDisconnecting"}
  /\ events_ \in SUBSET {"in", "out"}
  /\ index_ \in {"kNew", "kAdded", "kDeleted"}
  /\ outputBuffer_ \in Seq(Bytes)
  /\ connections_ \in {"holds", "erased", "destroyed"}
  /\ phase \in {"poll", "dispatch", "functors"}
  /\ todo \in Seq(Work(LoopCalls))
  /\ pendingFunctors_ \in Seq(Work(StrongFunctors \cup RawFunctors))
  /\ held \in BOOLEAN
  /\ holders \in SUBSET Threads
  /\ pc \in [Threads -> Work(ThreadCalls)]
  /\ text \in [Threads -> Messages \cup {NoMessage}]
  /\ <<room, wrShut, sockErr, outOfTurn>> \in BOOLEAN \X BOOLEAN \X BOOLEAN \X BOOLEAN
  /\ wire \in Seq(Bytes)
  /\ peer \in {"open", "closed", "reset"}
  /\ crashed \in {"no", "isNoneEvent", "index", "dangling", "noServer", "noChannel",
                  "noText", "overrun"}
  /\ anomalies \in SUBSET {"errorEvent", "lateShutdown", "serverGone", "inHandler"}
  /\ taken \in Seq(Messages)
  /\ offered \in SUBSET Messages
  /\ told \in {"nothing", "up", "down"}

\* TcpServer::newConnection has made the connection, entered it into connections_
\* and is about to call connectEstablished(), in the handler of the acceptor.
Init ==
  /\ state_ = "kConnecting"
  /\ events_ = {} /\ index_ = "kNew"
  /\ outputBuffer_ = <<>>
  /\ connections_ = "holds"
  /\ phase = "dispatch"
  /\ todo = <<Call("connectEstablished")>>
  /\ pendingFunctors_ = <<>>
  /\ held = FALSE
  /\ holders = {}
  /\ pc = [t \in Threads |-> Call("none")]
  /\ text = [t \in Threads |-> NoMessage]
  /\ room = TRUE /\ wrShut = FALSE /\ wire = <<>>
  /\ peer = "open" /\ sockErr = FALSE
  /\ crashed = "no" /\ anomalies = {}
  /\ taken = <<>> /\ offered = {}
  /\ told = "nothing" /\ outOfTurn = FALSE

-----------------------------------------------------------------------------
(* Helpers *)

\* The loop thread's next step is one of those calls; it leaves that work instead.
Does(calls) == phase # "poll" /\ todo # <<>> /\ Head(todo).call \in calls
Leaves(work) == todo' = work \o Tail(todo)

Writing == "out" \in events_

\* Channel::update and EpollPoller::updateChannel.
SetEvents(ev) ==
  /\ events_' = ev
  /\ index_' = IF index_ = "kAdded" /\ ev = {} THEN "kDeleted" ELSE "kAdded"

Queues(c) == pendingFunctors_' = Append(pendingFunctors_, Call(c))

\* Whether a TcpConnectionPtr is left.
HoldsPointer(work, calls) == \E i \in DOMAIN work : work[i].call \in calls
Owned ==
  \/ connections_ = "holds" \/ held \/ holders # {}
  \/ HoldsPointer(pendingFunctors_, StrongFunctors)
  \/ HoldsPointer(todo, LoopCalls \ (RawFunctors \cup Handlers))

\* connectionCallback_ is called with news for the user.
Tell(new) ==
  /\ told' = new
  /\ outOfTurn' = (outOfTurn \/ told # (IF new = "up" THEN "nothing" ELSE "up"))

-----------------------------------------------------------------------------
(* send() and shutdown() on the loop thread *)

\* write() fails for good when the peer has reset the connection, or the write side
\* is shut; that consumes a pending error.
WriteFails == peer = "reset" \/ wrShut

\* How many of len bytes write() may take otherwise: none when there is no room.
Writable(len) == IF room THEN 1..len ELSE {0}

Write(data, n) ==
  /\ wire' = wire \o SubSeq(data, 1, n)
  /\ room' \in {r \in BOOLEAN : r => room /\ n = Len(data)}
  /\ UNCHANGED <<peer, sockErr>>

\* Faulty variant: the first write does not look at what is still buffered.
WritesAtOnce_Always == TRUE

\* if (!channel_->isWriting() && outputBuffer_.readableBytes() == 0)
WritesAtOnce == ~Writing /\ outputBuffer_ = <<>>

\* Faulty variant: epollout is not asked for.
Buffers_Unwatched(data) ==
  /\ outputBuffer_' = outputBuffer_ \o data
  /\ UNCHANGED <<pendingFunctors_, channelVars, crashed>>

\* What has not been written is appended to the buffer, and epollout asked for.  With
\* unread bytes in the buffer the append may write behind its vector.
Buffers(data) ==
  LET oldLen == Len(outputBuffer_)
  IN /\ IF oldLen + Len(data) >= highWaterMark_ /\ oldLen < highWaterMark_
        THEN Queues("highWaterMarkCallback_")
        ELSE UNCHANGED pendingFunctors_
     /\ \/ /\ outputBuffer_ # <<>>
           /\ crashed' = "overrun"
           /\ UNCHANGED <<outputBuffer_, channelVars>>
        \/ /\ outputBuffer_' = outputBuffer_ \o data
           /\ IF Writing THEN UNCHANGED channelVars ELSE SetEvents(events_ \cup {"out"})
           /\ UNCHANGED crashed

\* sendInLoop() gives up, or its write() fails, before the data are looked at.
GivesUp == state_ = "kDisconnected" \/ (WritesAtOnce /\ WriteFails)

\* sendInLoop() of the message found at data: it gives up, finds the string gone,
\* writes what it can, or only buffers.
SendInLoop(m) ==
  \/ /\ GivesUp
     /\ sockErr' = (sockErr /\ state_ = "kDisconnected")
     /\ UNCHANGED <<channelVars, outputBuffer_, pendingFunctors_, room, wire, peer,
                    crashed, taken>>
  \/ /\ ~GivesUp /\ m = NoMessage
     /\ crashed' = "noText"
     /\ UNCHANGED <<channelVars, outputBuffer_, pendingFunctors_, room, wire, peer,
                    sockErr, taken>>
  \/ /\ ~GivesUp /\ m # NoMessage /\ WritesAtOnce
     /\ \E n \in Writable(MessageSize) :
          /\ Write(Sending!Stream(<<m>>), n)
          /\ \/ /\ n = MessageSize
                /\ Queues("writeCompleteCallback_")
                /\ UNCHANGED <<channelVars, outputBuffer_, crashed>>
             \/ /\ n # MessageSize
                /\ Buffers(SubSeq(Sending!Stream(<<m>>), n + 1, MessageSize))
     /\ taken' = Append(taken, m)
  \/ /\ ~GivesUp /\ m # NoMessage /\ ~WritesAtOnce
     /\ Buffers(Sending!Stream(<<m>>))
     /\ taken' = Append(taken, m)
     /\ UNCHANGED <<room, wire, peer, sockErr>>

\* Faulty variant: the write side is shut whatever is still buffered.
ShutWrite_AtOnce(writing) == TRUE

\* shutdownInLoop(), as the value of wrShut that it leaves.
ShutWrite(writing) == wrShut \/ ~writing

-----------------------------------------------------------------------------
(* Functors *)

\* connectEstablished(), up to the call of connectionCallback_.
ConnectEstablished ==
  /\ Does({"connectEstablished"})
  /\ state_' = "kConnected"
  /\ SetEvents(events_ \cup {"in"})
  /\ Tell("up")
  /\ Leaves(<<Call("connectionCallback_")>>)
  /\ UNCHANGED <<outputBuffer_, connections_, phase, pendingFunctors_, held, threadVars,
                 socketVars, fate, sends>>

\* Faulty variant: the user is told whatever the state.
ConnectDestroyed_Tells ==
  /\ Does({"connectDestroyed"})
  /\ state_' = "kDisconnected"
  /\ SetEvents({})
  /\ Tell("down")
  /\ Leaves(<<Call("connectionCallback_"), Call("remove")>>)
  /\ UNCHANGED <<outputBuffer_, connections_, phase, pendingFunctors_, held, threadVars,
                 socketVars, fate, sends>>

\* connectDestroyed(), up to channel_->remove().
ConnectDestroyed ==
  /\ Does({"connectDestroyed"})
  /\ \/ /\ state_ = "kConnected"
        /\ state_' = "kDisconnected"
        /\ SetEvents({})
        /\ Tell("down")
        /\ Leaves(<<Call("connectionCallback_"), Call("remove")>>)
     \/ /\ state_ # "kConnected"
        /\ Leaves(<<Call("remove")>>)
        /\ UNCHANGED <<state_, channelVars, news>>
  /\ anomalies' = anomalies \cup
       {a \in {"serverGone"} : state_ = "kDisconnecting" /\ told = "up"}
  /\ UNCHANGED <<outputBuffer_, connections_, phase, pendingFunctors_, held, threadVars,
                 socketVars, crashed, sends>>

\* channel_->remove(), with the asserts of Channel::remove and
\* EpollPoller::removeChannel.
Remove ==
  /\ Does({"remove"})
  /\ \/ events_ # {} /\ crashed' = "isNoneEvent" /\ UNCHANGED index_
     \/ events_ = {} /\ index_ = "kNew" /\ crashed' = "index" /\ UNCHANGED index_
     \/ events_ = {} /\ index_ # "kNew" /\ index_' = "kNew" /\ UNCHANGED crashed
  /\ Leaves(<<>>)
  /\ UNCHANGED <<state_, events_, outputBuffer_, connections_, phase, pendingFunctors_,
                 held, threadVars, socketVars, anomalies, sends, news>>

\* sendInLoop() and shutdownInLoop() as functors, which are bound to this, and to
\* c_str() of the caller's string.
RunRawFunctor ==
  /\ Does(RawFunctors)
  /\ \/ /\ ~Owned
        /\ crashed' = "dangling"
        /\ UNCHANGED <<channelVars, outputBuffer_, pendingFunctors_, socketVars, taken>>
     \/ /\ Owned /\ Does({"sendInLoop"})
        /\ SendInLoop(text[Head(todo).buf])
        /\ UNCHANGED wrShut
     \/ /\ Owned /\ Does({"shutdownInLoop"})
        /\ wrShut' = ShutWrite(Writing)
        /\ UNCHANGED <<channelVars, outputBuffer_, pendingFunctors_, room, wire, peer,
                       sockErr, crashed, taken>>
  /\ Leaves(<<>>)
  /\ UNCHANGED <<state_, connections_, phase, held, threadVars, anomalies, offered, news>>

-----------------------------------------------------------------------------
(* Handlers *)

\* Faulty variant: the channel stays interested.
HandleClose_KeepsEvents ==
  /\ state_' = "kDisconnected"
  /\ Tell("down")
  /\ Leaves(<<Call("connectionCallback_"), Call("removeConnection")>>)
  /\ UNCHANGED channelVars

\* handleClose(), up to the call of connectionCallback_.
HandleClose ==
  /\ state_' = "kDisconnected"
  /\ SetEvents({})
  /\ Tell("down")
  /\ Leaves(<<Call("connectionCallback_"), Call("removeConnection")>>)

\* closeCallback_ and errorCallback_ of the channel are both bound to handleClose().
CloseOrErrorCallback ==
  /\ held /\ Does({"closeCallback", "errorCallback"})
  /\ HandleClose
  /\ UNCHANGED <<outputBuffer_, connections_, phase, pendingFunctors_, held, threadVars,
                 socketVars, fate, sends>>

\* Faulty variant: the connection is only taken out of connections_.
RemoveConnection_Erases ==
  /\ Does({"removeConnection"})
  /\ connections_' = "erased"
  /\ Leaves(<<>>)
  /\ UNCHANGED <<state_, channelVars, outputBuffer_, phase, pendingFunctors_, held,
                 threadVars, socketVars, fate, sends, news>>

\* closeCallback_: TcpServer::removeConnection and removeConnectionInLoop, bound to
\* the bare this of the server.
RemoveConnection ==
  /\ Does({"removeConnection"})
  /\ \/ /\ connections_ # "destroyed"
        /\ connections_' = "erased"
        /\ Queues("connectDestroyed")
        /\ UNCHANGED crashed
     \/ /\ connections_ = "destroyed"
        /\ crashed' = "noServer"
        /\ UNCHANGED <<connections_, pendingFunctors_>>
  /\ Leaves(<<>>)
  /\ UNCHANGED <<state_, channelVars, outputBuffer_, phase, held, threadVars, socketVars,
                 anomalies, sends, news>>

\* handleRead(): data, more of which than inputBuffer_ has room for make readFd() write
\* behind its vector; the end of the stream; an error, which is only logged.
HandleRead ==
  /\ held /\ Does({"readCallback"})
  /\ \/ /\ outOfTurn' = (outOfTurn \/ told # "up")
        /\ Leaves(<<Call("messageCallback_")>>)
        /\ UNCHANGED <<state_, channelVars, told, sockErr, crashed>>
     \/ /\ crashed' = "overrun"
        /\ Leaves(<<>>)
        /\ UNCHANGED <<state_, channelVars, news, sockErr>>
     \/ /\ peer # "open" /\ ~sockErr
        /\ HandleClose
        /\ UNCHANGED <<sockErr, crashed>>
     \/ /\ sockErr
        /\ sockErr' = FALSE
        /\ Leaves(<<>>)
        /\ UNCHANGED <<state_, channelVars, news, crashed>>
  /\ UNCHANGED <<outputBuffer_, connections_, phase, pendingFunctors_, held, threadVars,
                 room, wrShut, wire, peer, anomalies, sends>>

\* Faulty variant: a shutdown() that came meanwhile is not remembered.
Drained_ForgetsShutdown ==
  SetEvents(events_ \ {"out"}) /\ Queues("writeCompleteCallback_") /\ UNCHANGED wrShut

\* handleWrite() has emptied the buffer.
Drained ==
  /\ SetEvents(events_ \ {"out"})
  /\ Queues("writeCompleteCallback_")
  /\ wrShut' = IF state_ = "kDisconnecting" THEN ShutWrite(FALSE) ELSE wrShut

\* handleWrite(): it writes what it can, or does nothing, because that failed or
\* because the channel is not writing any more.
HandleWrite ==
  /\ held /\ Does({"writeCallback"})
  /\ \/ /\ Writing /\ ~WriteFails
        /\ \E n \in Writable(Len(outputBuffer_)) :
             /\ Write(outputBuffer_, n)
             /\ outputBuffer_' = SubSeq(outputBuffer_, n + 1, Len(outputBuffer_))
             /\ IF n = Len(outputBuffer_)
                THEN Drained
                ELSE UNCHANGED <<channelVars, pendingFunctors_, wrShut>>
     \/ /\ ~Writing \/ WriteFails
        /\ sockErr' = (sockErr /\ ~Writing)
        /\ UNCHANGED <<wire, outputBuffer_, room, wrShut, peer, channelVars,
                       pendingFunctors_>>
  /\ Leaves(<<>>)
  /\ UNCHANGED <<state_, connections_, phase, held, threadVars, fate, sends, news>>

-----------------------------------------------------------------------------
(* The loop around them *)

\* What epoll_wait reports; data tells whether there are bytes to read.
Revents(data) ==
  {e \in {"in", "out", "hup", "err"} :
     /\ index_ = "kAdded"
     /\ CASE e = "in"  -> "in" \in events_ /\ (data \/ peer # "open")
          [] e = "out" -> Writing /\ (room \/ WriteFails)
          [] e = "hup" -> peer = "reset" \/ (peer = "closed" /\ wrShut)
          [] e = "err" -> sockErr}

\* Channel::handleEvent: the callbacks in the order of the code.
HandlersOf(revents) ==
  LET OnlyIf(test, handler) == IF test THEN <<Call(handler)>> ELSE <<>>
  IN OnlyIf("hup" \in revents /\ "in" \notin revents, "closeCallback")
     \o OnlyIf("err" \in revents, "errorCallback")
     \o OnlyIf("in" \in revents, "readCallback")
     \o OnlyIf("out" \in revents, "writeCallback")

\* epoll_wait returns: with events of this connection, or for another reason.  Other
\* channels may come first.
PollEvents ==
  /\ phase = "poll"
  /\ phase' = "dispatch"
  /\ \E data \in BOOLEAN :
       /\ todo' = HandlersOf(Revents(data))
       /\ anomalies' = anomalies \cup {a \in {"errorEvent"} : "err" \in Revents(data)}
  /\ UNCHANGED <<connVars, pendingFunctors_, held, threadVars, socketVars, crashed, sends,
                 news>>

\* Channel::handleEvent, on a raw pointer, locks tie_ into its guard ...
HandleEvent ==
  /\ phase = "dispatch" /\ ~held
  /\ Does(Handlers)
  /\ held' = Owned
  /\ crashed' = IF Owned THEN crashed ELSE "noChannel"
  /\ UNCHANGED <<connVars, phase, todo, pendingFunctors_, threadVars, socketVars, anomalies,
                 sends, news>>

\* ... and gives it back.
HandlerReturn ==
  /\ phase = "dispatch" /\ held
  /\ todo = <<>>
  /\ held' = FALSE
  /\ UNCHANGED <<connVars, phase, todo, pendingFunctors_, threadVars, socketVars, fate,
                 sends, news>>

\* doPendingFunctors() takes the functors over ...
DoPendingFunctors ==
  /\ phase = "dispatch" /\ todo = <<>> /\ ~held
  /\ phase' = "functors"
  /\ todo' = pendingFunctors_
  /\ pendingFunctors_' = <<>>
  /\ held' = HoldsPointer(pendingFunctors_, StrongFunctors)
  /\ UNCHANGED <<connVars, threadVars, socketVars, fate, sends, news>>

\* ... and returns; its vector goes.
FunctorsDone ==
  /\ phase = "functors" /\ todo = <<>>
  /\ phase' = "poll"
  /\ held' = FALSE
  /\ UNCHANGED <<connVars, todo, pendingFunctors_, threadVars, socketVars, fate, sends,
                 news>>

-----------------------------------------------------------------------------
(* The user on the loop thread *)

\* A callback returns.
UserReturns ==
  /\ Does(UserCallbacks)
  /\ Leaves(<<>>)
  /\ UNCHANGED <<connVars, phase, pendingFunctors_, held, threadVars, socketVars, fate,
                 sends, news>>

\* send() in a callback.
SendSelf(m) ==
  /\ Does(UserCallbacks)
  /\ m \notin offered
  /\ state_ = "kConnected"
  /\ SendInLoop(m)
  /\ offered' = offered \cup {m}
  /\ UNCHANGED <<state_, connections_, phase, todo, held, threadVars, wrShut, anomalies,
                 news>>

\* shutdown() in a callback.
ShutdownSelf ==
  /\ Does(UserCallbacks)
  /\ state_ = "kConnected"
  /\ state_' = "kDisconnecting"
  /\ wrShut' = ShutWrite(Writing)
  /\ UNCHANGED <<channelVars, outputBuffer_, connections_, loopVars, threadVars, room,
                 wire, peer, sockErr, fate, sends, news>>

\* A callback hands its TcpConnectionPtr to another thread.
HandOn(t) ==
  /\ Does(UserCallbacks)
  /\ t \notin holders
  /\ holders' = holders \cup {t}
  /\ UNCHANGED <<connVars, loopVars, pc, text, socketVars, fate, sends, news>>

\* Code of the user runs in a functor, in a callback of this connection, or in a handler
\* of another channel, before or after those of this one.
UserRuns ==
  \/ phase = "functors" /\ (todo = <<>> \/ Does(StrongFunctors \cup RawFunctors))
  \/ Does(UserCallbacks)
  \/ phase = "dispatch" /\ ~held /\ (todo = <<>> \/ Does(Handlers))

\* Faulty variant: the map goes, and the connections are left to their pointers.
ServerGoes_KeepsConnections ==
  /\ ServerMayGo /\ UserRuns
  /\ connections_ # "destroyed"
  /\ connections_' = "destroyed"
  /\ anomalies' = anomalies \cup {a \in {"inHandler"} : phase = "dispatch"}
  /\ UNCHANGED <<state_, channelVars, outputBuffer_, loopVars, threadVars, socketVars,
                 crashed, sends, news>>

\* TcpServer::~TcpServer calls connectDestroyed() of the connections it holds, there and
\* then.
ServerGoes ==
  /\ ServerMayGo /\ UserRuns
  /\ connections_ # "destroyed"
  /\ connections_' = "destroyed"
  /\ todo' = IF connections_ = "holds" THEN <<Call("connectDestroyed")>> \o todo ELSE todo
  /\ anomalies' = anomalies \cup {a \in {"inHandler"} : phase = "dispatch"}
  /\ UNCHANGED <<state_, channelVars, outputBuffer_, phase, pendingFunctors_, held,
                 threadVars, socketVars, crashed, sends, news>>

-----------------------------------------------------------------------------
(* The user on other threads *)

Moves(t, from, to) == pc[t].call \in from /\ pc' = [pc EXCEPT ![t] = to]

\* send() of a string: the test of state_; runInLoop() follows.  The string may be the
\* one that the thread has sent before.
Send(t, m) ==
  /\ t \in holders
  /\ m \notin offered
  /\ state_ = "kConnected"
  /\ Moves(t, {"none"}, [call |-> "sendInLoop", buf |-> t])
  /\ text' = [text EXCEPT ![t] = m]
  /\ offered' = offered \cup {m}
  /\ UNCHANGED <<connVars, loopVars, holders, socketVars, fate, taken, news>>

\* shutdown(): the test of state_ ...
Shutdown(t) ==
  /\ t \in holders
  /\ state_ = "kConnected"
  /\ Moves(t, {"none"}, Call("setState"))
  /\ UNCHANGED <<connVars, loopVars, holders, text, socketVars, fate, sends, news>>

\* ... and setState(kDisconnecting); runInLoop() follows.
ShutdownSets(t) ==
  /\ Moves(t, {"setState"}, Call("shutdownInLoop"))
  /\ state_' = "kDisconnecting"
  /\ anomalies' = anomalies \cup {a \in {"lateShutdown"} : state_ = "kDisconnected"}
  /\ UNCHANGED <<channelVars, outputBuffer_, connections_, loopVars, holders, text,
                 socketVars, crashed, sends, news>>

\* Faulty variant: shutdown() may get to runInLoop() ahead of setState().
RunInLoop_BeforeSet(t) ==
  /\ Moves(t, RawFunctors \cup {"setState"}, Call("none"))
  /\ pendingFunctors_' = Append(pendingFunctors_, pc[t])
  /\ UNCHANGED <<connVars, phase, todo, held, holders, text, socketVars, fate, sends, news>>

\* runInLoop() of both.
RunInLoop(t) ==
  /\ Moves(t, RawFunctors, Call("none"))
  /\ pendingFunctors_' = Append(pendingFunctors_, pc[t])
  /\ UNCHANGED <<connVars, phase, todo, held, holders, text, socketVars, fate, sends, news>>

\* send() has returned, and the string is destroyed.
TextGoes(t) ==
  /\ pc[t].call = "none" /\ text[t] # NoMessage
  /\ text' = [text EXCEPT ![t] = NoMessage]
  /\ UNCHANGED <<connVars, loopVars, holders, pc, socketVars, fate, sends, news>>

\* The thread drops its pointer.
Drop(t) ==
  /\ t \in holders
  /\ pc[t].call = "none"
  /\ holders' = holders \ {t}
  /\ UNCHANGED <<connVars, loopVars, pc, text, socketVars, fate, sends, news>>

-----------------------------------------------------------------------------
(* The peer *)

PeerReads ==
  /\ peer = "open" /\ ~room
  /\ room' = TRUE
  /\ UNCHANGED <<wrShut, wire, peer, sockErr>>

PeerCloses ==
  /\ "close" \in PeerActs
  /\ peer = "open" /\ peer' = "closed"
  /\ UNCHANGED <<room, wrShut, wire, sockErr>>

PeerResets ==
  /\ "reset" \in PeerActs
  /\ peer # "reset" /\ peer' = "reset"
  /\ sockErr' = TRUE
  /\ UNCHANGED <<room, wrShut, wire>>

PeerStep == UNCHANGED <<connVars, loopVars, threadVars, fate, sends, news>>

-----------------------------------------------------------------------------
\* The program has not stopped, neither before nor in the destructor of the channel,
\* which asserts that it has been removed.
Running == crashed = "no" /\ (Owned \/ index_ = "kNew")

LoopStep ==
  /\ Running
  /\ \/ ConnectEstablished \/ ConnectDestroyed \/ Remove \/ RunRawFunctor
     \/ CloseOrErrorCallback \/ RemoveConnection \/ HandleRead \/ HandleWrite
     \/ PollEvents \/ HandleEvent \/ HandlerReturn \/ DoPendingFunctors \/ FunctorsDone
     \/ UserReturns

UserCalls ==
  \/ \E m \in Messages : SendSelf(m)
  \/ ShutdownSelf
  \/ \E t \in Threads : HandOn(t)
  \/ ServerGoes

\* The rest of a call that a thread has begun.
ThreadGoesOn(t) == Running /\ (ShutdownSets(t) \/ RunInLoop(t))

ThreadBegins(t) ==
  (\E m \in Messages : Send(t, m)) \/ TextGoes(t) \/ Shutdown(t) \/ Drop(t)

Next ==
  \/ LoopStep
  \/ Running /\ UserCalls
  \/ \E t \in Threads : ThreadGoesOn(t) \/ (Running /\ ThreadBegins(t))
  \/ Running /\ PeerStep /\ (PeerReads \/ PeerCloses \/ PeerResets)

SafeSpec == Init /\ [][Next]_vars

\* The loop runs, calls that have begun go on, and a peer that stays reads.
Spec ==
  /\ SafeSpec
  /\ WF_vars(LoopStep)
  /\ \A t \in Threads : WF_vars(ThreadGoesOn(t))
  /\ WF_vars(Running /\ PeerStep /\ PeerReads)

-----------------------------------------------------------------------------
(* Properties *)

\* What the kernel has taken, followed by what is buffered, is the stream of the
\* messages sendInLoop() took: no byte is lost, doubled or overtaken between the
\* direct write, the buffer and handleWrite(), as long as no append writes behind
\* the buffer.  The messages are what was in the strings when sendInLoop() ran.
StreamInOrder == crashed # "overrun" => wire \o outputBuffer_ = Sending!Stream(taken)

\* The connection with its buffer, handleWrite() and the threads that send and shut down
\* implements the byte stream, up to a write behind the buffer: what has gone out is
\* never taken back or overtaken, and nothing is taken or written behind the end that
\* shutdown() sends.
ImplementsStream == Sending!Spec

\* Until the connection is closed, epollout is asked for exactly while something is
\* buffered: no bytes are forgotten in the buffer, and no loop spins.
WritingIffBuffered == told = "up" => (Writing <=> outputBuffer_ # <<>>)

\* shutdown() waits for the output: whichever thread calls it, the write side of an
\* open connection is shut only when every byte taken has been written.
FlushedBeforeFin == wrShut /\ told = "up" => outputBuffer_ = <<>>

\* remove() finds no event of interest, unless a shutdown() overwrote kDisconnected or
\* the server went between shutdown() and the close, and finds the channel in the
\* poller, unless a shutdown() overwrote kDisconnected, even if the server goes in a
\* handler.
RemoveAssertsHold ==
  /\ crashed = "isNoneEvent" => anomalies \cap {"lateShutdown", "serverGone"} # {}
  /\ crashed = "index" => "lateShutdown" \in anomalies

\* A connection does not call back a server that is gone, unless the server went in a
\* handler, or a late shutdown() let a send put the connection to work again.
ServerCalledWhileThere ==
  crashed = "noServer" => anomalies \cap {"lateShutdown", "inHandler"} # {}

\* The user hears that the connection is up, then of messages, then once that it is
\* down, whoever closes it, unless an error event or a late shutdown() came or the
\* server went in a handler.
CallbacksInTurn ==
  outOfTurn => anomalies \cap {"errorEvent", "lateShutdown", "inHandler"} # {}

\* The poller never keeps the channel of a destroyed connection: the last pointer
\* goes after connectDestroyed(), wherever the server goes, unless a late shutdown()
\* let a send add the channel again.
DestroyedIsUnregistered ==
  crashed = "no" /\ ~Owned => index_ = "kNew" \/ "lateShutdown" \in anomalies

Ends == told = "down" \/ peer # "open" \/ ~Running

\* What sendInLoop() took gets written, if the connection stays and the peer reads.
TakenIsWritten == (outputBuffer_ # <<>>) ~> (outputBuffer_ = <<>> \/ Ends)

\* shutdown() leads to the end of the stream being sent, on a connection that stays.
ShutdownSendsFin == (state_ = "kDisconnecting") ~> (wrShut \/ Ends)

\* A connection the user was told is down leaves the poller, unless a late shutdown()
\* let a send that was under way add it again.
DownIsRemoved ==
  (told = "down") ~> (index_ = "kNew" \/ "lateShutdown" \in anomalies \/ ~Running)

\* "Make sure there are no events of interest": the assert in Channel::remove.
NoneEventAtRemove == crashed # "isNoneEvent"

\* "Send the data": when the functor that send() has queued runs, the data it is bound to
\* are there, and the connection is, as it is for that of shutdown().
BoundStillThere == crashed \notin {"dangling", "noText"}

=============================================================================
