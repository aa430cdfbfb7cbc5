------------------------- MODULE TcpConnectionProofs -------------------------
(***************************************************************************)
(* Theorems about TcpConnection, for any number of threads and messages    *)
(* of any size, any high water mark, and whatever peer and server may do.  *)
(***************************************************************************)
EXTENDS TcpConnection, SequenceLemmas

\* Work in which every sendInLoop() is bound to the string of a thread.
WithString(calls) == {w \in Work(calls) : w.call = "sendInLoop" => w.buf \in Threads}

AllCalls == WithString(LoopCalls)
FunctorCalls == WithString(StrongFunctors \cup RawFunctors)

-----------------------------------------------------------------------------
(* The stream of messages *)

\* Every place of the stream belongs to one message.
LEMMA PlaceInStream ==
  ASSUME NEW n \in Nat, NEW k \in 1..(n * MessageSize)
  PROVE  /\ ((k - 1) \div MessageSize) + 1 \in 1..n
         /\ ((k - 1) % MessageSize) + 1 \in 1..MessageSize
<1>1. MessageSize \in Nat /\ MessageSize > 0 /\ n * MessageSize \in Nat
  BY TcpConnectionAssumption
<1>2. k - 1 \in Nat /\ k - 1 < n * MessageSize
  BY <1>1
<1>3. /\ (k - 1) \div MessageSize \in Nat
      /\ (k - 1) % MessageSize \in 0..(MessageSize - 1)
      /\ k - 1 = MessageSize * ((k - 1) \div MessageSize) + ((k - 1) % MessageSize)
  BY <1>1, <1>2, Z3
<1>4. (k - 1) \div MessageSize < n
  <2> DEFINE q == (k - 1) \div MessageSize
  <2> SUFFICES ASSUME q >= n PROVE FALSE
    BY <1>3
  <2>1. MessageSize * q >= MessageSize * n
    BY <1>1, <1>3, Z3
  <2> QED
    BY <2>1, <1>1, <1>2, <1>3, Z3
<1> QED
  BY <1>1, <1>3, <1>4

\* The stream is a sequence of bytes, as many as the messages have.
LEMMA StreamType ==
  ASSUME NEW s \in Seq(Messages)
  PROVE  /\ Sending!Stream(s) \in Seq(Bytes)
         /\ Len(Sending!Stream(s)) = Len(s) * MessageSize
         /\ \A k \in 1..(Len(s) * MessageSize) :
              Sending!Stream(s)[k] = <<s[((k - 1) \div MessageSize) + 1],
                                       ((k - 1) % MessageSize) + 1>>
<1> DEFINE n == Len(s) * MessageSize
<1> DEFINE byte(k) == <<s[((k - 1) \div MessageSize) + 1], ((k - 1) % MessageSize) + 1>>
<1>1. n \in Nat /\ Len(s) \in Nat
  BY TcpConnectionAssumption
<1>2. \A k \in 1..n : byte(k) \in Bytes
  BY <1>1, PlaceInStream, ElementOfSeq DEF Bytes
<1>3. Sending!Stream(s) = [k \in 1..n |-> byte(k)]
  BY DEF Sending!Stream
<1> HIDE DEF byte, n
<1>4. [k \in 1..n |-> byte(k)] \in Seq(Bytes) /\ Len([k \in 1..n |-> byte(k)]) = n
  BY <1>1, <1>2
<1>5. \A k \in 1..n : [j \in 1..n |-> byte(j)][k] = byte(k)
  OBVIOUS
<1> QED
  BY <1>3, <1>4, <1>5 DEF byte, n

-----------------------------------------------------------------------------
(* Type correctness *)

\* TypeOK in parts.
ConnTypes ==
  /\ state_ \in {"kDisconnected", "kConnecting", "kConnected", "kDisconnecting"}
  /\ events_ \in SUBSET {"in", "out"}
  /\ index_ \in {"kNew", "kAdded", "kDeleted"}
  /\ outputBuffer_ \in Seq(Bytes)
  /\ connections_ \in {"holds", "erased", "destroyed"}

PointerTypes ==
  /\ phase \in {"poll", "dispatch", "functors"}
  /\ held \in BOOLEAN
  /\ holders \in SUBSET Threads

SocketTypes ==
  /\ room \in BOOLEAN /\ wrShut \in BOOLEAN /\ sockErr \in BOOLEAN
  /\ wire \in Seq(Bytes)
  /\ peer \in {"open", "closed", "reset"}

HistoryTypes ==
  /\ crashed \in {"no", "isNoneEvent", "index", "dangling", "noServer", "noChannel",
                  "noText", "overrun"}
  /\ anomalies \in SUBSET {"errorEvent", "lateShutdown", "serverGone", "inHandler"}
  /\ taken \in Seq(Messages)
  /\ offered \in SUBSET Messages
  /\ told \in {"nothing", "up", "down"} /\ outOfTurn \in BOOLEAN

StateTypes == ConnTypes /\ PointerTypes /\ SocketTypes /\ HistoryTypes

\* sendInLoop() is bound to a string wherever it waits to be called.
WorkTypes ==
  /\ todo \in Seq(AllCalls)
  /\ pendingFunctors_ \in Seq(FunctorCalls)
  /\ pc \in [Threads -> WithString(ThreadCalls)]
  /\ text \in [Threads -> Messages \cup {NoMessage}]

TypeInv == StateTypes /\ WorkTypes

\* The calls that are made are calls.
LEMMA CallTypes ==
  /\ \A c \in LoopCalls \ {"sendInLoop"} : Call(c) \in AllCalls
  /\ \A c \in StrongFunctors \cup {"shutdownInLoop"} : Call(c) \in FunctorCalls
  /\ \A c \in ThreadCalls \ {"sendInLoop"} : Call(c) \in WithString(ThreadCalls)
  /\ FunctorCalls \subseteq AllCalls
  /\ Seq(FunctorCalls) \subseteq Seq(AllCalls)
  /\ Seq(AllCalls) \subseteq Seq(Work(LoopCalls))
  /\ Seq(FunctorCalls) \subseteq Seq(Work(StrongFunctors \cup RawFunctors))
<1>1. /\ FunctorCalls \subseteq AllCalls /\ AllCalls \subseteq Work(LoopCalls)
      /\ FunctorCalls \subseteq Work(StrongFunctors \cup RawFunctors)
  BY DEF FunctorCalls, AllCalls, WithString, Work, LoopCalls
<1>2. ASSUME NEW c \in LoopCalls \ {"sendInLoop"} PROVE Call(c) \in AllCalls
  BY DEF AllCalls, WithString, Work, Call
<1>3. ASSUME NEW c \in StrongFunctors \cup {"shutdownInLoop"} PROVE Call(c) \in FunctorCalls
  BY DEF FunctorCalls, WithString, Work, Call, RawFunctors, StrongFunctors
<1>4. ASSUME NEW c \in ThreadCalls \ {"sendInLoop"}
      PROVE  Call(c) \in WithString(ThreadCalls)
  BY DEF WithString, Work, Call
<1>5. ASSUME NEW S, NEW T, S \subseteq T PROVE Seq(S) \subseteq Seq(T)
  BY <1>5, SeqMonotonic
<1> QED
  BY <1>1, <1>2, <1>3, <1>4, <1>5

\* What the buffer and the queue become has the right types.
LEMMA BuffersTypes ==
  ASSUME TypeInv, NEW data \in Seq(Bytes), Buffers(data)
  PROVE  /\ events_' \in SUBSET {"in", "out"} /\ index_' \in {"kNew", "kAdded", "kDeleted"}
         /\ outputBuffer_' \in Seq(Bytes)
         /\ pendingFunctors_' \in Seq(FunctorCalls)
         /\ crashed' \in {crashed, "overrun"}
<1>1. /\ outputBuffer_ \in Seq(Bytes) /\ pendingFunctors_ \in Seq(FunctorCalls)
      /\ events_ \in SUBSET {"in", "out"} /\ index_ \in {"kNew", "kAdded", "kDeleted"}
  BY DEF TypeInv, StateTypes, ConnTypes, WorkTypes
<1>2. Append(pendingFunctors_, Call("highWaterMarkCallback_")) \in Seq(FunctorCalls)
  BY <1>1, CallTypes DEF StrongFunctors
<1>3. pendingFunctors_' \in Seq(FunctorCalls)
  BY <1>1, <1>2, Zenon DEF Buffers, Queues
<1>4. CASE crashed' = "overrun" /\ UNCHANGED <<outputBuffer_, channelVars>>
  BY <1>1, <1>3, <1>4 DEF channelVars
<1>5. CASE /\ outputBuffer_' = outputBuffer_ \o data
           /\ IF Writing THEN UNCHANGED channelVars ELSE SetEvents(events_ \cup {"out"})
           /\ UNCHANGED crashed
  <2>1. outputBuffer_' \in Seq(Bytes)
    BY <1>1, <1>5, ConcatProperties
  <2>2. /\ events_' \in SUBSET {"in", "out"}
        /\ index_' \in {"kNew", "kAdded", "kDeleted"}
    BY <1>1, <1>5 DEF SetEvents, channelVars
  <2> QED
    BY <1>3, <1>5, <2>1, <2>2
<1> QED
  BY <1>4, <1>5, Zenon DEF Buffers

\* sendInLoop() keeps the types of what it changes.
LEMMA SendInLoopTypes ==
  ASSUME TypeInv, NEW m \in Messages \cup {NoMessage}, SendInLoop(m)
  PROVE  /\ events_' \in SUBSET {"in", "out"} /\ index_' \in {"kNew", "kAdded", "kDeleted"}
         /\ outputBuffer_' \in Seq(Bytes) /\ wire' \in Seq(Bytes)
         /\ pendingFunctors_' \in Seq(FunctorCalls)
         /\ room' \in BOOLEAN /\ sockErr' \in BOOLEAN /\ peer' = peer
         /\ taken' \in Seq(Messages)
         /\ crashed' \in {crashed, "overrun", "noText"}
<1> DEFINE data == Sending!Stream(<<m>>)
<1>1. /\ outputBuffer_ \in Seq(Bytes) /\ pendingFunctors_ \in Seq(FunctorCalls)
      /\ events_ \in SUBSET {"in", "out"} /\ index_ \in {"kNew", "kAdded", "kDeleted"}
      /\ wire \in Seq(Bytes) /\ room \in BOOLEAN /\ sockErr \in BOOLEAN
      /\ taken \in Seq(Messages)
  BY DEF TypeInv, StateTypes, ConnTypes, WorkTypes, SocketTypes, HistoryTypes
<1>2. ASSUME m \in Messages
      PROVE  /\ data \in Seq(Bytes) /\ Len(data) = MessageSize /\ MessageSize \in Nat \ {0}
             /\ Append(taken, m) \in Seq(Messages)
  <2>1. <<m>> \in Seq(Messages) /\ Len(<<m>>) = 1
    BY <1>2
  <2>2. Len(<<m>>) * MessageSize = MessageSize
    BY <2>1, TcpConnectionAssumption
  <2>3. Append(taken, m) \in Seq(Messages)
    BY <1>1, <1>2
  <2> QED
    BY <2>1, <2>2, <2>3, StreamType, TcpConnectionAssumption
<1>3. CASE GivesUp /\ sockErr' = (sockErr /\ state_ = "kDisconnected")
           /\ UNCHANGED <<channelVars, outputBuffer_, pendingFunctors_, room, wire, peer,
                          crashed, taken>>
  BY <1>1, <1>3 DEF channelVars
<1>4. CASE ~GivesUp /\ m = NoMessage /\ crashed' = "noText"
           /\ UNCHANGED <<channelVars, outputBuffer_, pendingFunctors_, room, wire, peer,
                          sockErr, taken>>
  BY <1>1, <1>4 DEF channelVars
<1>5. ASSUME m # NoMessage, NEW n \in Writable(MessageSize), Write(data, n),
             \/ /\ n = MessageSize
                /\ Queues("writeCompleteCallback_")
                /\ UNCHANGED <<channelVars, outputBuffer_, crashed>>
             \/ /\ n # MessageSize
                /\ Buffers(SubSeq(data, n + 1, MessageSize)),
             taken' = Append(taken, m)
      PROVE  /\ events_' \in SUBSET {"in", "out"} /\ index_' \in {"kNew", "kAdded", "kDeleted"}
             /\ outputBuffer_' \in Seq(Bytes) /\ wire' \in Seq(Bytes)
             /\ pendingFunctors_' \in Seq(FunctorCalls)
             /\ room' \in BOOLEAN /\ sockErr' \in BOOLEAN /\ peer' = peer
             /\ taken' \in Seq(Messages)
             /\ crashed' \in {crashed, "overrun", "noText"}
  <2>1. m \in Messages
    BY <1>5
  <2>2. /\ data \in Seq(Bytes) /\ Len(data) = MessageSize /\ MessageSize \in Nat \ {0}
        /\ taken' \in Seq(Messages)
    BY <1>2, <1>5, <2>1
  <2> HIDE DEF data
  <2>3. n \in 0..MessageSize
    BY <2>2, <1>5 DEF Writable
  <2>4. SubSeq(data, 1, n) \in Seq(Bytes) /\ SubSeq(data, n + 1, MessageSize) \in Seq(Bytes)
    BY <2>2, <2>3, SubSeqProperties
  <2>5. /\ wire' = wire \o SubSeq(data, 1, n) /\ room' \in BOOLEAN
        /\ sockErr' = sockErr /\ peer' = peer
    BY <1>5 DEF Write
  <2>6. wire' \in Seq(Bytes)
    BY <1>1, <2>4, <2>5, ConcatProperties
  <2>7. Append(pendingFunctors_, Call("writeCompleteCallback_")) \in Seq(FunctorCalls)
    BY <1>1, CallTypes DEF StrongFunctors
  <2>8. CASE /\ Queues("writeCompleteCallback_")
             /\ UNCHANGED <<channelVars, outputBuffer_, crashed>>
    BY <1>1, <2>2, <2>5, <2>6, <2>7, <2>8 DEF Queues, channelVars
  <2>9. CASE Buffers(SubSeq(data, n + 1, MessageSize))
    BY <1>1, <2>2, <2>4, <2>5, <2>6, <2>9, BuffersTypes
  <2> QED
    BY <1>5, <2>8, <2>9
<1>6. CASE ~GivesUp /\ m # NoMessage /\ ~WritesAtOnce /\ Buffers(data)
           /\ taken' = Append(taken, m) /\ UNCHANGED <<room, wire, peer, sockErr>>
  <2>1. data \in Seq(Bytes) /\ taken' \in Seq(Messages)
    BY <1>2, <1>6
  <2> HIDE DEF data
  <2> QED
    BY <1>1, <1>6, <2>1, BuffersTypes
<1> QED
  BY <1>3, <1>4, <1>5, <1>6 DEF SendInLoop

\* The type invariant is stronger than TypeOK.
LEMMA TypeInvTypes == TypeInv => TypeOK
<1> SUFFICES ASSUME TypeInv PROVE TypeOK
  OBVIOUS
<1>1. /\ todo \in Seq(Work(LoopCalls))
      /\ pendingFunctors_ \in Seq(Work(StrongFunctors \cup RawFunctors))
  BY CallTypes DEF TypeInv, WorkTypes
<1>2. /\ pc \in [Threads -> Work(ThreadCalls)]
      /\ text \in [Threads -> Messages \cup {NoMessage}]
  BY DEF TypeInv, WorkTypes, WithString
<1> QED
  BY <1>1, <1>2 DEF TypeInv, StateTypes, ConnTypes, PointerTypes, SocketTypes,
                  HistoryTypes, TypeOK

\* What the head of todo leaves is work again.
LEMMA LeavesTypes ==
  ASSUME WorkTypes, todo # <<>>, NEW work \in Seq(AllCalls), Leaves(work)
  PROVE  todo' \in Seq(AllCalls)
  BY LeftCalls DEF WorkTypes, Leaves

\* The handlers that handleEvent() calls are work.
LEMMA HandlersTypes ==
  ASSUME NEW revents
  PROVE  HandlersOf(revents) \in Seq(AllCalls)
<1>1. \A c \in Handlers : <<Call(c)>> \in Seq(AllCalls) /\ <<>> \in Seq(AllCalls)
  BY CallTypes DEF LoopCalls, Handlers
<1> DEFINE OnlyIf(test, handler) == IF test THEN <<Call(handler)>> ELSE <<>>
<1> DEFINE a == OnlyIf("hup" \in revents /\ "in" \notin revents, "closeCallback")
<1> DEFINE b == OnlyIf("err" \in revents, "errorCallback")
<1> DEFINE c == OnlyIf("in" \in revents, "readCallback")
<1> DEFINE d == OnlyIf("out" \in revents, "writeCallback")
<1>2. a \in Seq(AllCalls) /\ b \in Seq(AllCalls) /\ c \in Seq(AllCalls)
      /\ d \in Seq(AllCalls)
  BY <1>1 DEF Handlers
<1>3. HandlersOf(revents) = a \o b \o c \o d
  BY Zenon DEF HandlersOf
<1> HIDE DEF a, b, c, d
<1>4. a \o b \in Seq(AllCalls)
  BY <1>2, ConcatProperties
<1>5. a \o b \o c \in Seq(AllCalls)
  BY <1>2, <1>4, ConcatProperties
<1> QED
  BY <1>2, <1>3, <1>5, ConcatProperties

\* What does not change keeps its types.
LEMMA SameTypes ==
  ASSUME TypeInv
  PROVE  /\ UNCHANGED connVars => ConnTypes'
         /\ UNCHANGED <<phase, held, holders>> => PointerTypes'
         /\ UNCHANGED socketVars => SocketTypes'
         /\ UNCHANGED <<fate, sends, news>> => HistoryTypes'
         /\ UNCHANGED <<todo, pendingFunctors_, pc, text>> => WorkTypes'
<1>1. ASSUME UNCHANGED connVars PROVE ConnTypes'
  BY <1>1 DEF TypeInv, StateTypes, ConnTypes, connVars, channelVars
<1>2. ASSUME UNCHANGED <<phase, held, holders>> PROVE PointerTypes'
  BY <1>2 DEF TypeInv, StateTypes, PointerTypes
<1>3. ASSUME UNCHANGED socketVars PROVE SocketTypes'
  BY <1>3 DEF TypeInv, StateTypes, SocketTypes, socketVars
<1>4. ASSUME UNCHANGED <<fate, sends, news>> PROVE HistoryTypes'
  BY <1>4 DEF TypeInv, StateTypes, HistoryTypes, fate, sends, news
<1>5. ASSUME UNCHANGED <<todo, pendingFunctors_, pc, text>> PROVE WorkTypes'
  BY <1>5 DEF TypeInv, WorkTypes
<1> QED
  BY <1>1, <1>2, <1>3, <1>4, <1>5

\* A step keeps the types.
LEMMA TypeInvStep == TypeInv /\ [Next]_vars => TypeInv'
<1> SUFFICES ASSUME TypeInv, [Next]_vars PROVE TypeInv'
  OBVIOUS
<1> USE SameTypes DEF TypeInv, StateTypes, channelVars, connVars, loopVars, threadVars,
            socketVars, fate, sends, news
<1>a. /\ <<>> \in Seq(AllCalls)
      /\ \A c \in LoopCalls \ {"sendInLoop"} : <<Call(c)>> \in Seq(AllCalls)
      /\ \A c, d \in LoopCalls \ {"sendInLoop"} : <<Call(c), Call(d)>> \in Seq(AllCalls)
      /\ \A c \in StrongFunctors : Append(pendingFunctors_, Call(c)) \in Seq(FunctorCalls)
  BY CallTypes DEF WorkTypes
<1>b. ASSUME NEW c, Does(c) PROVE todo # <<>>
  BY <1>b DEF Does
<1>c. ASSUME NEW c, NEW d, Leaves(<<Call(c), Call(d)>>), todo # <<>>,
             c \in LoopCalls \ {"sendInLoop"}, d \in LoopCalls \ {"sendInLoop"}
      PROVE  todo' \in Seq(AllCalls)
  BY <1>a, <1>c, LeavesTypes
<1>d. ASSUME NEW c, Leaves(<<Call(c)>>), todo # <<>>, c \in LoopCalls \ {"sendInLoop"}
      PROVE  todo' \in Seq(AllCalls)
  BY <1>a, <1>d, LeavesTypes
<1>e. ASSUME Leaves(<<>>), todo # <<>> PROVE todo' \in Seq(AllCalls)
  BY <1>a, <1>e, LeavesTypes
<1>f. ASSUME HandleClose, todo # <<>>
      PROVE  /\ todo' \in Seq(AllCalls)
             /\ state_' = "kDisconnected" /\ events_' = {}
             /\ index_' \in {"kNew", "kAdded", "kDeleted"}
             /\ told' = "down" /\ outOfTurn' \in BOOLEAN
  <2>1. todo' \in Seq(AllCalls)
    BY <1>c, <1>f DEF HandleClose, LoopCalls, UserCallbacks, StrongFunctors
  <2> QED
    BY <1>f, <2>1 DEF HandleClose, SetEvents, Tell
<1>1. CASE ConnectEstablished
  <2>1. todo' \in Seq(AllCalls)
    BY <1>1, <1>b, <1>d DEF ConnectEstablished, LoopCalls, UserCallbacks
  <2>2. WorkTypes'
    BY <1>1, <2>1 DEF ConnectEstablished, WorkTypes
  <2>3. ConnTypes'
    BY <1>1 DEF ConnectEstablished, ConnTypes, SetEvents
  <2>4. PointerTypes'
    BY <1>1 DEF ConnectEstablished
  <2>5. SocketTypes'
    BY <1>1 DEF ConnectEstablished
  <2>6. HistoryTypes'
    BY <1>1 DEF ConnectEstablished, HistoryTypes, Tell
  <2> QED
    BY <2>2, <2>3, <2>4, <2>5, <2>6, Zenon
<1>2. CASE ConnectDestroyed
  <2>1. todo' \in Seq(AllCalls)
    BY <1>2, <1>b, <1>c, <1>d DEF ConnectDestroyed, LoopCalls, UserCallbacks
  <2>2. WorkTypes'
    BY <1>2, <2>1 DEF ConnectDestroyed, WorkTypes
  <2>3. ConnTypes'
    BY <1>2 DEF ConnectDestroyed, ConnTypes, SetEvents
  <2>4. PointerTypes'
    BY <1>2 DEF ConnectDestroyed
  <2>5. SocketTypes'
    BY <1>2 DEF ConnectDestroyed
  <2>6. HistoryTypes'
    BY <1>2 DEF ConnectDestroyed, HistoryTypes, Tell
  <2> QED
    BY <2>2, <2>3, <2>4, <2>5, <2>6, Zenon
<1>3. CASE Remove
  <2>1. WorkTypes'
    BY <1>3, <1>b, <1>e DEF Remove, WorkTypes
  <2>2. ConnTypes'
    BY <1>3 DEF Remove, ConnTypes
  <2>3. PointerTypes'
    BY <1>3 DEF Remove
  <2>4. SocketTypes'
    BY <1>3 DEF Remove
  <2>5. HistoryTypes'
    BY <1>3 DEF Remove, HistoryTypes
  <2> QED
    BY <2>1, <2>2, <2>3, <2>4, <2>5, Zenon
<1>4. CASE RunRawFunctor
  <2>1. todo' \in Seq(AllCalls)
    BY <1>4, <1>b, <1>e DEF RunRawFunctor
  <2>2. /\ events_' \in SUBSET {"in", "out"} /\ index_' \in {"kNew", "kAdded", "kDeleted"}
        /\ outputBuffer_' \in Seq(Bytes) /\ wire' \in Seq(Bytes)
        /\ pendingFunctors_' \in Seq(FunctorCalls)
        /\ room' \in BOOLEAN /\ sockErr' \in BOOLEAN /\ peer' = peer
        /\ taken' \in Seq(Messages)
        /\ wrShut' \in BOOLEAN /\ crashed' \in {crashed, "dangling", "overrun", "noText"}
    <3>1. CASE ~Owned
      BY <1>4, <3>1 DEF RunRawFunctor, WorkTypes, ConnTypes, SocketTypes, HistoryTypes
    <3>2. CASE /\ Does({"sendInLoop"}) /\ SendInLoop(text[Head(todo).buf])
               /\ UNCHANGED wrShut
      <4>1. Head(todo) \in AllCalls
        BY <3>2 DEF Does, WorkTypes
      <4>2. Head(todo).buf \in Threads
        BY <3>2, <4>1 DEF AllCalls, WithString, Does
      <4>3. text[Head(todo).buf] \in Messages \cup {NoMessage}
        BY <4>2 DEF WorkTypes
      <4>4. wrShut' \in BOOLEAN
        BY <3>2 DEF SocketTypes
      <4> QED
        BY <3>2, <4>3, <4>4, SendInLoopTypes
    <3>3. CASE /\ wrShut' = ShutWrite(Writing)
               /\ UNCHANGED <<channelVars, outputBuffer_, pendingFunctors_, room, wire, peer,
                              sockErr, crashed, taken>>
      BY <3>3 DEF ShutWrite, WorkTypes, ConnTypes, SocketTypes, HistoryTypes
    <3> QED
      BY <1>4, <3>1, <3>2, <3>3, Zenon DEF RunRawFunctor
  <2>3. WorkTypes'
    BY <1>4, <2>1, <2>2 DEF RunRawFunctor, WorkTypes
  <2>4. ConnTypes'
    BY <1>4, <2>2 DEF RunRawFunctor, ConnTypes
  <2>5. PointerTypes'
    BY <1>4 DEF RunRawFunctor
  <2>6. SocketTypes'
    BY <1>4, <2>2 DEF RunRawFunctor, SocketTypes
  <2>7. HistoryTypes'
    BY <1>4, <2>2 DEF RunRawFunctor, HistoryTypes
  <2> QED
    BY <2>3, <2>4, <2>5, <2>6, <2>7, Zenon
<1>5. CASE CloseOrErrorCallback
  <2>1. /\ todo' \in Seq(AllCalls)
        /\ state_' = "kDisconnected" /\ events_' = {}
        /\ index_' \in {"kNew", "kAdded", "kDeleted"}
        /\ told' = "down" /\ outOfTurn' \in BOOLEAN
    BY <1>5, <1>b, <1>f DEF CloseOrErrorCallback
  <2>2. WorkTypes'
    BY <1>5, <2>1 DEF CloseOrErrorCallback, WorkTypes
  <2>3. ConnTypes'
    BY <1>5, <2>1 DEF CloseOrErrorCallback, ConnTypes
  <2>4. PointerTypes'
    BY <1>5 DEF CloseOrErrorCallback
  <2>5. SocketTypes'
    BY <1>5 DEF CloseOrErrorCallback
  <2>6. HistoryTypes'
    BY <1>5, <2>1 DEF CloseOrErrorCallback, HistoryTypes
  <2> QED
    BY <2>2, <2>3, <2>4, <2>5, <2>6, Zenon
<1>6. CASE RemoveConnection
  <2>1. WorkTypes'
    BY <1>6, <1>a, <1>b, <1>e DEF RemoveConnection, WorkTypes, Queues, StrongFunctors
  <2>2. ConnTypes'
    BY <1>6 DEF RemoveConnection, ConnTypes
  <2>3. PointerTypes'
    BY <1>6 DEF RemoveConnection
  <2>4. SocketTypes'
    BY <1>6 DEF RemoveConnection
  <2>5. HistoryTypes'
    BY <1>6 DEF RemoveConnection, HistoryTypes
  <2> QED
    BY <2>1, <2>2, <2>3, <2>4, <2>5, Zenon
<1>7. CASE HandleRead
  <2>1. todo' \in Seq(AllCalls)
    BY <1>7, <1>b, <1>d, <1>e, <1>f DEF HandleRead, LoopCalls, UserCallbacks
  <2>2. WorkTypes'
    BY <1>7, <2>1 DEF HandleRead, WorkTypes
  <2>3. ConnTypes'
    BY <1>7, <1>b, <1>f DEF HandleRead, ConnTypes
  <2>4. PointerTypes'
    BY <1>7 DEF HandleRead
  <2>5. SocketTypes'
    BY <1>7 DEF HandleRead, SocketTypes
  <2>6. HistoryTypes'
    BY <1>7, <1>b, <1>f DEF HandleRead, HistoryTypes
  <2> QED
    BY <2>2, <2>3, <2>4, <2>5, <2>6, Zenon
<1>8. CASE HandleWrite
  <2>1. todo' \in Seq(AllCalls)
    BY <1>8, <1>b, <1>e DEF HandleWrite
  <2>2. ASSUME NEW n \in Writable(Len(outputBuffer_)), Write(outputBuffer_, n),
               outputBuffer_' = SubSeq(outputBuffer_, n + 1, Len(outputBuffer_)),
               IF n = Len(outputBuffer_)
               THEN Drained
               ELSE UNCHANGED <<channelVars, pendingFunctors_, wrShut>>
        PROVE  /\ outputBuffer_' \in Seq(Bytes) /\ wire' \in Seq(Bytes)
               /\ room' \in BOOLEAN /\ UNCHANGED <<peer, sockErr>>
               /\ events_' \in SUBSET {"in", "out"}
               /\ index_' \in {"kNew", "kAdded", "kDeleted"}
               /\ pendingFunctors_' \in Seq(FunctorCalls) /\ wrShut' \in BOOLEAN
    <3> USE DEF WorkTypes, ConnTypes, SocketTypes
    <3>1. SubSeq(outputBuffer_, 1, n) \in Seq(Bytes) /\ outputBuffer_' \in Seq(Bytes)
      <4>1. Len(outputBuffer_) \in Nat /\ n \in 0..Len(outputBuffer_)
        BY DEF Writable
      <4> QED
        BY <2>2, <4>1, SubSeqProperties
    <3>2. wire' \in Seq(Bytes) /\ room' \in BOOLEAN /\ UNCHANGED <<peer, sockErr>>
      BY <2>2, <3>1, ConcatProperties DEF Write
    <3>3. /\ events_' \in SUBSET {"in", "out"}
          /\ index_' \in {"kNew", "kAdded", "kDeleted"}
          /\ pendingFunctors_' \in Seq(FunctorCalls) /\ wrShut' \in BOOLEAN
      BY <2>2, <1>a DEF Drained, SetEvents, Queues, ShutWrite, StrongFunctors
    <3> QED
      BY <3>1, <3>2, <3>3
  <2>3. /\ outputBuffer_' \in Seq(Bytes) /\ wire' \in Seq(Bytes)
        /\ room' \in BOOLEAN /\ sockErr' \in BOOLEAN /\ peer' = peer
        /\ events_' \in SUBSET {"in", "out"}
        /\ index_' \in {"kNew", "kAdded", "kDeleted"}
        /\ pendingFunctors_' \in Seq(FunctorCalls) /\ wrShut' \in BOOLEAN
    <3>1. CASE UNCHANGED <<wire, outputBuffer_, room, wrShut, peer, channelVars,
                           pendingFunctors_>>
      BY <1>8, <3>1, <2>2 DEF HandleWrite, WorkTypes, ConnTypes, SocketTypes
    <3>2. CASE \E n \in Writable(Len(outputBuffer_)) :
                  /\ Write(outputBuffer_, n)
                  /\ outputBuffer_' = SubSeq(outputBuffer_, n + 1, Len(outputBuffer_))
                  /\ IF n = Len(outputBuffer_)
                     THEN Drained
                     ELSE UNCHANGED <<channelVars, pendingFunctors_, wrShut>>
      BY <2>2, <3>2 DEF SocketTypes
    <3> QED
      BY <1>8, <3>1, <3>2 DEF HandleWrite
  <2>4. WorkTypes'
    BY <1>8, <2>1, <2>3 DEF HandleWrite, WorkTypes
  <2>5. ConnTypes'
    BY <1>8, <2>3 DEF HandleWrite, ConnTypes
  <2>6. PointerTypes'
    BY <1>8 DEF HandleWrite
  <2>7. SocketTypes'
    BY <1>8, <2>3 DEF HandleWrite, SocketTypes
  <2>8. HistoryTypes'
    BY <1>8 DEF HandleWrite
  <2> QED
    BY <2>4, <2>5, <2>6, <2>7, <2>8, Zenon
<1>9. CASE PollEvents
  <2>1. todo' \in Seq(AllCalls)
    BY <1>9, HandlersTypes DEF PollEvents
  <2>2. WorkTypes'
    BY <1>9, <2>1 DEF PollEvents, WorkTypes
  <2>3. ConnTypes'
    BY <1>9 DEF PollEvents
  <2>4. PointerTypes'
    BY <1>9 DEF PollEvents, PointerTypes
  <2>5. SocketTypes'
    BY <1>9 DEF PollEvents
  <2>6. HistoryTypes'
    BY <1>9 DEF PollEvents, HistoryTypes
  <2> QED
    BY <2>2, <2>3, <2>4, <2>5, <2>6, Zenon
<1>10. CASE DoPendingFunctors
  <2>1. todo' \in Seq(AllCalls)
    BY <1>10, CallTypes DEF DoPendingFunctors, WorkTypes
  <2>2. pendingFunctors_' \in Seq(FunctorCalls)
    BY <1>10 DEF DoPendingFunctors
  <2>3. held' \in BOOLEAN
    BY <1>10 DEF DoPendingFunctors, HoldsPointer
  <2>4. WorkTypes'
    BY <1>10, <2>1, <2>2 DEF DoPendingFunctors, WorkTypes
  <2>5. ConnTypes'
    BY <1>10 DEF DoPendingFunctors
  <2>6. PointerTypes'
    BY <1>10, <2>3 DEF DoPendingFunctors, PointerTypes
  <2>7. SocketTypes'
    BY <1>10 DEF DoPendingFunctors
  <2>8. HistoryTypes'
    BY <1>10 DEF DoPendingFunctors
  <2> QED
    BY <2>4, <2>5, <2>6, <2>7, <2>8, Zenon
<1>11. CASE FunctorsDone
  <2>1. WorkTypes'
    BY <1>11 DEF FunctorsDone, WorkTypes
  <2>2. ConnTypes'
    BY <1>11 DEF FunctorsDone
  <2>3. PointerTypes'
    BY <1>11 DEF FunctorsDone, PointerTypes
  <2>4. SocketTypes'
    BY <1>11 DEF FunctorsDone
  <2>5. HistoryTypes'
    BY <1>11 DEF FunctorsDone
  <2> QED
    BY <2>1, <2>2, <2>3, <2>4, <2>5, Zenon
<1>12. CASE UserReturns
  <2>1. WorkTypes'
    BY <1>12, <1>b, <1>e DEF UserReturns, WorkTypes
  <2>2. ConnTypes'
    BY <1>12 DEF UserReturns
  <2>3. PointerTypes'
    BY <1>12 DEF UserReturns
  <2>4. SocketTypes'
    BY <1>12 DEF UserReturns
  <2>5. HistoryTypes'
    BY <1>12 DEF UserReturns
  <2> QED
    BY <2>1, <2>2, <2>3, <2>4, <2>5, Zenon
<1>13. ASSUME NEW m \in Messages, SendSelf(m) PROVE TypeInv'
  <2>1. WorkTypes'
    BY <1>13, SendInLoopTypes DEF SendSelf, WorkTypes
  <2>2. ConnTypes'
    BY <1>13, SendInLoopTypes DEF SendSelf, ConnTypes
  <2>3. PointerTypes'
    BY <1>13 DEF SendSelf
  <2>4. SocketTypes'
    BY <1>13, SendInLoopTypes DEF SendSelf, SocketTypes
  <2>5. HistoryTypes'
    BY <1>13, SendInLoopTypes DEF SendSelf, HistoryTypes
  <2> QED
    BY <2>1, <2>2, <2>3, <2>4, <2>5, Zenon
<1>14. CASE ShutdownSelf
  <2>1. WorkTypes'
    BY <1>14 DEF ShutdownSelf
  <2>2. ConnTypes'
    BY <1>14 DEF ShutdownSelf, ConnTypes
  <2>3. PointerTypes'
    BY <1>14 DEF ShutdownSelf
  <2>4. SocketTypes'
    BY <1>14 DEF ShutdownSelf, SocketTypes, ShutWrite
  <2>5. HistoryTypes'
    BY <1>14 DEF ShutdownSelf
  <2> QED
    BY <2>1, <2>2, <2>3, <2>4, <2>5, Zenon
<1>15. ASSUME NEW t \in Threads, HandOn(t) PROVE TypeInv'
  <2>1. WorkTypes'
    BY <1>15 DEF HandOn
  <2>2. ConnTypes'
    BY <1>15 DEF HandOn
  <2>3. PointerTypes'
    BY <1>15 DEF HandOn, PointerTypes
  <2>4. SocketTypes'
    BY <1>15 DEF HandOn
  <2>5. HistoryTypes'
    BY <1>15 DEF HandOn
  <2> QED
    BY <2>1, <2>2, <2>3, <2>4, <2>5, Zenon
<1>16. CASE ServerGoes
  <2>1. <<Call("connectDestroyed")>> \o todo \in Seq(AllCalls)
    BY <1>a, ConcatProperties DEF LoopCalls, StrongFunctors, WorkTypes
  <2>2. WorkTypes'
    BY <1>16, <2>1 DEF ServerGoes, WorkTypes
  <2>3. ConnTypes'
    BY <1>16 DEF ServerGoes, ConnTypes
  <2>4. PointerTypes'
    BY <1>16 DEF ServerGoes
  <2>5. SocketTypes'
    BY <1>16 DEF ServerGoes
  <2>6. HistoryTypes'
    BY <1>16 DEF ServerGoes, HistoryTypes
  <2> QED
    BY <2>2, <2>3, <2>4, <2>5, <2>6, Zenon
<1>17. ASSUME NEW t \in Threads, NEW m \in Messages, Send(t, m) PROVE TypeInv'
  <2>1. [call |-> "sendInLoop", buf |-> t] \in WithString(ThreadCalls)
    BY DEF WithString, Work, ThreadCalls, RawFunctors
  <2>2. WorkTypes'
    BY <1>17, <2>1 DEF Send, WorkTypes, Moves
  <2>3. ConnTypes'
    BY <1>17 DEF Send
  <2>4. PointerTypes'
    BY <1>17 DEF Send
  <2>5. SocketTypes'
    BY <1>17 DEF Send
  <2>6. HistoryTypes'
    BY <1>17 DEF Send, HistoryTypes
  <2> QED
    BY <2>2, <2>3, <2>4, <2>5, <2>6, Zenon
<1>18. ASSUME NEW t \in Threads, Shutdown(t) PROVE TypeInv'
  <2>1. Call("setState") \in WithString(ThreadCalls)
    BY CallTypes DEF ThreadCalls
  <2>2. WorkTypes'
    BY <1>18, <2>1 DEF Shutdown, WorkTypes, Moves
  <2>3. ConnTypes'
    BY <1>18 DEF Shutdown
  <2>4. PointerTypes'
    BY <1>18 DEF Shutdown
  <2>5. SocketTypes'
    BY <1>18 DEF Shutdown
  <2>6. HistoryTypes'
    BY <1>18 DEF Shutdown
  <2> QED
    BY <2>2, <2>3, <2>4, <2>5, <2>6, Zenon
<1>19. ASSUME NEW t \in Threads, ShutdownSets(t) PROVE TypeInv'
  <2>1. Call("shutdownInLoop") \in WithString(ThreadCalls)
    BY CallTypes DEF ThreadCalls, RawFunctors
  <2>2. WorkTypes'
    BY <1>19, <2>1 DEF ShutdownSets, WorkTypes, Moves
  <2>3. ConnTypes'
    BY <1>19 DEF ShutdownSets, ConnTypes
  <2>4. PointerTypes'
    BY <1>19 DEF ShutdownSets
  <2>5. SocketTypes'
    BY <1>19 DEF ShutdownSets
  <2>6. HistoryTypes'
    BY <1>19 DEF ShutdownSets, HistoryTypes
  <2> QED
    BY <2>2, <2>3, <2>4, <2>5, <2>6, Zenon
<1>20. ASSUME NEW t \in Threads, RunInLoop(t) PROVE TypeInv'
  <2>1. Call("none") \in WithString(ThreadCalls)
    BY CallTypes DEF ThreadCalls, RawFunctors
  <2>2. pc[t] \in FunctorCalls
    BY <1>20 DEF RunInLoop, Moves, WorkTypes, FunctorCalls, WithString, Work
  <2>3. WorkTypes'
    BY <1>20, <2>1, <2>2 DEF RunInLoop, WorkTypes, Moves
  <2>4. ConnTypes'
    BY <1>20 DEF RunInLoop
  <2>5. PointerTypes'
    BY <1>20 DEF RunInLoop
  <2>6. SocketTypes'
    BY <1>20 DEF RunInLoop
  <2>7. HistoryTypes'
    BY <1>20 DEF RunInLoop
  <2> QED
    BY <2>3, <2>4, <2>5, <2>6, <2>7, Zenon
<1>21. ASSUME NEW t \in Threads, Drop(t) PROVE TypeInv'
  <2>1. WorkTypes'
    BY <1>21 DEF Drop
  <2>2. ConnTypes'
    BY <1>21 DEF Drop
  <2>3. PointerTypes'
    BY <1>21 DEF Drop, PointerTypes
  <2>4. SocketTypes'
    BY <1>21 DEF Drop
  <2>5. HistoryTypes'
    BY <1>21 DEF Drop
  <2> QED
    BY <2>1, <2>2, <2>3, <2>4, <2>5, Zenon
<1>22. CASE PeerStep /\ (PeerReads \/ PeerCloses \/ PeerResets)
  <2>1. WorkTypes'
    BY <1>22 DEF PeerStep
  <2>2. ConnTypes'
    BY <1>22 DEF PeerStep
  <2>3. PointerTypes'
    BY <1>22 DEF PeerStep
  <2>4. SocketTypes'
    BY <1>22 DEF PeerStep, SocketTypes, PeerReads, PeerCloses, PeerResets
  <2>5. HistoryTypes'
    BY <1>22 DEF PeerStep
  <2> QED
    BY <2>1, <2>2, <2>3, <2>4, <2>5, Zenon
<1>23. ASSUME NEW t \in Threads, TextGoes(t) PROVE TypeInv'
  <2>1. WorkTypes'
    BY <1>23 DEF TextGoes, WorkTypes
  <2>2. ConnTypes'
    BY <1>23 DEF TextGoes
  <2>3. PointerTypes'
    BY <1>23 DEF TextGoes
  <2>4. SocketTypes'
    BY <1>23 DEF TextGoes
  <2>5. HistoryTypes'
    BY <1>23 DEF TextGoes
  <2> QED
    BY <2>1, <2>2, <2>3, <2>4, <2>5, Zenon
<1>24. CASE HandleEvent
  <2>1. held' \in BOOLEAN
    BY <1>24 DEF HandleEvent, Owned, HoldsPointer, PointerTypes
  <2>2. WorkTypes'
    BY <1>24 DEF HandleEvent
  <2>3. ConnTypes'
    BY <1>24 DEF HandleEvent
  <2>4. PointerTypes'
    BY <1>24, <2>1 DEF HandleEvent, PointerTypes
  <2>5. SocketTypes'
    BY <1>24 DEF HandleEvent
  <2>6. HistoryTypes'
    BY <1>24 DEF HandleEvent, HistoryTypes
  <2> QED
    BY <2>2, <2>3, <2>4, <2>5, <2>6, Zenon
<1>25. CASE HandlerReturn
  <2>1. WorkTypes'
    BY <1>25 DEF HandlerReturn
  <2>2. ConnTypes'
    BY <1>25 DEF HandlerReturn
  <2>3. PointerTypes'
    BY <1>25 DEF HandlerReturn, PointerTypes
  <2>4. SocketTypes'
    BY <1>25 DEF HandlerReturn
  <2>5. HistoryTypes'
    BY <1>25 DEF HandlerReturn
  <2> QED
    BY <2>1, <2>2, <2>3, <2>4, <2>5, Zenon
<1>26. CASE UNCHANGED vars
  BY <1>26 DEF vars
<1> QED
  BY <1>1, <1>2, <1>3, <1>4, <1>5, <1>6, <1>7, <1>8, <1>9, <1>10, <1>11, <1>12, <1>13,
     <1>14, <1>15, <1>16, <1>17, <1>18, <1>19, <1>20, <1>21, <1>22, <1>23, <1>24,
     <1>25, <1>26, Zenon DEF Next, LoopStep, UserCalls, ThreadGoesOn, ThreadBegins

\* A connection starts with values of the right types, and keeps them.
LEMMA TypeInvHolds == SafeSpec => []TypeInv
<1>1. Init => TypeInv
  <2> SUFFICES ASSUME Init PROVE TypeInv
    OBVIOUS
  <2>1. <<>> \in Seq(Bytes) /\ <<>> \in Seq(Messages)
    OBVIOUS
  <2>2. ConnTypes /\ PointerTypes
    BY <2>1 DEF Init, ConnTypes, PointerTypes
  <2>3. SocketTypes
    BY <2>1, Zenon DEF Init, SocketTypes
  <2>4. HistoryTypes
    BY <2>1, Zenon DEF Init, HistoryTypes
  <2>5. /\ <<Call("connectEstablished")>> \in Seq(AllCalls)
        /\ Call("none") \in WithString(ThreadCalls)
    BY CallTypes DEF LoopCalls, StrongFunctors, ThreadCalls, RawFunctors
  <2>6. WorkTypes
    BY <2>5 DEF Init, WorkTypes
  <2> QED
    BY <2>2, <2>3, <2>4, <2>6 DEF TypeInv, StateTypes
<1> QED
  BY <1>1, TypeInvStep, PTL DEF SafeSpec

\* The variables keep their types, whatever order threads, peer and loop act in.
THEOREM TcpConnectionTypeCorrect == SafeSpec => []TypeOK
BY TypeInvHolds, TypeInvTypes, PTL

-----------------------------------------------------------------------------
(* Calls in a list of work *)

\* One of those calls is in the list; those of the first kind come before all of the
\* second kind.  A call of both kinds is then there at most once.
Has(s, calls) == \E i \in DOMAIN s : s[i].call \in calls
InOrder(s, first, second) ==
  \A i, j \in DOMAIN s : s[i].call \in first /\ s[j].call \in second => i <= j

\* Has and InOrder of a list in two parts.
LEMMA HasConcat ==
  ASSUME NEW S, NEW s \in Seq(S), NEW t \in Seq(S), NEW a
  PROVE  Has(s \o t, a) <=> Has(s, a) \/ Has(t, a)
<1> DEFINE l == s \o t
<1>1. /\ Len(l) = Len(s) + Len(t) /\ Len(s) \in Nat /\ Len(t) \in Nat
      /\ \A i \in 1..Len(l) : l[i] = IF i <= Len(s) THEN s[i] ELSE t[i - Len(s)]
      /\ DOMAIN l = 1..Len(l) /\ DOMAIN s = 1..Len(s) /\ DOMAIN t = 1..Len(t)
  BY ConcatProperties
<1> HIDE DEF l
<1>2. ASSUME Has(l, a) PROVE Has(s, a) \/ Has(t, a)
  <2>1. PICK i \in 1..Len(l) : l[i].call \in a
    BY <1>1, <1>2 DEF Has
  <2>2. CASE i <= Len(s)
    BY <1>1, <2>1, <2>2 DEF Has
  <2>3. CASE i > Len(s)
    <3>1. i - Len(s) \in 1..Len(t) /\ l[i] = t[i - Len(s)]
      BY <1>1, <2>1, <2>3
    <3> QED
      BY <1>1, <2>1, <3>1 DEF Has
  <2> QED
    BY <1>1, <2>2, <2>3
<1>3. ASSUME Has(s, a) PROVE Has(l, a)
  <2>1. PICK i \in 1..Len(s) : s[i].call \in a
    BY <1>1, <1>3 DEF Has
  <2>2. i \in 1..Len(l) /\ l[i] = s[i]
    BY <1>1, <2>1
  <2> QED
    BY <1>1, <2>1, <2>2 DEF Has
<1>4. ASSUME Has(t, a) PROVE Has(l, a)
  <2>1. PICK i \in 1..Len(t) : t[i].call \in a
    BY <1>1, <1>4 DEF Has
  <2>2. i + Len(s) \in 1..Len(l) /\ l[i + Len(s)] = t[i]
    BY <1>1, <2>1
  <2> QED
    BY <1>1, <2>1, <2>2 DEF Has
<1> QED
  BY <1>2, <1>3, <1>4 DEF l

\* Two lists in a row are in order when each is, and nothing of the second
\* comes too late for the first.
LEMMA InOrderConcat ==
  ASSUME NEW S, NEW s \in Seq(S), NEW t \in Seq(S), NEW a, NEW b
  PROVE  InOrder(s \o t, a, b) <=>
           InOrder(s, a, b) /\ InOrder(t, a, b) /\ ~(Has(s, b) /\ Has(t, a))
<1> DEFINE l == s \o t
<1>1. /\ Len(l) = Len(s) + Len(t) /\ Len(s) \in Nat /\ Len(t) \in Nat
      /\ \A i \in 1..Len(l) : l[i] = IF i <= Len(s) THEN s[i] ELSE t[i - Len(s)]
      /\ DOMAIN l = 1..Len(l) /\ DOMAIN s = 1..Len(s) /\ DOMAIN t = 1..Len(t)
  BY ConcatProperties
<1> HIDE DEF l
<1>2. \A i \in 1..Len(s) : i \in 1..Len(l) /\ l[i] = s[i]
  BY <1>1
<1>3. \A i \in 1..Len(t) : i + Len(s) \in 1..Len(l) /\ l[i + Len(s)] = t[i]
  BY <1>1
<1>4. ASSUME InOrder(l, a, b) PROVE InOrder(s, a, b)
  BY <1>1, <1>2, <1>4 DEF InOrder
<1>5. ASSUME InOrder(l, a, b) PROVE InOrder(t, a, b)
  <2> SUFFICES ASSUME NEW i \in 1..Len(t), NEW j \in 1..Len(t), t[i].call \in a,
                      t[j].call \in b
               PROVE  i <= j
    BY <1>1 DEF InOrder
  <2>1. i + Len(s) <= j + Len(s)
    BY <1>1, <1>3, <1>5 DEF InOrder
  <2> QED
    BY <2>1, <1>1
<1>6. ASSUME InOrder(l, a, b), Has(s, b), Has(t, a) PROVE FALSE
  <2>1. PICK j \in 1..Len(s) : s[j].call \in b
    BY <1>1, <1>6 DEF Has
  <2>2. PICK i \in 1..Len(t) : t[i].call \in a
    BY <1>1, <1>6 DEF Has
  <2>3. i + Len(s) <= j
    BY <2>1, <2>2, <1>1, <1>2, <1>3, <1>6 DEF InOrder
  <2> QED
    BY <2>1, <2>2, <2>3, <1>1
<1>7. ASSUME InOrder(s, a, b), InOrder(t, a, b), ~(Has(s, b) /\ Has(t, a))
      PROVE  InOrder(l, a, b)
  <2> SUFFICES ASSUME NEW i \in 1..Len(l), NEW j \in 1..Len(l), l[i].call \in a,
                      l[j].call \in b
               PROVE  i <= j
    BY <1>1 DEF InOrder
  <2>1. CASE i <= Len(s) /\ j <= Len(s)
    <3>1. i \in 1..Len(s) /\ j \in 1..Len(s) /\ l[i] = s[i] /\ l[j] = s[j]
      BY <1>1, <2>1
    <3> QED
      BY <1>1, <1>7, <3>1 DEF InOrder
  <2>2. CASE i > Len(s) /\ j > Len(s)
    <3>1. /\ i - Len(s) \in 1..Len(t) /\ j - Len(s) \in 1..Len(t)
          /\ l[i] = t[i - Len(s)] /\ l[j] = t[j - Len(s)]
      BY <1>1, <2>2
    <3>2. i - Len(s) <= j - Len(s)
      BY <1>1, <1>7, <3>1 DEF InOrder
    <3> QED
      BY <1>1, <3>2
  <2>3. CASE i > Len(s) /\ j <= Len(s)
    <3>1. i - Len(s) \in 1..Len(t) /\ j \in 1..Len(s) /\ l[i] = t[i - Len(s)] /\ l[j] = s[j]
      BY <1>1, <2>3
    <3> QED
      BY <1>1, <1>7, <3>1 DEF Has
  <2> QED
    BY <1>1, <2>1, <2>2, <2>3
<1> QED
  BY <1>4, <1>5, <1>6, <1>7 DEF l

\* Lists of no call, of one and of two.
LEMMA HasFew ==
  ASSUME NEW a, NEW b
  PROVE  /\ ~Has(<<>>, a) /\ InOrder(<<>>, a, b)
         /\ \A x : (Has(<<x>>, a) <=> x.call \in a) /\ InOrder(<<x>>, a, b)
         /\ \A x, y : /\ Has(<<x, y>>, a) <=> x.call \in a \/ y.call \in a
                      /\ ~(x.call \in b /\ y.call \in a) => InOrder(<<x, y>>, a, b)
<1>1. ~Has(<<>>, a) /\ InOrder(<<>>, a, b)
  BY DEF Has, InOrder
<1>2. ASSUME NEW x PROVE (Has(<<x>>, a) <=> x.call \in a) /\ InOrder(<<x>>, a, b)
  <2> DEFINE w == <<x>>
  <2>1. DOMAIN w = {1} /\ w[1] = x
    OBVIOUS
  <2> HIDE DEF w
  <2>2. Has(w, a) <=> x.call \in a
    BY <2>1 DEF Has
  <2>3. InOrder(w, a, b)
    BY <2>1 DEF InOrder
  <2> QED
    BY <2>2, <2>3 DEF w
<1>3. ASSUME NEW x, NEW y
      PROVE  /\ Has(<<x, y>>, a) <=> x.call \in a \/ y.call \in a
             /\ ~(x.call \in b /\ y.call \in a) => InOrder(<<x, y>>, a, b)
  <2> DEFINE w == <<x, y>>
  <2>1. DOMAIN w = 1..2 /\ w[1] = x /\ w[2] = y /\ 1..2 = {1, 2}
    OBVIOUS
  <2> HIDE DEF w
  <2>2. Has(w, a) <=> x.call \in a \/ y.call \in a
    BY <2>1 DEF Has
  <2>3. ~(x.call \in b /\ y.call \in a) => InOrder(w, a, b)
    BY <2>1 DEF InOrder
  <2> QED
    BY <2>2, <2>3 DEF w
<1> QED
  BY <1>1, <1>2, <1>3

\* A list by its head and tail, and with one call more.
LEMMA HasHead ==
  ASSUME NEW S, NEW s \in Seq(S), s # <<>>, NEW a, NEW b
  PROVE  /\ Has(s, a) <=> Head(s).call \in a \/ Has(Tail(s), a)
         /\ InOrder(s, a, b) => /\ InOrder(Tail(s), a, b)
                                /\ Head(s).call \in b => ~Has(Tail(s), a)
<1>1. s = <<Head(s)>> \o Tail(s) /\ <<Head(s)>> \in Seq(S) /\ Tail(s) \in Seq(S)
  <2>1. Head(s) \in S /\ Tail(s) \in Seq(S) /\ Len(s) \in Nat \ {0}
    OBVIOUS
  <2>2. <<Head(s)>> \in Seq(S)
    BY <2>1
  <2>3. Len(<<Head(s)>> \o Tail(s)) = Len(s) /\ <<Head(s)>> \o Tail(s) \in Seq(S)
    BY <2>1, <2>2
  <2>4. \A i \in 1..Len(s) : (<<Head(s)>> \o Tail(s))[i] = s[i]
    BY <2>1, LeftOne
  <2> QED
    BY <2>1, <2>2, <2>3, <2>4, SeqEqual
<1> DEFINE h == <<Head(s)>>
<1> DEFINE t == Tail(s)
<1>2. h \in Seq(S) /\ t \in Seq(S) /\ s = h \o t
  BY <1>1
<1>3. (Has(h, a) <=> Head(s).call \in a) /\ (Has(h, b) <=> Head(s).call \in b)
  BY HasFew, Zenon
<1> HIDE DEF h, t
<1>4. Has(h \o t, a) <=> Has(h, a) \/ Has(t, a)
  BY <1>2, HasConcat
<1>5. InOrder(h \o t, a, b) => InOrder(t, a, b) /\ ~(Has(h, b) /\ Has(t, a))
  BY <1>2, InOrderConcat
<1> QED
  BY <1>2, <1>3, <1>4, <1>5, Zenon DEF t

\* The same for a call queued at the end.
LEMMA HasAppend ==
  ASSUME NEW S, NEW s \in Seq(S), NEW x \in S, NEW a, NEW b
  PROVE  /\ Has(Append(s, x), a) <=> Has(s, a) \/ x.call \in a
         /\ InOrder(s, a, b) /\ ~(Has(s, b) /\ x.call \in a) => InOrder(Append(s, x), a, b)
<1>1. Append(s, x) = s \o <<x>> /\ <<x>> \in Seq(S)
  OBVIOUS
<1>2. /\ Has(s \o <<x>>, a) <=> Has(s, a) \/ Has(<<x>>, a)
      /\ InOrder(s \o <<x>>, a, b) <=>
           InOrder(s, a, b) /\ InOrder(<<x>>, a, b) /\ ~(Has(s, b) /\ Has(<<x>>, a))
  BY <1>1, HasConcat, InOrderConcat
<1> QED
  BY <1>1, <1>2, HasFew, Zenon

\* A list without calls of the first kind is in order.
LEMMA NoneInOrder ==
  ASSUME NEW s, NEW a, NEW b, ~Has(s, a)
  PROVE  InOrder(s, a, b)
  BY DEF Has, InOrder

\* What the head of todo, and what it leaves, mean for the calls in it.
LEMMA LeavesCalls ==
  ASSUME WorkTypes, todo # <<>>, NEW work \in Seq(AllCalls), Leaves(work), NEW a, NEW b
  PROVE  /\ Has(todo, a) <=> Head(todo).call \in a \/ Has(Tail(todo), a)
         /\ Has(todo', a) <=> Has(work, a) \/ Has(Tail(todo), a)
         /\ InOrder(todo, a, b) => (Head(todo).call \in b => ~Has(Tail(todo), a))
         /\ /\ InOrder(todo, a, b) /\ InOrder(work, a, b)
            /\ ~(Has(work, b) /\ Has(Tail(todo), a))
            => InOrder(todo', a, b)
<1>1. todo \in Seq(AllCalls) /\ Tail(todo) \in Seq(AllCalls) /\ todo' = work \o Tail(todo)
  BY DEF WorkTypes, Leaves
<1>2. /\ Has(todo, a) <=> Head(todo).call \in a \/ Has(Tail(todo), a)
      /\ InOrder(todo, a, b) => /\ InOrder(Tail(todo), a, b)
                                /\ Head(todo).call \in b => ~Has(Tail(todo), a)
  BY <1>1, HasHead
<1>3. Has(work \o Tail(todo), a) <=> Has(work, a) \/ Has(Tail(todo), a)
  BY <1>1, HasConcat
<1>4. InOrder(work \o Tail(todo), a, b) <=>
        InOrder(work, a, b) /\ InOrder(Tail(todo), a, b) /\ ~(Has(work, b) /\ Has(Tail(todo), a))
  BY <1>1, InOrderConcat
<1> QED
  BY <1>1, <1>2, <1>3, <1>4, Zenon

\* The work that steps leave.
LEMMA LeftWork ==
  ASSUME NEW c \in LoopCalls \ {"sendInLoop"}, NEW d \in LoopCalls \ {"sendInLoop"},
         NEW a, NEW b
  PROVE  /\ <<>> \in Seq(AllCalls) /\ ~Has(<<>>, a) /\ InOrder(<<>>, a, b)
         /\ <<Call(c)>> \in Seq(AllCalls)
         /\ (Has(<<Call(c)>>, a) <=> c \in a) /\ InOrder(<<Call(c)>>, a, b)
         /\ <<Call(c), Call(d)>> \in Seq(AllCalls)
         /\ Has(<<Call(c), Call(d)>>, a) <=> c \in a \/ d \in a
         /\ ~(c \in b /\ d \in a) => InOrder(<<Call(c), Call(d)>>, a, b)
<1>1. Call(c).call = c /\ Call(d).call = d
  BY DEF Call
<1>2. /\ <<>> \in Seq(AllCalls) /\ <<Call(c)>> \in Seq(AllCalls)
      /\ <<Call(c), Call(d)>> \in Seq(AllCalls)
  BY CallTypes
<1>3. /\ ~Has(<<>>, a) /\ InOrder(<<>>, a, b)
      /\ (Has(<<Call(c)>>, a) <=> Call(c).call \in a) /\ InOrder(<<Call(c)>>, a, b)
      /\ Has(<<Call(c), Call(d)>>, a) <=> Call(c).call \in a \/ Call(d).call \in a
      /\ ~(Call(c).call \in b /\ Call(d).call \in a) => InOrder(<<Call(c), Call(d)>>, a, b)
  BY HasFew, Zenon
<1> QED
  BY <1>1, <1>2, <1>3, Zenon

\* Only functors are queued.
LEMMA PendingCalls ==
  ASSUME WorkTypes, NEW a, a \cap (StrongFunctors \cup RawFunctors) = {}
  PROVE  ~Has(pendingFunctors_, a)
  BY DEF WorkTypes, Has, FunctorCalls, WithString, Work

\* Queueing a functor.
LEMMA QueuedCalls ==
  ASSUME WorkTypes, NEW x \in FunctorCalls, pendingFunctors_' = Append(pendingFunctors_, x),
         NEW a, NEW b
  PROVE  /\ Has(pendingFunctors_', a) <=> Has(pendingFunctors_, a) \/ x.call \in a
         /\ InOrder(pendingFunctors_, a, b) /\ ~(Has(pendingFunctors_, b) /\ x.call \in a)
              => InOrder(pendingFunctors_', a, b)
  BY HasAppend DEF WorkTypes

\* What sendInLoop() queues is a callback of the user, if anything.
LEMMA SendInLoopQueues ==
  ASSUME WorkTypes, NEW m, SendInLoop(m), NEW a, a \cap UserCallbacks = {}, NEW b
  PROVE  /\ Has(pendingFunctors_', a) <=> Has(pendingFunctors_, a)
         /\ InOrder(pendingFunctors_, a, b) => InOrder(pendingFunctors_', a, b)
<1>1. \/ UNCHANGED pendingFunctors_
      \/ Queues("writeCompleteCallback_") \/ Queues("highWaterMarkCallback_")
  BY Zenon DEF SendInLoop, Buffers
<1>2. ASSUME NEW c \in {"writeCompleteCallback_", "highWaterMarkCallback_"}, Queues(c)
      PROVE  /\ Has(pendingFunctors_', a) <=> Has(pendingFunctors_, a)
             /\ InOrder(pendingFunctors_, a, b) => InOrder(pendingFunctors_', a, b)
  <2>1. Call(c) \in FunctorCalls /\ Call(c).call = c /\ c \notin a
    BY CallTypes DEF StrongFunctors, UserCallbacks, Call
  <2> QED
    BY <2>1, <1>2, QueuedCalls DEF Queues
<1> QED
  BY <1>1, <1>2

\* The handlers of one event, in their order.
LEMMA HandlersCalls ==
  ASSUME NEW revents, NEW a
  PROVE  /\ Has(HandlersOf(revents), a) <=>
              \/ "hup" \in revents /\ "in" \notin revents /\ "closeCallback" \in a
              \/ "err" \in revents /\ "errorCallback" \in a
              \/ "in" \in revents /\ "readCallback" \in a
              \/ "out" \in revents /\ "writeCallback" \in a
         /\ ~("hup" \in revents /\ "in" \notin revents) =>
              InOrder(HandlersOf(revents), {"errorCallback"}, LoopCalls)
         /\ InOrder(HandlersOf(revents), {"readCallback"}, {"readCallback", "writeCallback"})
<1> DEFINE OnlyIf(test, handler) == IF test THEN <<Call(handler)>> ELSE <<>>
<1> DEFINE w == OnlyIf("hup" \in revents /\ "in" \notin revents, "closeCallback")
<1> DEFINE x == OnlyIf("err" \in revents, "errorCallback")
<1> DEFINE y == OnlyIf("in" \in revents, "readCallback")
<1> DEFINE z == OnlyIf("out" \in revents, "writeCallback")
<1> DEFINE handlers == LoopCalls \ {"sendInLoop"}
<1>1. \A test, c : /\ c \in handlers => OnlyIf(test, c) \in Seq(AllCalls)
                   /\ \A k, l : c \in handlers =>
                        /\ Has(OnlyIf(test, c), k) <=> test /\ c \in k
                        /\ InOrder(OnlyIf(test, c), k, l)
  BY LeftWork
<1>2. /\ "closeCallback" \in handlers /\ "errorCallback" \in handlers
      /\ "readCallback" \in handlers /\ "writeCallback" \in handlers
  BY DEF LoopCalls, Handlers
<1> HIDE DEF handlers
<1>3. /\ w \in Seq(AllCalls) /\ x \in Seq(AllCalls) /\ y \in Seq(AllCalls)
      /\ z \in Seq(AllCalls)
  BY <1>1, <1>2, Zenon
<1>4. \A k, l : /\ Has(w, k) <=> ("hup" \in revents /\ "in" \notin revents) /\ "closeCallback" \in k
                /\ Has(x, k) <=> "err" \in revents /\ "errorCallback" \in k
                /\ Has(y, k) <=> "in" \in revents /\ "readCallback" \in k
                /\ Has(z, k) <=> "out" \in revents /\ "writeCallback" \in k
                /\ InOrder(w, k, l) /\ InOrder(x, k, l) /\ InOrder(y, k, l) /\ InOrder(z, k, l)
  BY <1>1, <1>2, Zenon
<1>5. HandlersOf(revents) = w \o x \o y \o z
  BY Zenon DEF HandlersOf
<1> HIDE DEF w, x, y, z
<1> DEFINE wx == w \o x
<1> DEFINE wxy == wx \o y
<1>6. wx \in Seq(AllCalls) /\ wxy \in Seq(AllCalls)
  BY <1>3, ConcatProperties
<1>7. ASSUME NEW k, NEW l
      PROVE  /\ Has(wx, k) <=> Has(w, k) \/ Has(x, k)
             /\ InOrder(wx, k, l) <=>
                  InOrder(w, k, l) /\ InOrder(x, k, l) /\ ~(Has(w, l) /\ Has(x, k))
  BY <1>3, HasConcat, InOrderConcat
<1>a. HandlersOf(revents) = wxy \o z
  BY <1>5, Zenon
<1> HIDE DEF wx
<1>8. ASSUME NEW k, NEW l
      PROVE  /\ Has(wxy, k) <=> Has(wx, k) \/ Has(y, k)
             /\ InOrder(wxy, k, l) <=>
                  InOrder(wx, k, l) /\ InOrder(y, k, l) /\ ~(Has(wx, l) /\ Has(y, k))
  BY <1>3, <1>6, HasConcat, InOrderConcat
<1> HIDE DEF wxy
<1>9. ASSUME NEW k, NEW l
      PROVE  /\ Has(HandlersOf(revents), k) <=> Has(wxy, k) \/ Has(z, k)
             /\ InOrder(HandlersOf(revents), k, l) <=>
                  InOrder(wxy, k, l) /\ InOrder(z, k, l) /\ ~(Has(wxy, l) /\ Has(z, k))
  BY <1>3, <1>6, <1>a, HasConcat, InOrderConcat
<1>10. Has(HandlersOf(revents), a) <=>
              \/ "hup" \in revents /\ "in" \notin revents /\ "closeCallback" \in a
              \/ "err" \in revents /\ "errorCallback" \in a
              \/ "in" \in revents /\ "readCallback" \in a
              \/ "out" \in revents /\ "writeCallback" \in a
  BY <1>4, <1>7, <1>8, <1>9, Zenon
<1>11. ASSUME ~("hup" \in revents /\ "in" \notin revents)
       PROVE  InOrder(HandlersOf(revents), {"errorCallback"}, LoopCalls)
  <2>1. \A k : ~Has(w, k)
    BY <1>4, <1>11, Zenon
  <2>2. ~Has(y, {"errorCallback"}) /\ ~Has(z, {"errorCallback"})
    <3>1. "readCallback" \notin {"errorCallback"} /\ "writeCallback" \notin {"errorCallback"}
      OBVIOUS
    <3> QED
      BY <3>1, <1>4, Zenon
  <2> QED
    BY <2>1, <2>2, <1>4, <1>7, <1>8, <1>9, Zenon
<1>12. InOrder(HandlersOf(revents), {"readCallback"}, {"readCallback", "writeCallback"})
  <2>1. /\ ~Has(w, {"readCallback", "writeCallback"}) /\ ~Has(z, {"readCallback"})
        /\ ~Has(x, {"readCallback", "writeCallback"}) /\ ~Has(x, {"readCallback"})
    <3>1. /\ "closeCallback" \notin {"readCallback", "writeCallback"}
          /\ "errorCallback" \notin {"readCallback", "writeCallback"}
          /\ "errorCallback" \notin {"readCallback"}
          /\ "writeCallback" \notin {"readCallback"}
      OBVIOUS
    <3> QED
      BY <3>1, <1>4, Zenon
  <2> QED
    BY <2>1, <1>4, <1>7, <1>8, <1>9, Zenon
<1> QED
  BY <1>10, <1>11, <1>12

-----------------------------------------------------------------------------
(* The inductive invariant *)

\* Before connectEstablished() nothing has happened, and it is called once.
Fresh ==
  /\ told = "nothing" =>
       /\ state_ = "kConnecting" /\ events_ = {} /\ index_ = "kNew"
       /\ outputBuffer_ = <<>> /\ connections_ = "holds"
       /\ phase = "dispatch" /\ todo = <<Call("connectEstablished")>>
       /\ pendingFunctors_ = <<>>
       /\ holders = {}
       /\ \A t \in Threads : pc[t].call = "none" /\ text[t] = NoMessage
       /\ wire = <<>> /\ ~wrShut /\ taken = <<>>
  /\ told # "nothing" => state_ # "kConnecting" /\ ~Has(todo, {"connectEstablished"})
  /\ ~Has(pendingFunctors_, {"connectEstablished"})

\* Handlers and what they leave are done before the functors, and all of it before
\* epoll_wait is called again.
Phases ==
  /\ Has(todo, Handlers \cup {"removeConnection"}) => phase = "dispatch"
  /\ phase = "poll" => todo = <<>>

\* The calls that close the connection at the server, and those that destroy it.
Closing == {"removeConnection"}
Destroying == {"connectDestroyed", "remove"}
Removals == Closing \cup Destroying
Leaving ==
  Has(todo, Closing) \/ Has(todo, Destroying) \/ Has(pendingFunctors_, Destroying)

\* The server has gone in a handler, which may leave handlers to run.
Doomed == connections_ = "destroyed" /\ "inHandler" \in anomalies

\* What the user has been told agrees with state_ and the channel.
States ==
  /\ told = "up" => /\ state_ \in {"kConnected", "kDisconnecting"}
                    /\ "in" \in events_ /\ index_ = "kAdded"
  /\ told = "down" => state_ = "kDisconnected" /\ events_ = {}

\* The connection is destroyed once, ahead of handlers that are left, and not while
\* connections_ holds it.
DestroyedOnce ==
  /\ InOrder(todo, Destroying, Destroying \cup Handlers)
  /\ InOrder(pendingFunctors_, Destroying, Destroying)
  /\ ~(Has(todo, Destroying) /\ Has(pendingFunctors_, Destroying))
  /\ connections_ = "holds" => /\ InOrder(todo, Closing, Closing)
                               /\ ~Has(todo, Destroying)
                               /\ ~Has(pendingFunctors_, Destroying)

\* While it is up it is not on its way out, unless ~TcpServer destroys it there and then.
WhileUp ==
  told = "up" =>
    /\ ~Has(todo, Closing)
    /\ \/ connections_ = "holds"
       \/ /\ connections_ = "destroyed" /\ todo # <<>>
          /\ phase = "functors" \/ "inHandler" \in anomalies
          /\ \/ Head(todo).call = "connectDestroyed"
             \/ Head(todo).call = "remove" /\ "serverGone" \in anomalies

\* Once it is down it is on its way out, or has left the poller.
WhileDown ==
  told = "down" =>
    /\ connections_ = "holds" => Has(todo, Closing)
    /\ Has(todo, Closing) => connections_ = "holds" \/ Doomed
    /\ connections_ = "holds" \/ Has(todo, Destroying) \/ Has(pendingFunctors_, Destroying)
         => index_ = "kDeleted"
    /\ Leaving \/ index_ = "kNew"

OneWayOut == DestroyedOnce /\ WhileUp /\ WhileDown

\* Of the handlers of one event only an error event's own closes a connection that
\* another still gets to read, and that one finds the error; unless the server has gone.
Reports ==
  /\ ~Has(todo, {"closeCallback"})
  /\ InOrder(todo, {"errorCallback"}, Handlers)
  /\ connections_ = "holds" => InOrder(todo, {"errorCallback"}, LoopCalls)
  /\ InOrder(todo, {"readCallback"}, {"readCallback", "writeCallback"})
  /\ Has(todo, {"errorCallback"}) =>
       /\ "errorEvent" \in anomalies
       /\ told = "up" => sockErr
       /\ told = "down" => Doomed /\ ~Has(pendingFunctors_, Destroying)
  /\ Has(todo, {"readCallback"}) =>
       \/ told = "up"
       \/ sockErr /\ "errorEvent" \in anomalies
       \/ Doomed /\ ~Has(pendingFunctors_, Destroying)

Orderly == crashed = "no" /\ "lateShutdown" \notin anomalies

\* The course of a connection, until a late shutdown() or a crash, and the properties
\* that hold beyond.
OnCourse == States /\ OneWayOut /\ Reports
Life ==
  /\ Phases
  /\ Orderly => OnCourse
  /\ RemoveAssertsHold /\ ServerCalledWhileThere /\ CallbacksInTurn

-----------------------------------------------------------------------------
(* The start *)

\* Until connectEstablished() is called nothing else happens but what the peer does.
LEMMA FirstStep ==
  ASSUME Fresh, told = "nothing", Next
  PROVE  ConnectEstablished \/ (PeerStep /\ (PeerReads \/ PeerCloses \/ PeerResets))
<1>1. /\ phase = "dispatch" /\ holders = {}
      /\ \A t \in Threads : pc[t].call = "none" /\ text[t] = NoMessage
      /\ todo = <<Call("connectEstablished")>>
  BY Zenon DEF Fresh
<1>2. todo # <<>> /\ Head(todo).call = "connectEstablished"
  BY <1>1 DEF Call
<1>3. /\ ~Does({"connectDestroyed"}) /\ ~Does({"remove"}) /\ ~Does(RawFunctors)
      /\ ~Does({"closeCallback", "errorCallback"}) /\ ~Does({"removeConnection"})
      /\ ~Does({"readCallback"}) /\ ~Does({"writeCallback"}) /\ ~Does(UserCallbacks)
      /\ ~Does(Handlers)
  BY <1>2 DEF Does, RawFunctors, UserCallbacks, Handlers
<1>4. /\ ~PollEvents /\ ~DoPendingFunctors /\ ~FunctorsDone /\ ~HandleEvent
      /\ ~HandlerReturn /\ ~ServerGoes
  BY <1>1, <1>2, <1>3 DEF PollEvents, DoPendingFunctors, FunctorsDone, HandleEvent,
                          HandlerReturn, ServerGoes, UserRuns
<1>5. ~ConnectDestroyed /\ ~Remove /\ ~RunRawFunctor /\ ~CloseOrErrorCallback
      /\ ~RemoveConnection /\ ~HandleRead /\ ~HandleWrite /\ ~UserReturns /\ ~ShutdownSelf
  BY <1>3, Zenon DEF ConnectDestroyed, Remove, RunRawFunctor, CloseOrErrorCallback,
                     RemoveConnection, HandleRead, HandleWrite, UserReturns, ShutdownSelf
<1>6. (\A m \in Messages : ~SendSelf(m)) /\ (\A t \in Threads : ~HandOn(t))
  BY <1>3, Zenon DEF SendSelf, HandOn
<1>7. ASSUME NEW t \in Threads PROVE ~ThreadGoesOn(t) /\ ~ThreadBegins(t)
  BY <1>1 DEF ThreadGoesOn, ThreadBegins, Send, Shutdown, ShutdownSets, RunInLoop,
              TextGoes, Drop, Moves, RawFunctors
<1> QED
  BY <1>4, <1>5, <1>6, <1>7, Zenon DEF Next, LoopStep, UserCalls

\* A connection is made known once.
LEMMA FreshStep == TypeInv /\ Fresh /\ [Next]_vars => Fresh'
<1> SUFFICES ASSUME TypeInv, Fresh, [Next]_vars PROVE Fresh'
  OBVIOUS
<1> DEFINE Later == /\ told' # "nothing" /\ state_' # "kConnecting"
                    /\ ~Has(todo', {"connectEstablished"})
                    /\ ~Has(pendingFunctors_', {"connectEstablished"})
<1> USE DEF channelVars, connVars, loopVars, threadVars, socketVars, fate, sends, news
<1>a. ASSUME Later PROVE Fresh'
  BY <1>a DEF Fresh
<1>b. WorkTypes
  BY DEF TypeInv
<1>1. CASE told = "nothing" /\ ConnectEstablished
  <2>1. /\ todo = <<Call("connectEstablished")>> /\ pendingFunctors_ = <<>>
        /\ ~Has(pendingFunctors_, {"connectEstablished"})
    BY <1>1, Zenon DEF Fresh
  <2>2. Head(todo).call = "connectEstablished" /\ todo # <<>>
        /\ Tail(todo) = <<>>
    BY <2>1 DEF Call
  <2>3. Leaves(<<Call("connectionCallback_")>>) /\ told' = "up" /\ state_' = "kConnected"
        /\ UNCHANGED pendingFunctors_
    BY <1>1 DEF ConnectEstablished, Tell
  <2>4. "connectionCallback_" \in LoopCalls \ {"sendInLoop"}
    BY DEF LoopCalls, UserCallbacks
  <2>5. ~Has(todo', {"connectEstablished"})
    <3> DEFINE e == {"connectEstablished"}
    <3>1. "connectionCallback_" \notin e
      OBVIOUS
    <3> HIDE DEF e
    <3>2. /\ <<Call("connectionCallback_")>> \in Seq(AllCalls)
          /\ ~Has(<<Call("connectionCallback_")>>, e)
      BY <2>4, <3>1, LeftWork, Zenon
    <3>3. ~Has(Tail(todo), e)
      BY <2>2, HasFew
    <3>4. ~Has(todo', e)
      BY <1>b, <2>2, <2>3, <3>2, <3>3, LeavesCalls
    <3> QED
      BY <3>4 DEF e
  <2> QED
    BY <1>a, <2>1, <2>3, <2>5
<1>2. CASE told = "nothing" /\ PeerStep /\ (PeerReads \/ PeerCloses \/ PeerResets)
  BY <1>2 DEF Fresh, PeerStep, PeerReads, PeerCloses, PeerResets
<1>3. CASE UNCHANGED vars
  BY <1>3 DEF Fresh, vars
<1>4. CASE told # "nothing" /\ Next
  <2> DEFINE e == {"connectEstablished"}
  <2>1. /\ told # "nothing" /\ state_ # "kConnecting" /\ ~Has(todo, e)
        /\ ~Has(pendingFunctors_, e)
    BY <1>4, Zenon DEF Fresh
  <2>2. UserCallbacks \cap e = {}
    BY DEF UserCallbacks
  <2> HIDE DEF e
  <2>3. ASSUME UNCHANGED <<told, state_>>, UNCHANGED <<todo, pendingFunctors_>> PROVE Later
    BY <2>1, <2>3 DEF e
  <2>4. ASSUME NEW work \in Seq(AllCalls), ~Has(work, e), todo # <<>>, Leaves(work)
        PROVE  ~Has(todo', e)
    BY <2>1, <2>4, <1>b, LeavesCalls
  <2>5. ASSUME NEW c \in LoopCalls \ {"sendInLoop"}, NEW d \in LoopCalls \ {"sendInLoop"},
               c # "connectEstablished", d # "connectEstablished"
        PROVE  /\ <<>> \in Seq(AllCalls) /\ ~Has(<<>>, e)
               /\ <<Call(c)>> \in Seq(AllCalls) /\ ~Has(<<Call(c)>>, e)
               /\ <<Call(c), Call(d)>> \in Seq(AllCalls) /\ ~Has(<<Call(c), Call(d)>>, e)
    <3>1. c \notin e /\ d \notin e
      BY <2>5 DEF e
    <3> QED
      BY <3>1, LeftWork, Zenon
  <2>6. /\ <<>> \in Seq(AllCalls) /\ ~Has(<<>>, e)
        /\ <<Call("remove")>> \in Seq(AllCalls) /\ ~Has(<<Call("remove")>>, e)
        /\ \A d \in {"remove", "removeConnection"} :
             /\ <<Call("connectionCallback_"), Call(d)>> \in Seq(AllCalls)
             /\ ~Has(<<Call("connectionCallback_"), Call(d)>>, e)
        /\ <<Call("messageCallback_")>> \in Seq(AllCalls)
        /\ ~Has(<<Call("messageCallback_")>>, e)
        /\ <<Call("connectDestroyed")>> \in Seq(AllCalls)
        /\ ~Has(<<Call("connectDestroyed")>>, e)
    <3>1. \A c \in {"remove", "removeConnection", "connectionCallback_", "messageCallback_",
                    "connectDestroyed"} :
            c \in LoopCalls \ {"sendInLoop"} /\ c # "connectEstablished"
      BY DEF LoopCalls, UserCallbacks, StrongFunctors
    <3>2. \A c, d \in LoopCalls \ {"sendInLoop"} :
            c # "connectEstablished" /\ d # "connectEstablished" =>
               /\ <<>> \in Seq(AllCalls) /\ ~Has(<<>>, e)
               /\ <<Call(c)>> \in Seq(AllCalls) /\ ~Has(<<Call(c)>>, e)
               /\ <<Call(c), Call(d)>> \in Seq(AllCalls) /\ ~Has(<<Call(c), Call(d)>>, e)
      BY <2>5
    <3> QED
      BY <3>1, <3>2
  <2>7. ASSUME NEW c \in StrongFunctors, c # "connectEstablished", Queues(c)
        PROVE  ~Has(pendingFunctors_', e)
    <3>1. Call(c) \in FunctorCalls /\ Call(c).call = c /\ c \notin e
      BY <2>7, CallTypes DEF Call, e
    <3> QED
      BY <2>1, <2>7, <3>1, <1>b, QueuedCalls DEF Queues
  <2>8. CASE ConnectEstablished
    <3>1. todo # <<>> /\ todo \in Seq(AllCalls) /\ Head(todo).call \in e
      BY <2>8, <1>b DEF ConnectEstablished, Does, WorkTypes, e
    <3> QED
      BY <2>1, <3>1, HasHead
  <2>9. CASE ConnectDestroyed
    BY <2>1, <2>4, <2>6, <2>9, <1>a DEF ConnectDestroyed, Does, Tell, e
  <2>10. CASE Remove
    BY <2>1, <2>4, <2>6, <2>10, <1>a DEF Remove, Does, e
  <2>11. CASE RunRawFunctor
    <3>1. ~Has(pendingFunctors_', e)
      <4>1. UNCHANGED pendingFunctors_ \/ SendInLoop(text[Head(todo).buf])
        BY <2>11, Zenon DEF RunRawFunctor
      <4>2. e \cap UserCallbacks = {}
        BY <2>2
      <4> QED
        BY <2>1, <4>1, <4>2, <1>b, SendInLoopQueues
    <3> QED
      BY <2>1, <2>4, <2>6, <2>11, <3>1, <1>a DEF RunRawFunctor, Does, e
  <2>12. ASSUME HandleClose, todo # <<>>
         PROVE  told' = "down" /\ state_' = "kDisconnected" /\ ~Has(todo', e)
    BY <2>4, <2>6, <2>12 DEF HandleClose, Tell
  <2>13. CASE CloseOrErrorCallback
    BY <2>1, <2>12, <2>13, <1>a DEF CloseOrErrorCallback, Does, e
  <2>14. CASE RemoveConnection
    <3>1. ~Has(pendingFunctors_', e)
      BY <2>1, <2>7, <2>14 DEF RemoveConnection, StrongFunctors
    <3> QED
      BY <2>1, <2>4, <2>6, <2>14, <3>1, <1>a DEF RemoveConnection, Does, e
  <2>15. CASE HandleRead
    BY <2>1, <2>4, <2>6, <2>12, <2>15, <1>a DEF HandleRead, Does, e
  <2>16. CASE HandleWrite
    <3>1. ~Has(pendingFunctors_', e)
      BY <2>1, <2>7, <2>16 DEF HandleWrite, Drained, StrongFunctors
    <3> QED
      BY <2>1, <2>4, <2>6, <2>16, <3>1, <1>a DEF HandleWrite, Does, e
  <2>17. CASE PollEvents
    <3>1. \A r : ~Has(HandlersOf(r), e)
      BY HandlersCalls DEF e
    <3> QED
      BY <2>1, <2>17, <3>1, <1>a DEF PollEvents, e
  <2>18. CASE DoPendingFunctors
    BY <2>1, <2>18, <1>a, HasFew DEF DoPendingFunctors, e
  <2>19. CASE FunctorsDone
    BY <2>3, <2>19, <1>a DEF FunctorsDone
  <2>20. CASE UserReturns
    BY <2>1, <2>4, <2>6, <2>20, <1>a DEF UserReturns, Does, e
  <2>21. ASSUME NEW m \in Messages, SendSelf(m) PROVE Later
    <3>1. ~Has(pendingFunctors_', e)
      BY <2>1, <2>2, <2>21, <1>b, SendInLoopQueues DEF SendSelf
    <3> QED
      BY <2>1, <2>21, <3>1 DEF SendSelf, e
  <2>22. CASE ShutdownSelf
    BY <2>1, <2>22, <1>a DEF ShutdownSelf, e
  <2>23. ASSUME NEW t \in Threads, HandOn(t) PROVE Later
    BY <2>3, <2>23 DEF HandOn
  <2>24. CASE ServerGoes
    <3> DEFINE work == <<Call("connectDestroyed")>>
    <3>1. work \in Seq(AllCalls) /\ ~Has(work, e) /\ todo \in Seq(AllCalls)
      BY <2>6, <1>b DEF WorkTypes
    <3> HIDE DEF work
    <3>a. ~Has(work \o todo, e)
      BY <2>1, <3>1, HasConcat
    <3>2. ~Has(<<Call("connectDestroyed")>> \o todo, e)
      BY <3>a DEF work
    <3> QED
      BY <2>1, <2>24, <3>2, <1>a DEF ServerGoes, e
  <2>25. ASSUME NEW t \in Threads, ThreadGoesOn(t) \/ ThreadBegins(t) PROVE Later
    <3>1. CASE RunInLoop(t)
      <4>a. pc[t].call \in RawFunctors /\ pc[t] \in WithString(ThreadCalls)
        BY <3>1, <1>b DEF RunInLoop, Moves, WorkTypes
      <4>1. pc[t] \in FunctorCalls /\ pc[t].call \notin e
        BY <4>a DEF FunctorCalls, WithString, Work, RawFunctors, e
      <4>b. pendingFunctors_' = Append(pendingFunctors_, pc[t])
        BY <3>1 DEF RunInLoop
      <4>2. ~Has(pendingFunctors_', e)
        BY <2>1, <4>b, <4>1, <1>b, QueuedCalls
      <4> QED
        BY <2>1, <3>1, <4>2 DEF RunInLoop, e
    <3>2. CASE ShutdownSets(t)
      BY <2>1, <3>2 DEF ShutdownSets, e
    <3>3. CASE (\E m \in Messages : Send(t, m)) \/ TextGoes(t) \/ Shutdown(t) \/ Drop(t)
      BY <2>3, <3>3 DEF Send, TextGoes, Shutdown, Drop
    <3> QED
      BY <2>25, <3>1, <3>2, <3>3, Zenon DEF ThreadGoesOn, ThreadBegins
  <2>26. CASE PeerStep /\ (PeerReads \/ PeerCloses \/ PeerResets)
    BY <2>3, <2>26, <1>a DEF PeerStep
  <2>27. CASE HandleEvent
    BY <2>3, <2>27, <1>a DEF HandleEvent
  <2>28. CASE HandlerReturn
    BY <2>3, <2>28, <1>a DEF HandlerReturn
  <2> HIDE DEF Later
  <2> QED
    BY <2>8, <2>9, <2>10, <2>11, <2>13, <2>14, <2>15, <2>16, <2>17, <2>18, <2>19, <2>20,
       <2>21, <2>22, <2>23, <2>24, <2>25, <2>26, <2>27, <2>28, <1>4, <1>a,
       Zenon DEF Next, LoopStep, UserCalls
<1> QED
  BY <1>1, <1>2, <1>3, <1>4, FirstStep, Zenon

-----------------------------------------------------------------------------
(* Phases *)

\* The head of todo gives way to work of its own phase.
LEMMA LeavesPhase ==
  ASSUME WorkTypes, Phases, phase # "poll", todo # <<>>, NEW work \in Seq(AllCalls),
         Leaves(work), phase' = phase,
         Has(work, Handlers \cup {"removeConnection"}) => Head(todo).call \in Handlers
  PROVE  Phases'
<1> DEFINE h == Handlers \cup {"removeConnection"}
<1>1. (Has(todo, h) => phase = "dispatch") /\ (Head(todo).call \in Handlers => Head(todo).call \in h)
  BY DEF Phases
<1>2. Has(work, h) => Head(todo).call \in Handlers
  OBVIOUS
<1> HIDE DEF h
<1>3. Has(todo', h) => phase' = "dispatch"
  BY <1>1, <1>2, LeavesCalls
<1> QED
  BY <1>3 DEF Phases, h

\* Handlers stay within one call of epoll_wait.
LEMMA PhasesStep == TypeInv /\ Fresh /\ Phases /\ [Next]_vars => Phases'
<1> SUFFICES ASSUME TypeInv, Fresh, Phases, [Next]_vars PROVE Phases'
  OBVIOUS
<1> DEFINE h == Handlers \cup {"removeConnection"}
<1> USE DEF connVars, loopVars, threadVars, socketVars, fate, sends, news
<1>a. WorkTypes
  BY DEF TypeInv
<1>b. ASSUME NEW calls, Does(calls)
      PROVE  phase # "poll" /\ todo # <<>> /\ Head(todo).call \in calls
  BY <1>b DEF Does
<1>c. ASSUME NEW c \in LoopCalls \ ({"sendInLoop", "removeConnection"} \cup Handlers),
             NEW d \in LoopCalls \ ({"sendInLoop", "removeConnection"} \cup Handlers)
      PROVE  /\ <<>> \in Seq(AllCalls) /\ ~Has(<<>>, h)
             /\ <<Call(c)>> \in Seq(AllCalls) /\ ~Has(<<Call(c)>>, h)
             /\ <<Call(c), Call(d)>> \in Seq(AllCalls) /\ ~Has(<<Call(c), Call(d)>>, h)
  <2>1. /\ c \in LoopCalls \ {"sendInLoop"} /\ d \in LoopCalls \ {"sendInLoop"}
        /\ c \notin h /\ d \notin h
    OBVIOUS
  <2> HIDE DEF h
  <2> QED
    BY <2>1, LeftWork, Zenon
<1>d. ASSUME NEW c \in {"remove", "connectionCallback_", "messageCallback_"},
             NEW d \in {"remove", "connectionCallback_", "messageCallback_"}
      PROVE  /\ <<>> \in Seq(AllCalls) /\ ~Has(<<>>, h)
             /\ <<Call(c)>> \in Seq(AllCalls) /\ ~Has(<<Call(c)>>, h)
             /\ <<Call(c), Call(d)>> \in Seq(AllCalls) /\ ~Has(<<Call(c), Call(d)>>, h)
  <2>1. /\ c \in LoopCalls \ ({"sendInLoop", "removeConnection"} \cup Handlers)
        /\ d \in LoopCalls \ ({"sendInLoop", "removeConnection"} \cup Handlers)
    BY DEF LoopCalls, UserCallbacks, Handlers
  <2> QED
    BY <2>1, <1>c, Zenon
<1>e. ASSUME NEW calls, NEW work \in Seq(AllCalls), Does(calls), Leaves(work), phase' = phase,
             ~Has(work, h)
      PROVE  Phases'
  BY <1>a, <1>b, <1>e, LeavesPhase
<1>f. ASSUME NEW calls, calls \subseteq Handlers, Does(calls), HandleClose, phase' = phase
      PROVE  Phases'
  <2>1. <<Call("connectionCallback_"), Call("removeConnection")>> \in Seq(AllCalls)
    BY CallTypes DEF LoopCalls, UserCallbacks
  <2>2. Leaves(<<Call("connectionCallback_"), Call("removeConnection")>>)
    BY <1>f DEF HandleClose
  <2> QED
    BY <2>1, <2>2, <1>a, <1>b, <1>f, LeavesPhase
<1>g. ASSUME UNCHANGED <<phase, todo>> PROVE Phases'
  BY <1>g DEF Phases
<1>1. CASE ConnectEstablished
  BY <1>1, <1>d, <1>e DEF ConnectEstablished
<1>2. CASE ConnectDestroyed
  BY <1>2, <1>d, <1>e DEF ConnectDestroyed
<1>3. CASE Remove
  BY <1>3, <1>d, <1>e DEF Remove
<1>4. CASE RunRawFunctor
  BY <1>4, <1>d, <1>e DEF RunRawFunctor
<1>5. CASE CloseOrErrorCallback
  BY <1>5, <1>f DEF CloseOrErrorCallback, Handlers
<1>6. CASE RemoveConnection
  BY <1>6, <1>d, <1>e DEF RemoveConnection
<1>7. CASE HandleRead
  BY <1>7, <1>d, <1>e, <1>f DEF HandleRead, Handlers
<1>8. CASE HandleWrite
  BY <1>8, <1>d, <1>e DEF HandleWrite
<1>9. CASE PollEvents
  BY <1>9 DEF PollEvents, Phases
<1>10. CASE DoPendingFunctors
  <2>1. h \cap (StrongFunctors \cup RawFunctors) = {}
    BY DEF Handlers, StrongFunctors, RawFunctors
  <2>2. ~Has(pendingFunctors_, h)
    BY <2>1, <1>a, PendingCalls
  <2> QED
    BY <1>10, <2>2 DEF DoPendingFunctors, Phases
<1>11. CASE FunctorsDone
  <2>1. ~Has(<<>>, h)
    BY HasFew, Zenon
  <2> QED
    BY <1>11, <2>1 DEF FunctorsDone, Phases
<1>12. CASE UserReturns
  BY <1>12, <1>d, <1>e DEF UserReturns
<1>13. ASSUME NEW m \in Messages, SendSelf(m) PROVE Phases'
  BY <1>13, <1>g DEF SendSelf
<1>14. CASE ShutdownSelf
  BY <1>14, <1>g DEF ShutdownSelf
<1>15. ASSUME NEW t \in Threads, HandOn(t) PROVE Phases'
  BY <1>15, <1>g DEF HandOn
<1>16. CASE ServerGoes
  <2> DEFINE work == <<Call("connectDestroyed")>>
  <2>1. /\ phase' = phase /\ (Has(todo, h) => phase = "dispatch")
        /\ todo' = todo \/ todo' = work \o todo
        /\ phase # "poll"
    BY <1>16 DEF ServerGoes, UserRuns, Does, Phases
  <2>2. "connectDestroyed" \notin h /\ "connectDestroyed" \in LoopCalls \ {"sendInLoop"}
    BY DEF Handlers, LoopCalls, StrongFunctors
  <2> HIDE DEF h
  <2>3. work \in Seq(AllCalls) /\ ~Has(work, h) /\ todo \in Seq(AllCalls)
    BY <2>2, <1>a, LeftWork DEF WorkTypes
  <2> HIDE DEF work
  <2>4. Has(work \o todo, h) => Has(todo, h)
    BY <2>1, <2>3, HasConcat
  <2>5. Has(todo', h) => phase' = "dispatch"
    BY <2>1, <2>4
  <2> QED
    BY <2>1, <2>5 DEF Phases, h
<1>17. ASSUME NEW t \in Threads, ThreadGoesOn(t) \/ ThreadBegins(t) PROVE Phases'
  BY <1>17, <1>g
     DEF ThreadGoesOn, ThreadBegins, Send, Shutdown, ShutdownSets, RunInLoop, TextGoes,
         Drop
<1>18. CASE PeerStep /\ (PeerReads \/ PeerCloses \/ PeerResets)
  BY <1>18, <1>g DEF PeerStep
<1>19. CASE HandleEvent \/ HandlerReturn
  BY <1>19, <1>g DEF HandleEvent, HandlerReturn
<1>20. CASE UNCHANGED vars
  BY <1>20, <1>g DEF vars
<1> QED
  BY <1>1, <1>2, <1>3, <1>4, <1>5, <1>6, <1>7, <1>8, <1>9, <1>10, <1>11, <1>12, <1>13,
     <1>14, <1>15, <1>16, <1>17, <1>18, <1>19, <1>20,
     Zenon DEF Next, LoopStep, UserCalls

-----------------------------------------------------------------------------
(* One way out *)

\* One call of a set is one of a larger set.
LEMMA HasMore ==
  ASSUME NEW s, NEW a, NEW b, a \subseteq b, Has(s, a)
  PROVE  Has(s, b)
  BY DEF Has

\* A call of two kinds is of one of them.
LEMMA HasEither ==
  ASSUME NEW s, NEW a, NEW b
  PROVE  Has(s, a \cup b) <=> Has(s, a) \/ Has(s, b)
  BY DEF Has

\* The two kinds of calls that take a connection out.
LEMMA WaysOut ==
  /\ Closing \subseteq Removals /\ Destroying \subseteq Removals
  /\ Removals \cap Handlers = {} /\ Closing \cap Destroying = {}
  /\ "removeConnection" \in Closing
  /\ "connectDestroyed" \in Destroying /\ "remove" \in Destroying
  /\ Handlers \subseteq LoopCalls
  BY DEF Removals, Closing, Destroying, Handlers, LoopCalls

\* sendInLoop() leaves the channel of a closed connection alone, and keeps that of an
\* open one in the poller.
LEMMA SendInLoopChannel ==
  ASSUME NEW m, SendInLoop(m), sockErr \in BOOLEAN
  PROVE  /\ state_ = "kDisconnected" => UNCHANGED <<events_, index_, sockErr>>
         /\ "in" \in events_ /\ index_ = "kAdded" => "in" \in events_' /\ index_' = "kAdded"
<1>1. ASSUME NEW data, Buffers(data), "in" \in events_, index_ = "kAdded"
      PROVE  "in" \in events_' /\ index_' = "kAdded"
  BY <1>1 DEF Buffers, SetEvents, channelVars
<1>2. ASSUME state_ = "kDisconnected"
      PROVE  UNCHANGED <<events_, index_>> /\ sockErr' = (sockErr /\ state_ = "kDisconnected")
  BY <1>2, Zenon DEF SendInLoop, GivesUp, channelVars
<1>3. ASSUME state_ = "kDisconnected" PROVE sockErr' = sockErr
  BY <1>2, <1>3
<1>4. \/ UNCHANGED channelVars \/ \E data : Buffers(data)
  BY Zenon DEF SendInLoop
<1>5. ASSUME "in" \in events_, index_ = "kAdded"
      PROVE "in" \in events_' /\ index_' = "kAdded"
  BY <1>1, <1>4, <1>5 DEF channelVars
<1> QED
  BY <1>2, <1>3, <1>5

\* Work that has nothing to do with removal leaves the way out as it is.
LEMMA KeepsWay ==
  ASSUME WorkTypes, OneWayOut, todo # <<>>, Head(todo).call \notin Removals,
         NEW work \in Seq(AllCalls), ~Has(work, Removals), ~Has(work, Handlers), Leaves(work),
         UNCHANGED <<told, connections_, phase>>, anomalies \subseteq anomalies',
         told = "down" => index_' = index_,
         Has(pendingFunctors_', Destroying) <=> Has(pendingFunctors_, Destroying),
         InOrder(pendingFunctors_', Destroying, Destroying)
  PROVE  OneWayOut'
<1> DEFINE d == Destroying
<1> DEFINE h == Destroying \cup Handlers
<1>1. /\ ~Has(work, Closing) /\ ~Has(work, d)
      /\ Head(todo).call \notin Closing /\ Head(todo).call \notin d
  BY WaysOut, HasMore
<1>2. ~Has(work, h)
  BY <1>1, HasEither
<1>3. InOrder(todo, d, h)
  BY DEF OneWayOut, DestroyedOnce
<1> HIDE DEF d, h
<1>4. Has(todo', d) <=> Has(todo, d)
  BY <1>1, LeavesCalls
<1>5. Has(todo', Closing) <=> Has(todo, Closing)
  BY <1>1, LeavesCalls
<1>6. InOrder(todo', d, h)
  BY <1>1, <1>2, <1>3, NoneInOrder, LeavesCalls
<1>7. InOrder(todo, Closing, Closing) => InOrder(todo', Closing, Closing)
  BY <1>1, NoneInOrder, LeavesCalls
<1>8. DestroyedOnce'
  BY <1>4, <1>6, <1>7 DEF OneWayOut, DestroyedOnce, d, h
<1>9. WhileUp'
  <2>1. told = "up" => connections_ = "holds" /\ ~Has(todo, Closing)
    BY <1>1 DEF OneWayOut, WhileUp, d, Destroying
  <2> QED
    BY <2>1, <1>5 DEF WhileUp
<1>10. WhileDown'
  <2>1. Leaving' <=> Leaving
    BY <1>4, <1>5, Zenon DEF Leaving, d
  <2>2. Doomed => Doomed'
    BY DEF Doomed
  <2> QED
    BY <2>1, <2>2, <1>4, <1>5 DEF OneWayOut, WhileDown, d
<1> QED
  BY <1>8, <1>9, <1>10 DEF OneWayOut

\* So does what leaves todo and the loop's state alone.
LEMMA SameWay ==
  ASSUME OneWayOut, UNCHANGED <<told, connections_, phase, todo>>,
         told = "down" => index_' = index_, anomalies \subseteq anomalies',
         Has(pendingFunctors_', Destroying) <=> Has(pendingFunctors_, Destroying),
         InOrder(pendingFunctors_', Destroying, Destroying)
  PROVE  OneWayOut'
<1>1. (Leaving' <=> Leaving) /\ (Doomed => Doomed')
  BY DEF Leaving, Doomed
<1>2. DestroyedOnce'
  BY DEF OneWayOut, DestroyedOnce
<1>3. WhileUp'
  BY DEF OneWayOut, WhileUp
<1>4. WhileDown'
  BY <1>1 DEF OneWayOut, WhileDown
<1> QED
  BY <1>2, <1>3, <1>4 DEF OneWayOut

\* Outside of the handlers' phase there is nothing to report.
LEMMA NoReports ==
  ASSUME Phases', phase' # "dispatch"
  PROVE  Reports'
<1>1. \A c \in Handlers : {c} \subseteq Handlers \cup {"removeConnection"}
  OBVIOUS
<1>2. ~Has(todo', Handlers \cup {"removeConnection"})
  BY DEF Phases
<1>3. \A c \in Handlers : ~Has(todo', {c})
  BY <1>1, <1>2, HasMore
<1>4. ~Has(todo', {"closeCallback"}) /\ ~Has(todo', {"errorCallback"})
      /\ ~Has(todo', {"readCallback"})
  BY <1>3 DEF Handlers
<1>5. /\ InOrder(todo', {"errorCallback"}, LoopCalls)
      /\ InOrder(todo', {"errorCallback"}, Handlers)
      /\ InOrder(todo', {"readCallback"}, {"readCallback", "writeCallback"})
  BY <1>4, NoneInOrder
<1> QED
  BY <1>4, <1>5, Zenon DEF Reports

\* What the handlers that are left may find.
ErrorLeft ==
  /\ "errorEvent" \in anomalies
  /\ told = "up" => sockErr
  /\ told = "down" => Doomed /\ ~Has(pendingFunctors_, Destroying)
ReadLeft ==
  \/ told = "up"
  \/ sockErr /\ "errorEvent" \in anomalies
  \/ Doomed /\ ~Has(pendingFunctors_, Destroying)

\* The head of todo gives way to work without handlers.
LEMMA LeavesReports ==
  ASSUME WorkTypes, Reports, todo # <<>>, NEW work \in Seq(AllCalls), ~Has(work, Handlers),
         Leaves(work), connections_' = "holds" => connections_ = "holds",
         Has(Tail(todo), {"errorCallback"}) => ErrorLeft',
         Has(Tail(todo), {"readCallback"}) => ReadLeft'
  PROVE  Reports'
<1> DEFINE c == {"closeCallback"}
<1> DEFINE e == {"errorCallback"}
<1> DEFINE r == {"readCallback"}
<1> DEFINE w == {"readCallback", "writeCallback"}
<1>1. /\ c \subseteq Handlers /\ e \subseteq Handlers /\ r \subseteq Handlers
      /\ w \subseteq Handlers
  BY DEF Handlers
<1>2. Head(todo).call \in LoopCalls
  BY DEF WorkTypes, AllCalls, WithString, Work
<1>3. /\ ~Has(todo, c) /\ InOrder(todo, e, Handlers) /\ InOrder(todo, r, w)
      /\ connections_ = "holds" => InOrder(todo, e, LoopCalls)
  BY DEF Reports
<1>4. /\ Has(Tail(todo), e) => ErrorLeft'
      /\ Has(Tail(todo), r) => ReadLeft'
  OBVIOUS
<1> HIDE DEF c, e, r, w
<1>5. ~Has(work, c) /\ ~Has(work, e) /\ ~Has(work, r) /\ ~Has(work, w)
  BY <1>1, HasMore
<1>6. ~Has(todo', c)
  BY <1>3, <1>5, LeavesCalls
<1>7. Has(todo', e) <=> Has(Tail(todo), e)
  BY <1>5, LeavesCalls
<1>8. Has(todo', r) <=> Has(Tail(todo), r)
  BY <1>5, LeavesCalls
<1>9. InOrder(todo', r, w)
  BY <1>3, <1>5, NoneInOrder, LeavesCalls
<1>10. InOrder(todo', e, Handlers)
  BY <1>3, <1>5, NoneInOrder, LeavesCalls
<1>11. connections_' = "holds" => InOrder(todo', e, LoopCalls)
  <2>1. connections_ = "holds" => ~Has(Tail(todo), e)
    BY <1>2, <1>3, LeavesCalls
  <2> QED
    BY <2>1, <1>7, NoneInOrder
<1>12. (Has(todo', e) => ErrorLeft') /\ (Has(todo', r) => ReadLeft')
  BY <1>4, <1>7, <1>8
<1> QED
  BY <1>6, <1>9, <1>10, <1>11, <1>12, Zenon DEF Reports, ErrorLeft, ReadLeft, c, e, r, w

-----------------------------------------------------------------------------
(* The life of a connection, step by step *)

Established == told # "nothing" /\ TypeInv /\ Fresh /\ Phases

\* Such a connection is up or down, and its lists of work are lists of calls.
LEMMA EstablishedTypes ==
  ASSUME Established
  PROVE  told \in {"up", "down"} /\ WorkTypes /\ todo \in Seq(AllCalls)
         /\ sockErr \in BOOLEAN /\ connections_ \in {"holds", "erased", "destroyed"}
  BY DEF Established, TypeInv, StateTypes, HistoryTypes, SocketTypes, ConnTypes, WorkTypes

\* The call that is made next is in todo.
LEMMA DoesCalls ==
  ASSUME WorkTypes, NEW calls, Does(calls)
  PROVE  phase # "poll" /\ todo # <<>> /\ Head(todo).call \in calls /\ Has(todo, calls)
<1>1. phase # "poll" /\ todo # <<>> /\ Head(todo).call \in calls /\ todo \in Seq(AllCalls)
  BY DEF Does, WorkTypes
<1> QED
  BY <1>1, HasHead

\* removeConnection() comes to a connection that is held by its server and not being
\* destroyed, unless the server has gone in a handler.
LEMMA ClosingStage ==
  ASSUME Established, OnCourse, Does({"removeConnection"})
  PROVE  /\ told = "down" /\ (connections_ = "holds" \/ Doomed)
         /\ connections_ = "holds" =>
              /\ ~Has(Tail(todo), Closing) /\ ~Has(Tail(todo), Destroying)
              /\ ~Has(pendingFunctors_, Destroying) /\ index_ = "kDeleted"
              /\ ~Has(todo, {"errorCallback"})
              /\ Has(todo, {"readCallback"}) => sockErr /\ "errorEvent" \in anomalies
<1>1. todo # <<>> /\ Head(todo).call = "removeConnection" /\ todo \in Seq(AllCalls)
  BY DoesCalls, EstablishedTypes
<1>2. Has(todo, Closing) /\ Head(todo).call \in Closing
  BY <1>1, HasHead, WaysOut
<1>3. told = "down"
  BY <1>2, EstablishedTypes DEF OnCourse, OneWayOut, WhileUp
<1>4. connections_ = "holds" \/ Doomed
  BY <1>2, <1>3 DEF OnCourse, OneWayOut, WhileDown
<1>5. ASSUME connections_ = "holds"
      PROVE  /\ ~Has(Tail(todo), Closing) /\ ~Has(Tail(todo), Destroying)
             /\ ~Has(pendingFunctors_, Destroying)
  BY <1>1, <1>2, <1>5, HasHead DEF OnCourse, OneWayOut, DestroyedOnce
<1>6. ASSUME connections_ = "holds"
      PROVE  /\ index_ = "kDeleted" /\ ~Has(todo, {"errorCallback"})
             /\ Has(todo, {"readCallback"}) => sockErr /\ "errorEvent" \in anomalies
  BY <1>3, <1>6 DEF OnCourse, OneWayOut, WhileDown, Reports, Doomed
<1> QED
  BY <1>3, <1>4, <1>5, <1>6

\* connectDestroyed() and channel_->remove() come once, to a connection that its server
\* no longer holds.
LEMMA DestroyingStage ==
  ASSUME Established, OnCourse, NEW c \in Destroying, Does({c})
  PROVE  /\ ~Has(Tail(todo), Destroying) /\ ~Has(pendingFunctors_, Destroying)
         /\ connections_ # "holds"
         /\ told = "up" => /\ ~Has(Tail(todo), Closing) /\ connections_ = "destroyed"
                           /\ phase = "functors" \/ Doomed
                           /\ \/ c = "connectDestroyed"
                              \/ c = "remove" /\ "serverGone" \in anomalies
         /\ told = "down" => /\ index_ = "kDeleted"
                             /\ Has(Tail(todo), Closing) => Doomed
<1>1. todo # <<>> /\ Head(todo).call = c /\ todo \in Seq(AllCalls)
  BY DoesCalls, EstablishedTypes
<1>2. Has(todo, Destroying) /\ (Has(Tail(todo), Closing) => Has(todo, Closing))
  BY <1>1, HasHead
<1>3. ~Has(Tail(todo), Destroying)
  <2> DEFINE h == Destroying \cup Handlers
  <2>1. InOrder(todo, Destroying, h) /\ Head(todo).call \in h
    BY <1>1 DEF OnCourse, OneWayOut, DestroyedOnce
  <2> HIDE DEF h
  <2> QED
    BY <2>1, <1>1, HasHead
<1>4. ~Has(pendingFunctors_, Destroying) /\ connections_ # "holds"
  BY <1>2 DEF OnCourse, OneWayOut, DestroyedOnce
<1>5. ASSUME told = "up"
      PROVE  /\ ~Has(Tail(todo), Closing) /\ connections_ = "destroyed"
             /\ phase = "functors" \/ Doomed
             /\ \/ c = "connectDestroyed"
                \/ c = "remove" /\ "serverGone" \in anomalies
  BY <1>1, <1>2, <1>4, <1>5 DEF OnCourse, OneWayOut, WhileUp, Doomed
<1>6. ASSUME told = "down"
      PROVE  index_ = "kDeleted" /\ (Has(Tail(todo), Closing) => Doomed)
  BY <1>2, <1>4, <1>6 DEF OnCourse, OneWayOut, WhileDown
<1> QED
  BY <1>3, <1>4, <1>5, <1>6

\* Handlers of an open connection find it on its server's list, with no removal under
\* way; those of a closed one find the error that has closed it, or the server gone.
LEMMA HandlerStage ==
  ASSUME Established, OnCourse, NEW c \in Handlers, Does({c})
  PROVE  /\ phase = "dispatch" /\ c # "closeCallback" /\ ~Has(todo, Destroying)
         /\ ~Has(Tail(todo), {"errorCallback"})
         /\ told = "up" => /\ connections_ = "holds" /\ ~Has(todo, Closing)
                           /\ ~Has(pendingFunctors_, Destroying)
         /\ c = "errorCallback" => ErrorLeft
         /\ c = "readCallback" => ReadLeft
         /\ c \in {"readCallback", "writeCallback"} => ~Has(Tail(todo), {"readCallback"})
<1>1. todo # <<>> /\ Head(todo).call = c /\ todo \in Seq(AllCalls) /\ Has(todo, {c})
  BY DoesCalls, EstablishedTypes
<1>2. phase = "dispatch"
  <2>1. {c} \subseteq Handlers \cup {"removeConnection"}
    OBVIOUS
  <2> QED
    BY <1>1, <2>1, HasMore DEF Established, Phases
<1>3. ~Has(todo, Destroying)
  <2> DEFINE h == Destroying \cup Handlers
  <2>1. InOrder(todo, Destroying, h) /\ Head(todo).call \in h
    BY <1>1 DEF OnCourse, OneWayOut, DestroyedOnce
  <2>2. Head(todo).call \notin Destroying
    BY <1>1, WaysOut
  <2> HIDE DEF h
  <2> QED
    BY <2>1, <2>2, <1>1, HasHead
<1>4. ~Has(Tail(todo), {"errorCallback"})
  BY <1>1, HasHead DEF OnCourse, Reports
<1>5. ASSUME told = "up"
      PROVE  /\ connections_ = "holds" /\ ~Has(todo, Closing)
             /\ ~Has(pendingFunctors_, Destroying)
  BY <1>1, <1>5 DEF OnCourse, OneWayOut, WhileUp, DestroyedOnce, Handlers
<1>6. /\ c # "closeCallback"
      /\ c = "errorCallback" => ErrorLeft
      /\ c = "readCallback" => ReadLeft
  BY <1>1 DEF OnCourse, Reports, ErrorLeft, ReadLeft
<1>7. c \in {"readCallback", "writeCallback"} => ~Has(Tail(todo), {"readCallback"})
  BY <1>1, HasHead DEF OnCourse, Reports
<1> QED
  BY <1>2, <1>3, <1>4, <1>5, <1>6, <1>7

\* handleClose() begins the way out, or is called although the server has gone.
LEMMA CloseStep ==
  ASSUME Established, OnCourse, NEW c \in Handlers, Does({c}), HandleClose,
         UNCHANGED <<connections_, phase, pendingFunctors_, anomalies>>,
         told = "up" \/ (Doomed /\ ~Has(pendingFunctors_, Destroying)),
         Has(Tail(todo), {"readCallback"}) => ReadLeft'
  PROVE  OnCourse'
<1> DEFINE work == <<Call("connectionCallback_"), Call("removeConnection")>>
<1> DEFINE h == Destroying \cup Handlers
<1>1. /\ state_' = "kDisconnected" /\ events_' = {} /\ told' = "down" /\ Leaves(work)
      /\ index_' = IF index_ = "kAdded" THEN "kDeleted" ELSE "kAdded"
  BY DEF HandleClose, SetEvents, Tell
<1>2. WorkTypes /\ todo # <<>> /\ ~Has(todo, Destroying) /\ ~Has(pendingFunctors_, Destroying)
      /\ ~Has(Tail(todo), {"errorCallback"})
  BY DoesCalls, HandlerStage, EstablishedTypes
<1>3. /\ work \in Seq(AllCalls) /\ Has(work, Closing) /\ ~Has(work, Destroying)
      /\ ~Has(work, Handlers) /\ InOrder(work, Closing, Closing)
  <2>1. /\ "connectionCallback_" \in LoopCalls \ {"sendInLoop"}
        /\ "removeConnection" \in LoopCalls \ {"sendInLoop"}
        /\ "connectionCallback_" \notin Closing /\ "removeConnection" \in Closing
        /\ "connectionCallback_" \notin Destroying /\ "removeConnection" \notin Destroying
        /\ "connectionCallback_" \notin Handlers /\ "removeConnection" \notin Handlers
    BY DEF LoopCalls, UserCallbacks, Closing, Destroying, Handlers
  <2> QED
    BY <2>1, LeftWork, Zenon
<1> HIDE DEF work
<1>4. ~Has(todo', Destroying) /\ Has(todo', Closing)
  BY <1>1, <1>2, <1>3, LeavesCalls
<1>5. InOrder(todo', Destroying, h)
  BY <1>4, NoneInOrder
<1>6. connections_ = "holds" => index_ = "kAdded" /\ InOrder(todo', Closing, Closing)
  <2> SUFFICES ASSUME connections_ = "holds"
               PROVE  index_ = "kAdded" /\ InOrder(todo', Closing, Closing)
    OBVIOUS
  <2>1. told = "up" /\ index_ = "kAdded" /\ ~Has(todo, Closing)
    BY HandlerStage DEF OnCourse, States, Doomed
  <2>2. InOrder(todo, Closing, Closing) /\ ~Has(Tail(todo), Closing)
    BY <2>1, <1>1, <1>2, <1>3, NoneInOrder, LeavesCalls
  <2> QED
    BY <2>1, <2>2, <1>1, <1>2, <1>3, LeavesCalls
<1>7. DestroyedOnce'
  <2>1. InOrder(pendingFunctors_', Destroying, Destroying)
    BY <1>2, NoneInOrder
  <2> QED
    BY <2>1, <1>2, <1>4, <1>5, <1>6 DEF DestroyedOnce, h
<1>8. connections_ = "holds" \/ Doomed'
  BY HandlerStage DEF Doomed
<1>9. WhileDown'
  BY <1>1, <1>2, <1>4, <1>6, <1>8 DEF WhileDown, Leaving
<1>10. OneWayOut'
  BY <1>1, <1>7, <1>9 DEF OneWayOut, WhileUp
<1>11. Reports'
  BY <1>1, <1>2, <1>3, LeavesReports DEF OnCourse
<1>12. States'
  BY <1>1 DEF States
<1> QED
  BY <1>10, <1>11, <1>12 DEF OnCourse

\* removeConnection() goes on along it, if it finds the server.
LEMMA RemoveConnectionStep ==
  ASSUME Established, OnCourse, RemoveConnection, crashed = "no"
  PROVE  /\ crashed' # "no" => Doomed
         /\ crashed' = "no" => OnCourse'
<1>1. /\ Does({"removeConnection"}) /\ Leaves(<<>>)
      /\ UNCHANGED <<state_, channelVars, phase, sockErr, anomalies, told>>
  BY DEF RemoveConnection, socketVars, news
<1>2. /\ told = "down" /\ (connections_ = "holds" \/ Doomed)
      /\ connections_ = "holds" =>
           /\ ~Has(Tail(todo), Closing) /\ ~Has(Tail(todo), Destroying)
           /\ ~Has(pendingFunctors_, Destroying) /\ index_ = "kDeleted"
           /\ ~Has(todo, {"errorCallback"})
           /\ Has(todo, {"readCallback"}) => sockErr /\ "errorEvent" \in anomalies
  BY <1>1, ClosingStage
<1>3. CASE connections_ = "destroyed"
  BY <1>2, <1>3 DEF RemoveConnection
<1>4. CASE connections_ # "destroyed"
  <2>1. /\ connections_ = "holds" /\ connections_' = "erased" /\ Queues("connectDestroyed")
        /\ crashed' = "no"
    BY <1>2, <1>4 DEF RemoveConnection, Doomed
  <2>2. WorkTypes /\ todo # <<>> /\ todo \in Seq(AllCalls)
    BY <1>1, DoesCalls, EstablishedTypes
  <2>3. /\ Has(pendingFunctors_', Destroying)
        /\ InOrder(pendingFunctors_', Destroying, Destroying)
    <3>1. /\ Call("connectDestroyed") \in FunctorCalls
          /\ Call("connectDestroyed").call \in Destroying
      BY CallTypes DEF StrongFunctors, Call, Destroying
    <3>2. InOrder(pendingFunctors_, Destroying, Destroying)
      BY <1>2, <2>1, NoneInOrder
    <3> QED
      BY <1>2, <2>1, <2>2, <3>1, <3>2, QueuedCalls DEF Queues
  <2>4. <<>> \in Seq(AllCalls) /\ \A a : ~Has(<<>>, a)
    BY HasFew, Zenon, EmptySeq
  <2>5. ~Has(todo', Destroying) /\ ~Has(todo', Closing)
    BY <1>1, <1>2, <2>1, <2>2, <2>4, LeavesCalls
  <2>6. InOrder(todo', Destroying, Destroying \cup Handlers)
    BY <2>5, NoneInOrder
  <2>7. DestroyedOnce'
    BY <2>1, <2>3, <2>5, <2>6 DEF DestroyedOnce
  <2>8. WhileDown'
    BY <1>1, <1>2, <2>1, <2>3, <2>5 DEF WhileDown, Leaving, channelVars
  <2>9. OneWayOut'
    BY <1>1, <1>2, <2>7, <2>8 DEF OneWayOut, WhileUp
  <2>10. /\ ~Has(Tail(todo), {"errorCallback"})
         /\ Has(Tail(todo), {"readCallback"}) => Has(todo, {"readCallback"})
    BY <1>2, <2>1, <2>2, HasHead
  <2>11. Has(Tail(todo), {"readCallback"}) => ReadLeft'
    BY <1>1, <1>2, <2>1, <2>10 DEF ReadLeft
  <2>12. Reports'
    BY <1>1, <2>1, <2>2, <2>4, <2>10, <2>11, LeavesReports DEF OnCourse
  <2>13. States'
    BY <1>1 DEF OnCourse, States, channelVars
  <2> QED
    BY <2>1, <2>9, <2>12, <2>13 DEF OnCourse
<1> QED
  BY <1>3, <1>4

\* What handlers find does not get lost while the server stays away.
LEMMA LeftBehind ==
  ASSUME Established, OnCourse, UNCHANGED <<connections_, pendingFunctors_, told>>,
         sockErr => sockErr', anomalies \subseteq anomalies', todo # <<>>
  PROVE  /\ Has(Tail(todo), {"errorCallback"}) => ErrorLeft'
         /\ Has(Tail(todo), {"readCallback"}) => ReadLeft'
<1>1. /\ Has(Tail(todo), {"errorCallback"}) => Has(todo, {"errorCallback"})
      /\ Has(Tail(todo), {"readCallback"}) => Has(todo, {"readCallback"})
  BY HasHead, EstablishedTypes
<1>2. (Doomed => Doomed') /\ (Has(pendingFunctors_', Destroying) <=> Has(pendingFunctors_, Destroying))
  BY DEF Doomed
<1>3. Has(todo, {"errorCallback"}) => ErrorLeft'
  BY <1>2 DEF OnCourse, Reports, ErrorLeft
<1>4. Has(todo, {"readCallback"}) => ReadLeft'
  BY <1>2 DEF OnCourse, Reports, ReadLeft
<1> QED
  BY <1>1, <1>3, <1>4

\* connectDestroyed() goes on along it, or begins it for ~TcpServer.
LEMMA ConnectDestroyedStep ==
  ASSUME Established, OnCourse, ConnectDestroyed, Phases'
  PROVE  OnCourse' /\ (state_ = "kConnected" => told = "up")
<1>1. /\ Does({"connectDestroyed"})
      /\ UNCHANGED <<connections_, phase, pendingFunctors_, sockErr>>
      /\ anomalies \subseteq anomalies'
  BY DEF ConnectDestroyed, socketVars
<1>2. WorkTypes /\ todo # <<>> /\ told \in {"up", "down"}
  BY <1>1, DoesCalls, EstablishedTypes
<1>3. /\ ~Has(Tail(todo), Destroying) /\ ~Has(pendingFunctors_, Destroying)
      /\ connections_ # "holds"
      /\ told = "up" => /\ ~Has(Tail(todo), Closing) /\ connections_ = "destroyed"
                        /\ phase = "functors" \/ Doomed
      /\ told = "down" => /\ index_ = "kDeleted"
                          /\ Has(Tail(todo), Closing) => Doomed
  BY <1>1, DestroyingStage, WaysOut
<1> DEFINE one == <<Call("remove")>>
<1> DEFINE two == <<Call("connectionCallback_"), Call("remove")>>
<1> DEFINE h == Destroying \cup Handlers
<1>4. /\ one \in Seq(AllCalls) /\ two \in Seq(AllCalls)
      /\ Has(one, Destroying) /\ Has(two, Destroying)
      /\ ~Has(one, Closing) /\ ~Has(two, Closing)
      /\ InOrder(one, Destroying, h) /\ InOrder(two, Destroying, h)
      /\ ~Has(one, Handlers) /\ ~Has(two, Handlers)
  <2>1. /\ "connectionCallback_" \in LoopCalls \ {"sendInLoop"}
        /\ "remove" \in LoopCalls \ {"sendInLoop"}
        /\ "connectionCallback_" \notin h /\ "remove" \in Destroying
        /\ "connectionCallback_" \notin Destroying
        /\ "connectionCallback_" \notin Handlers /\ "remove" \notin Handlers
        /\ "connectionCallback_" \notin Closing /\ "remove" \notin Closing
    BY DEF LoopCalls, UserCallbacks, Closing, Destroying, Handlers
  <2> HIDE DEF h
  <2> QED
    BY <2>1, LeftWork, Zenon
<1>5. Head(one \o Tail(todo)).call = "remove" /\ one \o Tail(todo) # <<>>
  <2>1. Call("remove") \in AllCalls
    BY CallTypes DEF LoopCalls
  <2>2. Len(one \o Tail(todo)) = Len(todo) /\ (one \o Tail(todo))[1] = Call("remove")
        /\ one \o Tail(todo) \in Seq(AllCalls) /\ Len(todo) \in Nat \ {0}
    BY <1>2, <2>1, LeftOne DEF WorkTypes
  <2> QED
    BY <2>2 DEF Call
<1>6. InOrder(todo, Destroying, h)
  BY DEF OnCourse, OneWayOut, DestroyedOnce
<1> HIDE DEF one, two, h
<1>7. ASSUME NEW work \in {one, two}, Leaves(work)
      PROVE  /\ Has(todo', Destroying) /\ InOrder(todo', Destroying, h)
             /\ Has(todo', Closing) <=> Has(Tail(todo), Closing)
  BY <1>2, <1>3, <1>4, <1>6, <1>7, LeavesCalls
<1>8. ASSUME NEW work \in {one, two}, Leaves(work) PROVE DestroyedOnce'
  <2>1. InOrder(pendingFunctors_', Destroying, Destroying)
    BY <1>1, <1>3, NoneInOrder
  <2> QED
    BY <2>1, <1>1, <1>3, <1>7, <1>8 DEF DestroyedOnce, h
<1>9. (Doomed => Doomed') /\ (Doomed' \/ phase' = "functors" \/ told = "down")
  BY <1>1, <1>2, <1>3 DEF Doomed
<1>10. CASE state_ = "kConnected"
  <2>1. told = "up" /\ index_ = "kAdded"
    BY <1>2, <1>10 DEF OnCourse, States
  <2>2. /\ state_' = "kDisconnected" /\ SetEvents({}) /\ told' = "down" /\ Leaves(two)
    BY <1>10 DEF ConnectDestroyed, Tell, two
  <2>3. index_' = "kDeleted" /\ events_' = {}
    BY <2>1, <2>2 DEF SetEvents
  <2>4. States'
    BY <2>2, <2>3 DEF States
  <2>5. WhileDown' /\ WhileUp' /\ DestroyedOnce'
    BY <2>1, <2>2, <2>3, <1>1, <1>3, <1>7, <1>8 DEF WhileDown, WhileUp, Leaving
  <2>6. Reports'
    <3>1. CASE phase' = "functors"
      BY <3>1, NoReports
    <3>2. CASE Doomed'
      <4>1. Has(Tail(todo), {"errorCallback"}) => "errorEvent" \in anomalies'
        <5>1. Has(Tail(todo), {"errorCallback"}) => Has(todo, {"errorCallback"})
          BY <1>2, HasHead DEF WorkTypes
        <5> QED
          BY <5>1, <1>1 DEF OnCourse, Reports
      <4>2. /\ Has(Tail(todo), {"errorCallback"}) => ErrorLeft'
            /\ Has(Tail(todo), {"readCallback"}) => ReadLeft'
        BY <4>1, <3>2, <2>2, <1>1, <1>3 DEF ErrorLeft, ReadLeft
      <4> QED
        BY <4>2, <2>2, <1>1, <1>2, <1>4, LeavesReports DEF OnCourse
    <3> QED
      BY <3>1, <3>2, <2>1, <1>9
  <2> QED
    BY <2>1, <2>4, <2>5, <2>6 DEF OnCourse, OneWayOut
<1>11. CASE state_ # "kConnected"
  <2>1. Leaves(one) /\ UNCHANGED <<state_, events_, index_, told>>
    BY <1>11 DEF ConnectDestroyed, channelVars, news, one
  <2>2. told = "up" => Head(todo').call = "remove" /\ todo' # <<>> /\ "serverGone" \in anomalies'
    <3>1. told = "up" => state_ = "kDisconnecting"
      BY <1>11 DEF OnCourse, States
    <3>2. told = "up" => "serverGone" \in anomalies'
      BY <3>1, <1>11 DEF ConnectDestroyed
    <3>3. todo' = one \o Tail(todo)
      BY <2>1 DEF Leaves
    <3> QED
      BY <3>2, <3>3, <1>5
  <2>3. States'
    BY <2>1 DEF OnCourse, States
  <2>4. WhileUp'
    BY <2>1, <2>2, <1>1, <1>3, <1>7 DEF WhileUp, Doomed
  <2>5. WhileDown'
    BY <2>1, <1>1, <1>3, <1>7, <1>9 DEF WhileDown, Leaving
  <2>6. Reports'
    <3>1. /\ Has(Tail(todo), {"errorCallback"}) => ErrorLeft'
          /\ Has(Tail(todo), {"readCallback"}) => ReadLeft'
      BY <2>1, <1>1, <1>2, LeftBehind
    <3> QED
      BY <2>1, <3>1, <1>1, <1>2, <1>4, LeavesReports DEF OnCourse
  <2>7. DestroyedOnce'
    BY <2>1, <1>8
  <2> QED
    BY <2>3, <2>4, <2>5, <2>6, <2>7, <1>11 DEF OnCourse, OneWayOut
<1> QED
  BY <1>10, <1>11

\* channel_->remove() ends it.
LEMMA RemoveStep ==
  ASSUME Established, OnCourse, Remove, crashed = "no"
  PROVE  /\ crashed' \in {"no", "isNoneEvent"}
         /\ crashed' = "isNoneEvent" => "serverGone" \in anomalies
         /\ crashed' = "no" => OnCourse'
<1>1. Does({"remove"}) /\ Leaves(<<>>)
      /\ UNCHANGED <<state_, events_, connections_, phase, pendingFunctors_, told, sockErr,
                     anomalies>>
  BY DEF Remove, socketVars, news
<1>2. WorkTypes /\ todo # <<>> /\ told \in {"up", "down"} /\ todo \in Seq(AllCalls)
  BY <1>1, DoesCalls, EstablishedTypes
<1>3. /\ ~Has(Tail(todo), Destroying) /\ ~Has(pendingFunctors_, Destroying)
      /\ connections_ # "holds"
      /\ told = "up" => "serverGone" \in anomalies
      /\ told = "down" => index_ = "kDeleted" /\ (Has(Tail(todo), Closing) => Doomed)
  <2>1. "remove" \in Destroying /\ "remove" # "connectDestroyed"
    BY WaysOut
  <2> QED
    BY <1>1, <2>1, DestroyingStage
<1>4. ASSUME told = "up" PROVE crashed' = "isNoneEvent" /\ "serverGone" \in anomalies
  BY <1>3, <1>4 DEF OnCourse, States, Remove
<1>5. ASSUME told = "down" PROVE index_' = "kNew" /\ crashed' = crashed
  BY <1>3, <1>5 DEF OnCourse, States, Remove
<1>6. <<>> \in Seq(AllCalls) /\ \A a : ~Has(<<>>, a)
  BY HasFew, Zenon, EmptySeq
<1>7. ~Has(todo', Destroying) /\ (Has(todo', Closing) <=> Has(Tail(todo), Closing))
  BY <1>1, <1>2, <1>3, <1>6, LeavesCalls
<1>8. /\ InOrder(todo', Destroying, Destroying \cup Handlers)
      /\ InOrder(pendingFunctors_', Destroying, Destroying)
  BY <1>1, <1>3, <1>7, NoneInOrder
<1>9. ASSUME told = "down" PROVE OnCourse'
  <2>1. DestroyedOnce'
    BY <1>1, <1>3, <1>7, <1>8 DEF DestroyedOnce
  <2>2. WhileDown' /\ WhileUp'
    BY <1>1, <1>3, <1>5, <1>7, <1>9 DEF WhileDown, WhileUp, Leaving, Doomed
  <2>3. /\ Has(Tail(todo), {"errorCallback"}) => ErrorLeft'
        /\ Has(Tail(todo), {"readCallback"}) => ReadLeft'
    BY <1>1, <1>2, LeftBehind
  <2>4. Reports'
    BY <2>3, <1>1, <1>2, <1>6, LeavesReports DEF OnCourse
  <2>5. States'
    BY <1>1, <1>9 DEF OnCourse, States
  <2> QED
    BY <2>1, <2>2, <2>4, <2>5 DEF OnCourse, OneWayOut
<1> QED
  BY <1>2, <1>4, <1>5, <1>9

\* ~TcpServer takes the connection along while it is up, ahead of what is left to do.
LEMMA ServerGoesStep ==
  ASSUME Established, OnCourse, ServerGoes, Phases'
  PROVE  OnCourse'
<1> DEFINE work == <<Call("connectDestroyed")>>
<1> DEFINE h == Destroying \cup Handlers
<1>1. /\ connections_ # "destroyed" /\ connections_' = "destroyed"
      /\ UNCHANGED <<state_, events_, index_, phase, pendingFunctors_, told, sockErr>>
      /\ anomalies \subseteq anomalies'
      /\ phase = "dispatch" => Doomed'
      /\ phase \in {"functors", "dispatch"}
      /\ todo' = IF connections_ = "holds" THEN work \o todo ELSE todo
  BY DEF ServerGoes, UserRuns, channelVars, socketVars, news, Doomed, Does, Established, TypeInv,
         StateTypes, PointerTypes
<1>2. /\ WorkTypes /\ told \in {"up", "down"} /\ todo \in Seq(AllCalls)
  BY EstablishedTypes
<1>3. Has(todo, Closing) => phase = "dispatch"
  <2>1. Closing \subseteq Handlers \cup {"removeConnection"}
    BY DEF Closing
  <2> QED
    BY <2>1, HasMore DEF Established, Phases
<1>4. States'
  BY <1>1 DEF OnCourse, States
<1>5. /\ work \in Seq(AllCalls) /\ Has(work, Destroying) /\ InOrder(work, Destroying, h)
      /\ ~Has(work, Closing)
      /\ \A a : a \subseteq Handlers => ~Has(work, a)
      /\ \A a, b : InOrder(work, a, b)
  <2>1. /\ "connectDestroyed" \in LoopCalls \ {"sendInLoop"}
        /\ "connectDestroyed" \in Destroying
        /\ "connectDestroyed" \notin Closing
        /\ \A a : a \subseteq Handlers => "connectDestroyed" \notin a
    BY DEF LoopCalls, StrongFunctors, Destroying, Closing, Handlers
  <2> HIDE DEF h
  <2> QED
    BY <2>1, LeftWork, Zenon
<1>6. Head(work \o todo).call = "connectDestroyed" /\ work \o todo # <<>>
  <2>1. Len(work \o todo) = 1 + Len(todo) /\ (work \o todo)[1] = Call("connectDestroyed")
        /\ Len(todo) \in Nat /\ work \o todo \in Seq(AllCalls)
    BY <1>2, <1>5, ConcatProperties
  <2> QED
    BY <2>1 DEF Call
<1> HIDE DEF work
<1>7. CASE connections_ = "holds"
  <2>1. /\ ~Has(todo, Destroying) /\ ~Has(pendingFunctors_, Destroying)
        /\ InOrder(todo, Destroying, h)
    BY <1>7 DEF OnCourse, OneWayOut, DestroyedOnce
  <2> HIDE DEF h
  <2>2. /\ todo' = work \o todo
        /\ Has(todo', Destroying) /\ (Has(todo', Closing) <=> Has(todo, Closing))
    BY <1>1, <1>2, <1>5, <1>7, HasConcat
  <2>3. InOrder(todo', Destroying, h)
    BY <2>1, <2>2, <1>2, <1>5, InOrderConcat
  <2>4. DestroyedOnce'
    <3>1. InOrder(pendingFunctors_', Destroying, Destroying)
      BY <1>1, <2>1, NoneInOrder
    <3> QED
      BY <3>1, <2>1, <2>2, <2>3, <1>1 DEF DestroyedOnce, h
  <2>5. WhileUp'
    <3>1. told = "up" => ~Has(todo, Closing)
      BY DEF OnCourse, OneWayOut, WhileUp
    <3> QED
      BY <3>1, <2>2, <1>1, <1>6 DEF WhileUp, Doomed
  <2>6. WhileDown'
    <3>1. told = "down" => index_ = "kDeleted"
      BY <1>7 DEF OnCourse, OneWayOut, WhileDown
    <3> QED
      BY <3>1, <2>2, <1>1, <1>3 DEF WhileDown, Leaving
  <2>7. Reports'
    <3> DEFINE e == {"errorCallback"}
    <3> DEFINE r == {"readCallback"}
    <3> DEFINE w == {"readCallback", "writeCallback"}
    <3> DEFINE c == {"closeCallback"}
    <3>1. c \subseteq Handlers /\ e \subseteq Handlers /\ r \subseteq Handlers /\ w \subseteq Handlers
      BY DEF Handlers
    <3>2. /\ ~Has(todo, c) /\ InOrder(todo, e, Handlers) /\ InOrder(todo, r, w)
          /\ Has(todo, e) => "errorEvent" \in anomalies /\ told = "up" /\ sockErr
          /\ Has(todo, r) => told = "up" \/ (sockErr /\ "errorEvent" \in anomalies)
      BY <1>2, <1>7 DEF OnCourse, Reports, Doomed
    <3> HIDE DEF c, e, r, w
    <3>3. ~Has(work, c) /\ ~Has(work, e) /\ ~Has(work, r) /\ ~Has(work, w)
          /\ ~Has(work, Handlers)
      BY <3>1, <1>5
    <3>4. /\ ~Has(todo', c) /\ (Has(todo', e) <=> Has(todo, e))
          /\ Has(todo', r) <=> Has(todo, r)
      BY <3>2, <3>3, <2>2, <1>2, <1>5, HasConcat
    <3>5. InOrder(todo', e, Handlers) /\ InOrder(todo', r, w)
      BY <3>2, <3>3, <2>2, <1>2, <1>5, InOrderConcat
    <3>6. (Has(todo', e) => ErrorLeft') /\ (Has(todo', r) => ReadLeft')
      BY <3>2, <3>4, <1>1 DEF ErrorLeft, ReadLeft
    <3> QED
      BY <3>4, <3>5, <3>6, <1>1 DEF Reports, ErrorLeft, ReadLeft, c, e, r, w
  <2> QED
    BY <2>4, <2>5, <2>6, <2>7, <1>4 DEF OnCourse, OneWayOut
<1>8. CASE connections_ # "holds"
  <2>1. todo' = todo /\ told = "down" /\ ~Has(todo, Closing)
    BY <1>1, <1>2, <1>8 DEF OnCourse, OneWayOut, WhileUp, WhileDown, Doomed
  <2>2. DestroyedOnce'
    BY <2>1, <1>1 DEF OnCourse, OneWayOut, DestroyedOnce
  <2>3. WhileUp' /\ WhileDown'
    BY <2>1, <1>1, <1>8 DEF OnCourse, OneWayOut, WhileUp, WhileDown, Leaving
  <2>4. Reports'
    BY <2>1, <1>1 DEF OnCourse, Reports, Doomed
  <2> QED
    BY <2>2, <2>3, <2>4, <1>4 DEF OnCourse, OneWayOut
<1> QED
  BY <1>7, <1>8

\* epoll_wait reports the events of an open connection only, and an error or a hangup
\* never without the read that comes with it.
LEMMA PollEventsStep ==
  ASSUME Established, OnCourse, PollEvents
  PROVE  OnCourse'
<1>1. /\ phase = "poll" /\ phase' = "dispatch" /\ anomalies \subseteq anomalies'
      /\ UNCHANGED <<state_, events_, index_, connections_, pendingFunctors_, told,
                     sockErr>>
  BY DEF PollEvents, connVars, channelVars, socketVars, news
<1>2. PICK data \in BOOLEAN :
        /\ todo' = HandlersOf(Revents(data))
        /\ anomalies' = anomalies \cup {a \in {"errorEvent"} : "err" \in Revents(data)}
  BY DEF PollEvents
<1> DEFINE r == Revents(data)
<1>3. todo = <<>> /\ (told = "up" => connections_ = "holds")
  BY <1>1 DEF Established, Phases, OnCourse, OneWayOut, WhileUp
<1>4. ~Has(todo, Destroying) /\ ~Has(todo, Closing)
  BY <1>3, HasFew
<1>5. ~Has(todo', Destroying) /\ ~Has(todo', Closing)
  <2>1. /\ "closeCallback" \notin Removals /\ "errorCallback" \notin Removals
        /\ "readCallback" \notin Removals /\ "writeCallback" \notin Removals
    BY DEF Removals, Closing, Destroying
  <2>2. ~Has(todo', Removals)
    BY <2>1, <1>2, HandlersCalls
  <2> QED
    BY <2>2, HasMore, WaysOut
<1>6. States'
  BY <1>1 DEF OnCourse, States
<1>7. OneWayOut'
  <2>1. InOrder(todo', Destroying, Destroying \cup Handlers) /\ InOrder(todo', Closing, Closing)
    BY <1>5, NoneInOrder
  <2>2. DestroyedOnce'
    BY <2>1, <1>1, <1>5 DEF OnCourse, OneWayOut, DestroyedOnce
  <2>3. WhileUp'
    BY <1>1, <1>3, <1>5 DEF WhileUp
  <2>4. WhileDown'
    BY <1>1, <1>4, <1>5 DEF OnCourse, OneWayOut, WhileDown, Leaving
  <2> QED
    BY <2>2, <2>3, <2>4 DEF OneWayOut
<1>8. told = "up" \/ r = {}
  <2>1. told = "down" => index_ # "kAdded"
    BY <1>4 DEF OnCourse, OneWayOut, WhileDown, Leaving
  <2>2. told \in {"up", "down"}
    BY EstablishedTypes
  <2> QED
    BY <2>1, <2>2 DEF Revents
<1>9. /\ ~("hup" \in r /\ "in" \notin r)
      /\ "err" \in r => told = "up" /\ sockErr /\ "errorEvent" \in anomalies'
      /\ "in" \in r => told = "up"
  <2>1. "hup" \in r => "in" \in r
    BY <1>8 DEF Revents, OnCourse, States
  <2>2. "err" \in r => sockErr
    BY DEF Revents
  <2>3. "err" \in r => "errorEvent" \in anomalies'
    BY <1>2
  <2> QED
    BY <2>1, <2>2, <2>3, <1>8
<1> HIDE DEF r
<1>10. todo' = HandlersOf(r)
  BY <1>2 DEF r
<1>11. /\ ~Has(todo', {"closeCallback"})
       /\ Has(todo', {"errorCallback"}) => "err" \in r
       /\ Has(todo', {"readCallback"}) => "in" \in r
       /\ InOrder(todo', {"errorCallback"}, LoopCalls)
       /\ InOrder(todo', {"readCallback"}, {"readCallback", "writeCallback"})
  BY <1>9, <1>10, HandlersCalls
<1>12. InOrder(todo', {"errorCallback"}, Handlers)
  BY <1>11, WaysOut DEF InOrder
<1>13. Reports'
  BY <1>1, <1>9, <1>11, <1>12 DEF Reports
<1> QED
  BY <1>6, <1>7, <1>13 DEF OnCourse

\* doPendingFunctors() takes a removal over with the rest.
LEMMA DoPendingFunctorsStep ==
  ASSUME Established, OnCourse, DoPendingFunctors, Phases'
  PROVE  OnCourse'
<1>1. /\ phase = "dispatch" /\ phase' = "functors" /\ todo = <<>>
      /\ todo' = pendingFunctors_ /\ pendingFunctors_' = <<>>
      /\ UNCHANGED <<state_, events_, index_, connections_, told>>
  BY DEF DoPendingFunctors, connVars, channelVars, news
<1>2. \A a, b : ~Has(<<>>, a) /\ InOrder(<<>>, a, b)
  BY HasFew, Zenon
<1>3. ~Has(pendingFunctors_, Closing) /\ ~Has(pendingFunctors_, Handlers)
  <2>1. /\ Closing \cap (StrongFunctors \cup RawFunctors) = {}
        /\ Handlers \cap (StrongFunctors \cup RawFunctors) = {}
    BY DEF StrongFunctors, RawFunctors, Closing, Handlers
  <2> QED
    BY <2>1, PendingCalls, EstablishedTypes
<1>4. /\ InOrder(todo', Destroying, Destroying \cup Handlers)
      /\ InOrder(todo', Closing, Closing)
  BY <1>1, <1>3 DEF OnCourse, OneWayOut, DestroyedOnce, InOrder, Has
<1>5. OneWayOut'
  <2>1. DestroyedOnce'
    BY <1>1, <1>2, <1>4 DEF OnCourse, OneWayOut, DestroyedOnce
  <2>2. WhileUp'
    BY <1>1, <1>3 DEF OnCourse, OneWayOut, WhileUp
  <2>3. WhileDown'
    BY <1>1, <1>2, <1>3 DEF OnCourse, OneWayOut, WhileDown, Leaving
  <2> QED
    BY <2>1, <2>2, <2>3 DEF OneWayOut
<1>6. Reports'
  BY <1>1, NoReports
<1>7. States'
  BY <1>1 DEF OnCourse, States
<1> QED
  BY <1>5, <1>6, <1>7 DEF OnCourse

\* A batch that is done leaves none behind.
LEMMA FunctorsDoneStep ==
  ASSUME Established, OnCourse, FunctorsDone, Phases'
  PROVE  OnCourse'
<1>1. /\ todo = <<>> /\ todo' = todo /\ phase' = "poll"
      /\ UNCHANGED <<state_, events_, index_, connections_, told, pendingFunctors_>>
  BY DEF FunctorsDone, connVars, channelVars, news
<1>2. DestroyedOnce' /\ WhileUp'
  BY <1>1 DEF OnCourse, OneWayOut, DestroyedOnce, WhileUp
<1>3. OneWayOut'
  <2>1. UNCHANGED anomalies
    BY DEF FunctorsDone, fate
  <2> QED
    BY <2>1, <1>1, <1>2 DEF OnCourse, OneWayOut, WhileDown, Leaving, Doomed
<1>4. Reports'
  BY <1>1, NoReports
<1>5. States'
  BY <1>1 DEF OnCourse, States
<1> QED
  BY <1>3, <1>4, <1>5 DEF OnCourse

\* A step that leaves todo alone, and the channel of a closed connection, leaves the
\* connection on its course.
LEMMA SameCourse ==
  ASSUME Established, OnCourse, UNCHANGED <<told, connections_, phase, todo>>,
         anomalies \subseteq anomalies',
         Has(pendingFunctors_', Destroying) <=> Has(pendingFunctors_, Destroying),
         InOrder(pendingFunctors_', Destroying, Destroying),
         told = "down" => UNCHANGED <<state_, events_, index_>>,
         told = "up" => /\ state_' \in {"kConnected", "kDisconnecting"}
                        /\ "in" \in events_' /\ index_' = "kAdded",
         Has(todo, {"errorCallback"}) \/ told = "down" => (sockErr => sockErr')
  PROVE  OnCourse'
<1>1. OneWayOut'
  BY SameWay DEF OnCourse
<1>2. States'
  BY DEF OnCourse, States
<1>3. Reports'
  <2>1. told \in {"up", "down"} /\ (Doomed => Doomed')
    BY EstablishedTypes DEF Doomed
  <2>2. Has(todo', {"errorCallback"}) => ErrorLeft'
    BY <2>1 DEF OnCourse, Reports, ErrorLeft
  <2>3. Has(todo', {"readCallback"}) => ReadLeft'
    BY <2>1 DEF OnCourse, Reports, ReadLeft
  <2> QED
    BY <2>2, <2>3 DEF OnCourse, Reports, ErrorLeft, ReadLeft
<1> QED
  BY <1>1, <1>2, <1>3 DEF OnCourse

\* So does the end of a call that is neither a removal nor the start of one.
LEMMA LeavesCourse ==
  ASSUME Established, OnCourse, NEW calls, Does(calls), calls \cap Removals = {},
         NEW work \in Seq(AllCalls), ~Has(work, Removals), ~Has(work, Handlers), Leaves(work),
         UNCHANGED <<told, connections_, phase, anomalies>>,
         Has(pendingFunctors_', Destroying) <=> Has(pendingFunctors_, Destroying),
         InOrder(pendingFunctors_', Destroying, Destroying),
         told = "down" => UNCHANGED <<state_, events_, index_>>,
         told = "up" => /\ state_' \in {"kConnected", "kDisconnecting"}
                        /\ "in" \in events_' /\ index_' = "kAdded",
         Has(Tail(todo), {"errorCallback"}) \/ (Has(Tail(todo), {"readCallback"}) /\ told = "down")
           => (sockErr => sockErr')
  PROVE  OnCourse'
<1>1. WorkTypes /\ todo # <<>> /\ Head(todo).call \notin Removals /\ todo \in Seq(AllCalls)
  BY DoesCalls, EstablishedTypes
<1>2. OneWayOut'
  BY <1>1, KeepsWay DEF OnCourse
<1>3. States'
  BY DEF OnCourse, States
<1>4. /\ Has(Tail(todo), {"readCallback"}) => Has(todo, {"readCallback"})
      /\ Has(Tail(todo), {"errorCallback"}) => Has(todo, {"errorCallback"})
  BY <1>1, HasHead
<1>5. told \in {"up", "down"} /\ (Doomed => Doomed')
  BY EstablishedTypes DEF Doomed
<1>6. Has(Tail(todo), {"readCallback"}) => ReadLeft'
  BY <1>4, <1>5 DEF OnCourse, Reports, ReadLeft
<1>7. Has(Tail(todo), {"errorCallback"}) => ErrorLeft'
  BY <1>4, <1>5 DEF OnCourse, Reports, ErrorLeft
<1>8. Reports'
  BY <1>1, <1>6, <1>7, LeavesReports DEF OnCourse
<1> QED
  BY <1>2, <1>3, <1>8 DEF OnCourse

\* Every step of a connection that has been made known, before a late shutdown() or a
\* crash, leaves it on its course.
LEMMA CourseStep ==
  ASSUME Established, OnCourse, crashed = "no", Next, Phases', Orderly'
  PROVE  OnCourse'
<1> USE DEF connVars, channelVars, loopVars, threadVars, socketVars, fate, sends, news
<1> DEFINE Undisturbed ==
      /\ Has(pendingFunctors_', Destroying) <=> Has(pendingFunctors_, Destroying)
      /\ InOrder(pendingFunctors_', Destroying, Destroying)
<1>a. WorkTypes /\ sockErr \in BOOLEAN /\ told \in {"up", "down"} /\ todo \in Seq(AllCalls)
  BY EstablishedTypes
<1>b. /\ told = "up" => /\ state_ \in {"kConnected", "kDisconnecting"}
                        /\ "in" \in events_ /\ index_ = "kAdded"
      /\ told = "down" => state_ = "kDisconnected" /\ events_ = {}
      /\ InOrder(pendingFunctors_, Destroying, Destroying)
  BY DEF OnCourse, States, OneWayOut, DestroyedOnce
<1>c. ASSUME NEW c \in StrongFunctors, c \notin Removals, Queues(c)
      PROVE  Undisturbed
  <2>1. Call(c) \in FunctorCalls /\ Call(c).call = c /\ c \notin Destroying
    BY <1>c, CallTypes, WaysOut DEF Call
  <2> QED
    BY <2>1, <1>a, <1>b, <1>c, QueuedCalls DEF Queues
<1>d. /\ <<>> \in Seq(AllCalls) /\ ~Has(<<>>, Removals) /\ ~Has(<<>>, Handlers)
      /\ <<Call("messageCallback_")>> \in Seq(AllCalls)
      /\ ~Has(<<Call("messageCallback_")>>, Removals)
      /\ ~Has(<<Call("messageCallback_")>>, Handlers)
  <2>1. /\ "messageCallback_" \in LoopCalls \ {"sendInLoop"}
        /\ "messageCallback_" \notin Removals /\ "messageCallback_" \notin Handlers
    BY DEF LoopCalls, UserCallbacks, Removals, Closing, Destroying, Handlers
  <2> QED
    BY <2>1, LeftWork, Zenon
<1>e. /\ UserCallbacks \cap Removals = {} /\ RawFunctors \cap Removals = {}
      /\ {"readCallback"} \cap Removals = {} /\ {"writeCallback"} \cap Removals = {}
      /\ Destroying \cap UserCallbacks = {}
      /\ UserCallbacks \subseteq LoopCalls \ Handlers /\ RawFunctors \subseteq LoopCalls \ Handlers
      /\ "writeCompleteCallback_" \in StrongFunctors /\ "writeCompleteCallback_" \notin Removals
      /\ "errorCallback" \in Handlers /\ "readCallback" \in Handlers
      /\ "closeCallback" \in Handlers /\ "writeCallback" \in Handlers
  BY DEF UserCallbacks, RawFunctors, Removals, Closing, Destroying, StrongFunctors, Handlers,
         LoopCalls
<1>f. ASSUME NEW calls, calls \subseteq LoopCalls \ Handlers, calls \cap Removals = {},
             Does(calls), told = "up"
      PROVE  ~Has(todo, {"errorCallback"})
  <2>1. todo # <<>> /\ Head(todo).call \in calls
    BY <1>a, <1>f, DoesCalls
  <2>2. connections_ = "holds"
    BY <2>1, <1>f, WaysOut DEF OnCourse, OneWayOut, WhileUp
  <2>3. InOrder(todo, {"errorCallback"}, LoopCalls)
    BY <2>2 DEF OnCourse, Reports
  <2>4. Head(todo).call \in LoopCalls /\ Head(todo).call \notin {"errorCallback"}
    BY <2>1, <1>e, <1>f
  <2> QED
    BY <2>1, <2>3, <2>4, <1>a, HasHead
<1> HIDE DEF Undisturbed
<1>1. ~ConnectEstablished
  BY <1>a, DoesCalls DEF ConnectEstablished, Established, Fresh
<1>2. CASE ConnectDestroyed \/ Remove \/ RemoveConnection \/ ServerGoes
  BY <1>2, ConnectDestroyedStep, RemoveStep, RemoveConnectionStep, ServerGoesStep
     DEF Orderly
<1>3. CASE PollEvents \/ DoPendingFunctors \/ FunctorsDone
  BY <1>3, PollEventsStep, DoPendingFunctorsStep, FunctorsDoneStep
<1>4. CASE RunRawFunctor
  <2>1. /\ Does(RawFunctors) /\ Leaves(<<>>)
        /\ UNCHANGED <<told, connections_, phase, anomalies, state_>>
    BY <1>4 DEF RunRawFunctor
  <2>2. told = "up" => ~Has(Tail(todo), {"errorCallback"})
    BY <2>1, <1>a, <1>e, <1>f, DoesCalls, HasHead
  <2>3. CASE SendInLoop(text[Head(todo).buf])
    <3>1. Undisturbed
      BY <2>3, <1>a, <1>b, <1>e, SendInLoopQueues DEF Undisturbed
    <3>2. /\ told = "down" => UNCHANGED <<events_, index_, sockErr>>
          /\ told = "up" => "in" \in events_' /\ index_' = "kAdded"
      BY <2>3, <1>a, <1>b, SendInLoopChannel
    <3>3. /\ told = "down" => UNCHANGED <<state_, events_, index_>>
          /\ told = "down" => (sockErr => sockErr')
      BY <2>1, <3>2
    <3>4. told = "up" => /\ state_' \in {"kConnected", "kDisconnecting"}
                         /\ "in" \in events_' /\ index_' = "kAdded"
      BY <2>1, <3>2, <1>b
    <3>5. UNCHANGED <<told, connections_, phase, anomalies>>
      BY <2>1
    <3> QED
      BY <2>1, <2>2, <3>1, <3>3, <3>4, <3>5, <1>a, <1>d, <1>e, LeavesCourse DEF Undisturbed
  <2>4. CASE UNCHANGED <<channelVars, pendingFunctors_, sockErr>>
    BY <2>1, <2>4, <1>b, <1>d, <1>e, LeavesCourse
  <2> QED
    BY <1>4, <2>3, <2>4 DEF RunRawFunctor, Orderly
<1>5. CASE CloseOrErrorCallback
  <2>1. Does({"closeCallback"}) \/ Does({"errorCallback"})
    BY <1>5 DEF CloseOrErrorCallback, Does
  <2>2. Does({"errorCallback"}) /\ ErrorLeft
    BY <2>1, <1>e, HandlerStage
  <2>3. HandleClose /\ UNCHANGED <<connections_, phase, pendingFunctors_, sockErr,
                                   anomalies>>
    BY <1>5 DEF CloseOrErrorCallback
  <2>4. told = "up" \/ (Doomed /\ ~Has(pendingFunctors_, Destroying))
    BY <2>2, <1>a DEF ErrorLeft
  <2>5. ReadLeft'
    BY <2>2, <2>3, <2>4, <1>a DEF ErrorLeft, ReadLeft, Doomed
  <2> QED
    BY <2>2, <2>3, <2>4, <2>5, <1>e, CloseStep
<1>6. CASE HandleRead
  <2>1. /\ Does({"readCallback"}) /\ ~Has(Tail(todo), {"readCallback"})
        /\ ~Has(Tail(todo), {"errorCallback"}) /\ ReadLeft
        /\ UNCHANGED <<connections_, phase, pendingFunctors_, anomalies>>
    BY <1>6, <1>e, HandlerStage DEF HandleRead
  <2>2. CASE ~sockErr /\ HandleClose
    <3>1. told = "up" \/ (Doomed /\ ~Has(pendingFunctors_, Destroying))
      BY <2>1, <2>2 DEF ReadLeft
    <3> QED
      BY <2>1, <2>2, <3>1, <1>e, CloseStep
  <2>3. ASSUME NEW work \in {<<>>, <<Call("messageCallback_")>>}, Leaves(work),
               UNCHANGED <<state_, channelVars, told>>
        PROVE  OnCourse'
    BY <2>1, <2>3, <1>b, <1>d, <1>e, LeavesCourse
  <2> QED
    BY <1>6, <2>2, <2>3 DEF HandleRead
<1>7. CASE HandleWrite
  <2>1. /\ Does({"writeCallback"}) /\ ~Has(Tail(todo), {"readCallback"}) /\ Leaves(<<>>)
        /\ ~Has(Tail(todo), {"errorCallback"})
        /\ UNCHANGED <<told, connections_, phase, anomalies, state_>>
    BY <1>7, <1>e, HandlerStage DEF HandleWrite
  <2>2. CASE Drained /\ Writing
    <3>1. told = "up" /\ "in" \in events_' /\ index_' = "kAdded"
      BY <2>2, <1>a, <1>b DEF Drained, SetEvents, Writing
    <3>2. Undisturbed
      BY <2>2, <1>c, <1>e DEF Drained
    <3> QED
      BY <2>1, <3>1, <3>2, <1>b, <1>d, <1>e, LeavesCourse DEF Undisturbed
  <2>3. CASE UNCHANGED <<channelVars, pendingFunctors_>>
    BY <2>1, <2>3, <1>b, <1>d, <1>e, LeavesCourse
  <2> QED
    BY <1>7, <2>2, <2>3 DEF HandleWrite
<1>8. CASE UserReturns
  BY <1>8, <1>b, <1>d, <1>e, LeavesCourse DEF UserReturns
<1>9. ASSUME NEW m \in Messages, SendSelf(m) PROVE OnCourse'
  <2>1. /\ Does(UserCallbacks) /\ SendInLoop(m) /\ state_ = "kConnected"
        /\ UNCHANGED <<told, connections_, phase, todo, state_, anomalies>>
    BY <1>9 DEF SendSelf
  <2>2. told = "up"
    BY <2>1, <1>a, <1>b
  <2>3. Undisturbed
    BY <2>1, <1>a, <1>b, <1>e, SendInLoopQueues DEF Undisturbed
  <2>4. "in" \in events_' /\ index_' = "kAdded"
    BY <2>1, <2>2, <1>a, <1>b, SendInLoopChannel
  <2>5. ~Has(todo, {"errorCallback"})
    BY <2>1, <2>2, <1>e, <1>f
  <2> QED
    BY <2>1, <2>2, <2>3, <2>4, <2>5, <1>b, SameCourse DEF Undisturbed
<1>10. ASSUME UNCHANGED <<told, connections_, phase, todo, events_, index_,
                          pendingFunctors_>>,
              state_' \in {state_, "kDisconnecting"}, told = "down" => state_' = state_,
              anomalies \subseteq anomalies', sockErr => sockErr'
       PROVE  OnCourse'
  BY <1>10, <1>b, SameCourse
<1>11. CASE ShutdownSelf
  BY <1>11, <1>10, <1>b DEF ShutdownSelf
<1>12. ASSUME NEW t \in Threads, HandOn(t) PROVE OnCourse'
  BY <1>12, <1>10 DEF HandOn
<1>13. ASSUME NEW t \in Threads, ThreadGoesOn(t) \/ ThreadBegins(t) PROVE OnCourse'
  <2>1. CASE RunInLoop(t)
    <3>1. pc[t].call \in RawFunctors /\ pc[t] \in WithString(ThreadCalls)
          /\ pendingFunctors_' = Append(pendingFunctors_, pc[t])
      BY <2>1, <1>a DEF RunInLoop, Moves, WorkTypes
    <3>2. pc[t] \in FunctorCalls /\ pc[t].call \notin Destroying
      BY <3>1 DEF FunctorCalls, WithString, Work, RawFunctors, Destroying
    <3>3. Undisturbed
      BY <3>1, <3>2, <1>a, <1>b, QueuedCalls DEF Undisturbed
    <3>4. UNCHANGED <<told, connections_, phase, todo, state_, events_, index_, sockErr,
                     anomalies>>
      BY <2>1 DEF RunInLoop
    <3> QED
      BY <3>3, <3>4, <1>b, SameCourse DEF Undisturbed
  <2>2. CASE ShutdownSets(t)
    <3>1. told = "up"
      BY <2>2, <1>a, <1>b DEF ShutdownSets, Orderly
    <3> QED
      BY <2>2, <3>1, <1>10 DEF ShutdownSets
  <2>3. CASE (\E m \in Messages : Send(t, m)) \/ TextGoes(t) \/ Shutdown(t) \/ Drop(t)
    <3>1. UNCHANGED <<told, connections_, phase, todo, events_, index_, pendingFunctors_,
                      state_, anomalies, sockErr>>
      BY <2>3 DEF Send, TextGoes, Shutdown, Drop
    <3> QED
      BY <3>1, <1>10
  <2> QED
    BY <1>13, <2>1, <2>2, <2>3, Zenon DEF ThreadGoesOn, ThreadBegins
<1>14. CASE PeerStep /\ (PeerReads \/ PeerCloses \/ PeerResets)
  <2>1. sockErr => sockErr'
    BY <1>14 DEF PeerReads, PeerCloses, PeerResets
  <2> QED
    BY <1>14, <2>1, <1>10 DEF PeerStep
<1>15. CASE HandleEvent \/ HandlerReturn
  BY <1>15, <1>10 DEF HandleEvent, HandlerReturn
<1> QED
  BY <1>1, <1>2, <1>3, <1>4, <1>5, <1>6, <1>7, <1>8, <1>9, <1>11, <1>12, <1>13, <1>14,
     <1>15, Zenon DEF Next, LoopStep, UserCalls

\* What a step may do to the program, and to the order of the user's news.
LEMMA FateStep ==
  ASSUME Next
  PROVE  /\ crashed = "no" /\ anomalies \subseteq anomalies'
         /\ crashed' \notin {"isNoneEvent", "index", "noServer"} \/ Remove \/ RemoveConnection
         /\ \/ outOfTurn' = outOfTurn
            \/ ConnectEstablished \/ ConnectDestroyed \/ CloseOrErrorCallback \/ HandleRead
<1> USE DEF fate, news
<1>a. ASSUME NEW m, SendInLoop(m), crashed = "no"
      PROVE  crashed' \notin {"isNoneEvent", "index", "noServer"}
  BY <1>a DEF SendInLoop, Buffers
<1>1. Running /\ crashed = "no"
  BY DEF Next, LoopStep, ThreadGoesOn, Running
<1>2. CASE LoopStep
  <2>1. CASE ConnectEstablished
    BY <1>1, <2>1 DEF ConnectEstablished
  <2>2. CASE ConnectDestroyed
    BY <1>1, <2>2 DEF ConnectDestroyed
  <2>3. CASE Remove
    BY <1>1, <2>3 DEF Remove
  <2>4. CASE RunRawFunctor
    BY <1>1, <1>a, <2>4 DEF RunRawFunctor
  <2>5. CASE CloseOrErrorCallback
    BY <1>1, <2>5 DEF CloseOrErrorCallback
  <2>6. CASE RemoveConnection
    BY <1>1, <2>6 DEF RemoveConnection
  <2>7. CASE HandleRead
    BY <1>1, <2>7 DEF HandleRead
  <2>8. CASE HandleWrite
    BY <1>1, <2>8 DEF HandleWrite
  <2>9. CASE PollEvents
    BY <1>1, <2>9 DEF PollEvents
  <2>10. CASE DoPendingFunctors \/ FunctorsDone \/ UserReturns
    BY <1>1, <2>10 DEF DoPendingFunctors, FunctorsDone, UserReturns
  <2>11. CASE HandleEvent \/ HandlerReturn
    BY <1>1, <2>11 DEF HandleEvent, HandlerReturn
  <2> QED
    BY <1>2, <2>1, <2>2, <2>3, <2>4, <2>5, <2>6, <2>7, <2>8, <2>9, <2>10, <2>11
       DEF LoopStep
<1>3. CASE UserCalls
  BY <1>1, <1>a, <1>3 DEF UserCalls, SendSelf, ShutdownSelf, HandOn, ServerGoes
<1>4. CASE \E t \in Threads : ShutdownSets(t) \/ RunInLoop(t) \/ ThreadBegins(t)
  BY <1>1, <1>4 DEF ShutdownSets, RunInLoop, ThreadBegins, Send, TextGoes, Shutdown, Drop
<1>5. CASE PeerStep
  BY <1>1, <1>5 DEF PeerStep
<1> QED
  BY <1>2, <1>3, <1>4, <1>5, Zenon DEF Next, ThreadGoesOn

\* The first steps lead onto the course.
LEMMA LifeBegins ==
  ASSUME TypeInv, Fresh, Life, Phases', told = "nothing", Next
  PROVE  Life'
<1> USE DEF connVars, channelVars, loopVars, threadVars, socketVars, fate, sends, news
<1>1. /\ state_ = "kConnecting" /\ events_ = {} /\ index_ = "kNew" /\ phase = "dispatch"
      /\ todo = <<Call("connectEstablished")>> /\ connections_ = "holds"
      /\ pendingFunctors_ = <<>>
  BY Zenon DEF Fresh
<1>2. \A a : ~Has(<<>>, a) /\ InOrder(<<>>, a, a)
  BY HasFew, Zenon
<1>3. CASE ConnectEstablished
  <2>1. /\ todo' = <<Call("connectionCallback_")>> /\ pendingFunctors_' = <<>>
        /\ events_' = {"in"} /\ index_' = "kAdded" /\ state_' = "kConnected"
        /\ told' = "up" /\ UNCHANGED <<crashed, anomalies, connections_>>
    <3>1. <<Call("connectionCallback_")>> \o <<>> = <<Call("connectionCallback_")>>
      OBVIOUS
    <3> QED
      BY <1>1, <1>3, <3>1 DEF ConnectEstablished, Leaves, SetEvents, Tell
  <2>2. OnCourse'
    <3>1. \A a : "connectionCallback_" \notin a =>
             ~Has(todo', a) /\ \A b : InOrder(todo', a, b)
      BY <2>1 DEF Has, InOrder, Call
    <3>2. /\ ~Has(pendingFunctors_', Destroying)
          /\ InOrder(pendingFunctors_', Destroying, Destroying)
      BY <2>1, <1>2, Zenon
    <3>3. "connectionCallback_" \notin Closing /\ "connectionCallback_" \notin Destroying
      BY DEF Closing, Destroying
    <3>4. OneWayOut'
      BY <3>1, <3>2, <3>3, <2>1, <1>1 DEF OneWayOut, DestroyedOnce, WhileUp, WhileDown
    <3>5. Reports'
      BY <3>1 DEF Reports
    <3> QED
      BY <3>4, <3>5, <2>1 DEF OnCourse, States
  <2>3. outOfTurn' => outOfTurn
    BY <1>3 DEF ConnectEstablished, Tell
  <2> QED
    BY <2>1, <2>2, <2>3 DEF Life, RemoveAssertsHold, ServerCalledWhileThere, CallbacksInTurn
<1>4. CASE PeerStep /\ (PeerReads \/ PeerCloses \/ PeerResets)
  <2>1. UNCHANGED <<connVars, loopVars, fate, news>>
    BY <1>4 DEF PeerStep
  <2>2. Orderly' => OnCourse'
    <3>1. \A a : "connectEstablished" \notin a =>
             ~Has(todo', a) /\ \A b : InOrder(todo', a, b)
      BY <2>1, <1>1 DEF Has, InOrder, Call
    <3>2. /\ ~Has(pendingFunctors_', Destroying)
          /\ InOrder(pendingFunctors_', Destroying, Destroying)
      BY <2>1, <1>1, <1>2, Zenon
    <3>3. "connectEstablished" \notin Closing /\ "connectEstablished" \notin Destroying
      BY DEF Closing, Destroying
    <3>4. OneWayOut'
      BY <3>1, <3>2, <3>3, <2>1 DEF OneWayOut, DestroyedOnce, WhileUp, WhileDown
    <3>5. Reports'
      BY <3>1 DEF Reports
    <3> QED
      BY <3>4, <3>5, <2>1 DEF OnCourse, States
  <2> QED
    BY <2>1, <2>2 DEF Life, RemoveAssertsHold, ServerCalledWhileThere, CallbacksInTurn
<1> QED
  BY <1>3, <1>4, FirstStep

\* No step leads off it, and none breaks what holds beyond.
LEMMA LifeStep == TypeInv /\ Fresh /\ Life /\ [Next]_vars => Life'
<1> SUFFICES ASSUME TypeInv, Fresh, Life, [Next]_vars PROVE Life'
  OBVIOUS
<1>1. Phases'
  BY PhasesStep DEF Life
<1>2. CASE UNCHANGED vars
  BY <1>1, <1>2 DEF vars, connVars, channelVars, loopVars, threadVars, socketVars, fate,
                    sends, news, Life, OnCourse, States, OneWayOut, DestroyedOnce, WhileUp,
                    WhileDown, Leaving, Doomed, Reports, Orderly,
                    RemoveAssertsHold, ServerCalledWhileThere, CallbacksInTurn
<1>3. CASE Next /\ told = "nothing"
  BY <1>1, <1>3, LifeBegins
<1>4. CASE Next /\ told # "nothing"
  <2>1. /\ crashed = "no" /\ anomalies \subseteq anomalies'
        /\ crashed' \notin {"isNoneEvent", "index", "noServer"} \/ Remove \/ RemoveConnection
        /\ \/ outOfTurn' = outOfTurn
           \/ ConnectEstablished \/ ConnectDestroyed \/ CloseOrErrorCallback \/ HandleRead
    BY <1>4, FateStep
  <2>2. Established
    BY <1>4 DEF Established, Life
  <2>3. CASE "lateShutdown" \in anomalies
    BY <2>1, <2>3, <1>1 DEF Life, Orderly, RemoveAssertsHold, ServerCalledWhileThere,
                            CallbacksInTurn
  <2>4. CASE "lateShutdown" \notin anomalies
    <3>1. OnCourse
      BY <2>1, <2>4 DEF Life, Orderly
    <3>2. Orderly' => OnCourse'
      BY <1>1, <1>4, <2>1, <2>2, <3>1, CourseStep
    <3>3. RemoveAssertsHold' /\ ServerCalledWhileThere'
      <4>1. ASSUME Remove
            PROVE  /\ crashed' \in {"no", "isNoneEvent"}
                   /\ crashed' = "isNoneEvent" => "serverGone" \in anomalies
        BY <4>1, <2>1, <2>2, <3>1, RemoveStep
      <4>2. ASSUME RemoveConnection
            PROVE  /\ crashed' \in {"no", "noServer"}
                   /\ crashed' = "noServer" => "inHandler" \in anomalies
        BY <4>2, <2>1, <2>2, <3>1, RemoveConnectionStep DEF RemoveConnection, Doomed
      <4> QED
        BY <4>1, <4>2, <2>1 DEF RemoveAssertsHold, ServerCalledWhileThere
    <3>4. outOfTurn' = outOfTurn \/ anomalies \cap {"errorEvent", "inHandler"} # {}
      <4>1. ~ConnectEstablished
        BY <2>2, DoesCalls DEF ConnectEstablished, Established, Fresh, TypeInv
      <4>2. ASSUME ConnectDestroyed PROVE outOfTurn' = outOfTurn
        <5>1. state_ = "kConnected" => told = "up"
          BY <4>2, <1>1, <2>2, <3>1, ConnectDestroyedStep
        <5> QED
          BY <5>1, <4>2, <2>2 DEF ConnectDestroyed, Tell, news, Established, TypeInv,
                                  StateTypes, HistoryTypes
      <4>3. ASSUME CloseOrErrorCallback PROVE "errorEvent" \in anomalies
        <5>1. Does({"closeCallback"}) \/ Does({"errorCallback"})
          BY <4>3 DEF CloseOrErrorCallback, Does
        <5> QED
          BY <5>1, <2>2, <3>1, HandlerStage DEF Handlers, ErrorLeft
      <4>4. ASSUME HandleRead, told # "up" PROVE anomalies \cap {"errorEvent", "inHandler"} # {}
        BY <4>4, <2>2, <3>1, HandlerStage DEF HandleRead, Handlers, ReadLeft, Doomed
      <4>5. ASSUME HandleRead, told = "up" PROVE outOfTurn' = outOfTurn
        BY <4>5, <2>2 DEF HandleRead, HandleClose, Tell, news, Established, TypeInv,
                          StateTypes, HistoryTypes
      <4> QED
        BY <2>1, <4>1, <4>2, <4>3, <4>4, <4>5
    <3>5. CallbacksInTurn'
      BY <3>4, <2>1 DEF Life, CallbacksInTurn
    <3> QED
      BY <1>1, <3>2, <3>3, <3>5 DEF Life
  <2> QED
    BY <2>3, <2>4
<1> QED
  BY <1>2, <1>3, <1>4

-----------------------------------------------------------------------------
(* The theorems about the life of a connection *)

\* The whole invariant, from the start.
LEMMA LifeHolds == SafeSpec => [](TypeInv /\ Fresh /\ Life)
<1>1. Init => Fresh /\ Life
  <2> SUFFICES ASSUME Init PROVE Fresh /\ Life
    OBVIOUS
  <2>1. \A a : ~Has(<<>>, a) /\ InOrder(<<>>, a, a)
    BY HasFew, Zenon
  <2>2. \A a : "connectEstablished" \notin a =>
           ~Has(todo, a) /\ \A b : InOrder(todo, a, b)
    BY DEF Init, Has, InOrder, Call
  <2>3. /\ "connectEstablished" \notin Closing /\ "connectEstablished" \notin Destroying
        /\ "connectEstablished" \notin Handlers \cup {"removeConnection"}
    BY DEF Closing, Destroying, Handlers
  <2>4. /\ pendingFunctors_ = <<>>
        /\ \A t \in Threads : pc[t].call = "none" /\ text[t] = NoMessage
    BY DEF Init, Call
  <2>5. Fresh
    BY <2>1, <2>4 DEF Init, Fresh
  <2>6. Phases
    BY <2>2, <2>3 DEF Init, Phases
  <2>7. OneWayOut
    BY <2>1, <2>2, <2>3, <2>4 DEF Init, OneWayOut, DestroyedOnce, WhileUp, WhileDown
  <2>8. States /\ Reports
    BY <2>2 DEF Init, States, Reports
  <2>9. RemoveAssertsHold /\ ServerCalledWhileThere /\ CallbacksInTurn
    BY DEF Init, RemoveAssertsHold, ServerCalledWhileThere, CallbacksInTurn
  <2> QED
    BY <2>5, <2>6, <2>7, <2>8, <2>9 DEF Life, OnCourse
<1> QED
  BY <1>1, TypeInvHolds, FreshStep, LifeStep, PTL DEF SafeSpec

\* remove(), called by connectDestroyed(), fails its assert that no event is of interest
\* only after a late shutdown(), or when the server went between shutdown() and the close;
\* it fails the assert that the channel is known to the poller only after a late
\* shutdown(), even where ~TcpServer runs in a handler.
THEOREM TcpConnectionRemoves == SafeSpec => []RemoveAssertsHold
<1>1. TypeInv /\ Fresh /\ Life => RemoveAssertsHold
  BY DEF Life
<1> QED
  BY <1>1, LifeHolds, PTL

\* handleClose() calls back a server that is gone only when ~TcpServer ran in a handler of
\* the loop, or after a late shutdown(); not when it ran between the handlers and the
\* next call of epoll_wait.
THEOREM TcpConnectionServerThere == SafeSpec => []ServerCalledWhileThere
<1>1. TypeInv /\ Fresh /\ Life => ServerCalledWhileThere
  BY DEF Life
<1> QED
  BY <1>1, LifeHolds, PTL

\* The user hears of the connection in order, up, messages, down, each of the two once,
\* unless an error event or a late shutdown() came or ~TcpServer ran in a handler: other
\* threads, the peer's end and removals do not disturb it.
THEOREM TcpConnectionCallbacks == SafeSpec => []CallbacksInTurn
<1>1. TypeInv /\ Fresh /\ Life => CallbacksInTurn
  BY DEF Life
<1> QED
  BY <1>1, LifeHolds, PTL

\* Without a late shutdown() a pointer is left while the channel is known to the poller:
\* connections_ holds it until removeConnection() has put it into connectDestroyed(), and
\* ~TcpServer holds it while that runs, in a functor or in a handler.
THEOREM TcpConnectionUnregisters == SafeSpec => []DestroyedIsUnregistered
<1>1. TypeInv /\ Fresh /\ Life => DestroyedIsUnregistered
  <2> SUFFICES ASSUME TypeInv, Fresh, Life, crashed = "no", ~Owned, index_ # "kNew",
                      "lateShutdown" \notin anomalies
               PROVE  FALSE
    BY DEF DestroyedIsUnregistered
  <2> DEFINE strong == LoopCalls \ (RawFunctors \cup Handlers)
  <2>1. OnCourse /\ WorkTypes /\ told \in {"up", "down"}
    BY DEF Life, Orderly, TypeInv, StateTypes, HistoryTypes, Fresh
  <2>2. connections_ # "holds" /\ ~HoldsPointer(pendingFunctors_, StrongFunctors)
        /\ ~HoldsPointer(todo, strong)
    BY DEF Owned
  <2>3. Closing \subseteq strong /\ Destroying \subseteq strong
    BY DEF Closing, Destroying, LoopCalls, StrongFunctors, UserCallbacks, RawFunctors, Handlers
  <2>4. ~Has(todo, Closing) /\ ~Has(todo, Destroying)
    BY <2>2, <2>3, Zenon DEF Has, HoldsPointer
  <2>5. ~Has(pendingFunctors_, Destroying)
    <3>1. \A i \in DOMAIN pendingFunctors_ :
             pendingFunctors_[i].call \in StrongFunctors \cup RawFunctors
      BY <2>1, ElementOfSeq DEF WorkTypes, FunctorCalls, WithString, Work
    <3>2. Destroying \cap (StrongFunctors \cup RawFunctors) \subseteq StrongFunctors
      BY DEF Destroying, StrongFunctors, RawFunctors
    <3> QED
      BY <3>1, <3>2, <2>2 DEF Has, HoldsPointer
  <2>6. told = "up"
    BY <2>1, <2>4, <2>5 DEF OnCourse, OneWayOut, WhileDown, Leaving
  <2>7. todo # <<>> /\ Head(todo).call \in Destroying /\ todo \in Seq(AllCalls)
    BY <2>1, <2>2, <2>6 DEF OnCourse, OneWayOut, WhileUp, Destroying, WorkTypes
  <2> QED
    BY <2>4, <2>7, HasHead
<1> QED
  BY <1>1, LifeHolds, PTL

=============================================================================
