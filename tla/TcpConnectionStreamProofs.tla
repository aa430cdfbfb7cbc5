---------------------- MODULE TcpConnectionStreamProofs ----------------------
(***************************************************************************)
(* Theorems about what a connection sends: the stream, the buffer and the  *)
(* end that shutdown() puts behind them.                                   *)
(***************************************************************************)
EXTENDS TcpConnectionProofs

-----------------------------------------------------------------------------
(* The stream of messages *)

\* Division of a place in the stream by the size of a message.
LEMMA DivMod ==
  ASSUME NEW q \in Nat, NEW a \in Nat, q * MessageSize <= a, a < (q + 1) * MessageSize
  PROVE  a \div MessageSize = q /\ a % MessageSize = a - q * MessageSize
<1>1. MessageSize \in Nat /\ MessageSize > 0
  BY TcpConnectionAssumption
<1> QED
  BY <1>1, Z3

\* Taking a message appends its bytes to the stream.
LEMMA StreamAppend ==
  ASSUME NEW s \in Seq(Messages), NEW m \in Messages
  PROVE  Sending!Stream(Append(s, m)) = Sending!Stream(s) \o Sending!Stream(<<m>>)
<1> DEFINE n == Len(s) * MessageSize
<1> DEFINE left == Sending!Stream(Append(s, m))
<1> DEFINE front == Sending!Stream(s)
<1> DEFINE back == Sending!Stream(<<m>>)
<1>1. /\ MessageSize \in Nat /\ MessageSize > 0 /\ Len(s) \in Nat /\ n \in Nat
      /\ (Len(s) + 1) * MessageSize = n + MessageSize /\ 1 * MessageSize = MessageSize
      /\ 0 * MessageSize = 0
  BY TcpConnectionAssumption, Z3
<1>2. /\ Append(s, m) \in Seq(Messages) /\ Len(Append(s, m)) = Len(s) + 1
      /\ \A i \in 1..Len(s) : Append(s, m)[i] = s[i]
      /\ Append(s, m)[Len(s) + 1] = m
      /\ <<m>> \in Seq(Messages) /\ Len(<<m>>) = 1 /\ <<m>>[1] = m
  OBVIOUS
<1>3. /\ left \in Seq(Bytes) /\ Len(left) = n + MessageSize
      /\ \A k \in 1..(n + MessageSize) :
           left[k] = <<Append(s, m)[((k - 1) \div MessageSize) + 1],
                       ((k - 1) % MessageSize) + 1>>
  BY <1>1, <1>2, StreamType
<1>4. /\ front \in Seq(Bytes) /\ Len(front) = n
      /\ \A k \in 1..n : front[k] = <<s[((k - 1) \div MessageSize) + 1],
                                      ((k - 1) % MessageSize) + 1>>
  BY StreamType
<1>5. /\ back \in Seq(Bytes) /\ Len(back) = MessageSize
      /\ \A k \in 1..MessageSize : back[k] = <<<<m>>[((k - 1) \div MessageSize) + 1],
                                               ((k - 1) % MessageSize) + 1>>
  BY <1>1, <1>2, StreamType
<1> HIDE DEF left, front, back, n
<1>6. /\ front \o back \in Seq(Bytes) /\ Len(front \o back) = n + MessageSize
      /\ \A k \in 1..(n + MessageSize) :
           (front \o back)[k] = IF k <= n THEN front[k] ELSE back[k - n]
  BY <1>4, <1>5, ConcatProperties
<1>7. ASSUME NEW k \in 1..(n + MessageSize) PROVE left[k] = (front \o back)[k]
  <2>a. n \in Nat /\ MessageSize \in Nat /\ k \in Nat
    BY <1>1
  <2>1. CASE k <= n
    <3>1. k \in 1..(Len(s) * MessageSize)
      BY <2>1, <1>1 DEF n
    <3>2. ((k - 1) \div MessageSize) + 1 \in 1..Len(s)
      BY <3>1, <1>1, PlaceInStream
    <3>3. left[k] = <<s[((k - 1) \div MessageSize) + 1], ((k - 1) % MessageSize) + 1>>
      BY <3>2, <1>2, <1>3
    <3>4. front[k] = <<s[((k - 1) \div MessageSize) + 1], ((k - 1) % MessageSize) + 1>>
      BY <2>1, <2>a, <1>4
    <3> QED
      BY <3>3, <3>4, <2>1, <1>6
  <2>2. CASE k > n
    <3>1. /\ k - 1 \in Nat /\ Len(s) * MessageSize <= k - 1
          /\ k - 1 < (Len(s) + 1) * MessageSize
      BY <2>2, <1>1 DEF n
    <3>2. (k - 1) \div MessageSize = Len(s) /\ (k - 1) % MessageSize = k - 1 - n
      BY <3>1, <1>1, DivMod DEF n
    <3>3. /\ k - n \in 1..MessageSize /\ (k - n) - 1 \in Nat /\ (k - n) - 1 = k - 1 - n
          /\ 0 * MessageSize <= (k - n) - 1 /\ (k - n) - 1 < (0 + 1) * MessageSize
      BY <2>2, <1>1
    <3>4. ((k - n) - 1) \div MessageSize = 0 /\ ((k - n) - 1) % MessageSize = k - 1 - n
      BY <3>3, <1>1, DivMod
    <3>5. left[k] = <<m, k - 1 - n + 1>>
      BY <3>2, <1>2, <1>3
    <3>6. back[k - n] = <<m, k - 1 - n + 1>>
      <4> DEFINE j == k - n
      <4>1. j \in 1..MessageSize /\ (j - 1) \div MessageSize = 0
            /\ (j - 1) % MessageSize = k - 1 - n
        BY <3>3, <3>4
      <4> HIDE DEF j
      <4>2. back[j] = <<<<m>>[((j - 1) \div MessageSize) + 1], ((j - 1) % MessageSize) + 1>>
        BY <4>1, <1>5
      <4>3. back[j] = <<m, k - 1 - n + 1>>
        BY <4>1, <4>2, <1>2
      <4> QED
        BY <4>3 DEF j
    <3> QED
      BY <3>5, <3>6, <2>2, <2>a, <1>6
  <2>3. k <= n \/ k > n
    BY <2>a
  <2> QED
    BY <2>1, <2>2, <2>3, Zenon
<1>8. left = front \o back
  BY <1>3, <1>6, <1>7, SeqEqual
<1> QED
  BY <1>8 DEF left, front, back

\* A sequence is a prefix of what continues it.
LEMMA PrefixConcat ==
  ASSUME NEW S, NEW s \in Seq(S), NEW t \in Seq(S)
  PROVE  Sending!IsPrefix(s, s \o t)
<1>1. Len(s \o t) = Len(s) + Len(t) /\ s \o t \in Seq(S)
  BY ConcatProperties
<1>2. Len(s) \in Nat /\ Len(t) \in Nat
  OBVIOUS
<1>3. SubSeq(s \o t, 1, Len(s)) = SubSeq(s, 1, Len(s))
  BY <1>2, SubSeqOfConcat1
<1> QED
  BY <1>1, <1>2, <1>3 DEF Sending!IsPrefix

\* Cutting a sequence in two loses nothing.
LEMMA CutInTwo ==
  ASSUME NEW S, NEW s \in Seq(S), NEW n \in 0..Len(s)
  PROVE  /\ SubSeq(s, 1, n) \in Seq(S) /\ SubSeq(s, n + 1, Len(s)) \in Seq(S)
         /\ SubSeq(s, 1, n) \o SubSeq(s, n + 1, Len(s)) = s
         /\ SubSeq(s, n + 1, Len(s)) = <<>> <=> n = Len(s)
<1> DEFINE front == SubSeq(s, 1, n)
<1> DEFINE rest == SubSeq(s, n + 1, Len(s))
<1>1. /\ Len(s) \in Nat /\ n \in Nat /\ n <= Len(s)
      /\ 1 \in 1..(Len(s) + 1) /\ n \in (1 - 1)..Len(s) /\ Len(s) \in n..Len(s)
  OBVIOUS
<1>2. front \in Seq(S) /\ rest \in Seq(S) /\ Len(rest) = Len(s) - n
  BY <1>1, SubSeqProperties
<1>3. front \o rest = SubSeq(s, 1, Len(s))
  BY <1>1, ConcatAdjacentSubSeq
<1>4. SubSeq(s, 1, Len(s)) = s
  BY SubSeqFull
<1> HIDE DEF front, rest
<1>5. rest = <<>> <=> Len(rest) = 0
  BY <1>2, EmptySeq
<1>6. rest = <<>> <=> n = Len(s)
  BY <1>1, <1>2, <1>5
<1> QED
  BY <1>2, <1>3, <1>4, <1>6 DEF front, rest

-----------------------------------------------------------------------------
(* The inductive invariant *)

\* epollout is asked for exactly while something is buffered, until the connection
\* is closed, and the write side is shut behind what is buffered.
Output ==
  /\ told # "down" => (Writing <=> outputBuffer_ # <<>>)
  /\ FlushedBeforeFin

Flow == StreamInOrder /\ Output

\* StreamInOrder without its exemption, which no step starts from.
InStream == wire \o outputBuffer_ = Sending!Stream(taken)

-----------------------------------------------------------------------------
(* What a step does to the stream *)

\* It leaves it alone, closes the connection, shuts the write side, or sends; the
\* remaining steps are those of handleWrite().
Quiet == UNCHANGED <<events_, outputBuffer_, taken, wire, wrShut, told>>
Closes ==
  /\ told # "nothing" /\ told' = "down"
  /\ UNCHANGED <<outputBuffer_, taken, wire, wrShut>>
Shuts ==
  /\ wrShut' = ShutWrite(Writing)
  /\ UNCHANGED <<events_, outputBuffer_, taken, wire, told>>
Sends ==
  \E m \in Messages \cup {NoMessage} : SendInLoop(m) /\ UNCHANGED <<wrShut, told>>

\* Every step of an established connection is one of these.
LEMMA StreamKinds ==
  ASSUME TypeInv, Fresh, Next, told # "nothing"
  PROVE  Quiet \/ Closes \/ Shuts \/ Sends \/ HandleWrite
<1> USE DEF connVars, channelVars, loopVars, threadVars, socketVars, fate, sends, news
<1>1. ~ConnectEstablished
  BY DoesCalls DEF ConnectEstablished, Fresh, TypeInv
<1>2. ASSUME HandleClose, UNCHANGED <<outputBuffer_, taken, wire, wrShut>> PROVE Closes
  BY <1>2 DEF HandleClose, Tell, Closes
<1>3. CASE ConnectDestroyed
  BY <1>3 DEF ConnectDestroyed, Tell, Quiet, Closes
<1>4. CASE RunRawFunctor
  <2>1. UNCHANGED told
    BY <1>4 DEF RunRawFunctor
  <2>2. ASSUME Does({"sendInLoop"}), SendInLoop(text[Head(todo).buf]), UNCHANGED wrShut
        PROVE  Sends
    <3>1. todo \in Seq(AllCalls) /\ todo # <<>> /\ Head(todo).call = "sendInLoop"
      BY <2>2, DoesCalls DEF TypeInv, WorkTypes
    <3>a. Head(todo).buf \in Threads
      BY <3>1 DEF AllCalls, WithString
    <3>2. text[Head(todo).buf] \in Messages \cup {NoMessage}
      BY <3>a DEF TypeInv, WorkTypes
    <3> QED
      BY <2>1, <2>2, <3>2 DEF Sends
  <2> QED
    BY <1>4, <2>1, <2>2 DEF RunRawFunctor, Quiet, Shuts
<1>5. CASE CloseOrErrorCallback
  BY <1>2, <1>5 DEF CloseOrErrorCallback
<1>6. CASE HandleRead
  BY <1>2, <1>6 DEF HandleRead, Quiet
<1>7. CASE Remove \/ RemoveConnection
  BY <1>7 DEF Remove, RemoveConnection, Quiet
<1>8. CASE PollEvents \/ DoPendingFunctors \/ FunctorsDone \/ UserReturns
             \/ HandleEvent \/ HandlerReturn
  BY <1>8 DEF PollEvents, DoPendingFunctors, FunctorsDone, UserReturns, HandleEvent,
              HandlerReturn, Quiet
<1>9. ASSUME NEW m \in Messages, SendSelf(m) PROVE Sends
  BY <1>9 DEF SendSelf, Sends
<1>10. CASE ShutdownSelf
  BY <1>10 DEF ShutdownSelf, Shuts
<1>11. ASSUME NEW t \in Threads, HandOn(t) PROVE Quiet
  BY <1>11 DEF HandOn, Quiet
<1>12. CASE ServerGoes
  BY <1>12 DEF ServerGoes, Quiet
<1>13. ASSUME NEW t \in Threads, ThreadGoesOn(t) \/ ThreadBegins(t) PROVE Quiet
  BY <1>13 DEF ThreadGoesOn, ThreadBegins, ShutdownSets, RunInLoop, Send, TextGoes,
               Shutdown, Drop, Quiet
<1>14. CASE PeerStep /\ (PeerReads \/ PeerCloses \/ PeerResets)
  BY <1>14 DEF PeerStep, PeerReads, PeerCloses, PeerResets, Quiet
<1> QED
  BY <1>1, <1>3, <1>4, <1>5, <1>6, <1>7, <1>8, <1>9, <1>10, <1>11, <1>12, <1>13, <1>14,
     Zenon DEF Next, LoopStep, UserCalls

\* What a message sent becomes: the bytes the socket takes at once, and the buffer.
LEMMA SendData ==
  ASSUME NEW m \in Messages
  PROVE  /\ Sending!Stream(<<m>>) \in Seq(Bytes)
         /\ Len(Sending!Stream(<<m>>)) = MessageSize
         /\ MessageSize \in Nat \ {0} /\ Sending!Stream(<<m>>) # <<>>
<1>1. <<m>> \in Seq(Messages) /\ Len(<<m>>) = 1
  OBVIOUS
<1>2. Len(<<m>>) * MessageSize = MessageSize /\ MessageSize \in Nat \ {0}
  BY <1>1, TcpConnectionAssumption
<1> QED
  BY <1>1, <1>2, StreamType

\* What is not written goes behind what is buffered, and epollout is asked for, unless
\* it is written behind the vector of the buffer, which then holds something.
LEMMA BuffersData ==
  ASSUME TypeInv, NEW data \in Seq(Bytes), data # <<>>, Buffers(data)
  PROVE  \/ outputBuffer_' = outputBuffer_ \o data /\ outputBuffer_' # <<>> /\ Writing'
         \/ /\ crashed' = "overrun" /\ outputBuffer_ # <<>>
            /\ UNCHANGED <<outputBuffer_, events_>>
<1>1. outputBuffer_ \in Seq(Bytes)
  BY DEF TypeInv, StateTypes, ConnTypes
<1>2. CASE crashed' = "overrun" /\ outputBuffer_ # <<>> /\ UNCHANGED <<outputBuffer_, channelVars>>
  BY <1>2 DEF channelVars
<1>3. CASE /\ outputBuffer_' = outputBuffer_ \o data
           /\ IF Writing THEN UNCHANGED channelVars ELSE SetEvents(events_ \cup {"out"})
  <2>1. outputBuffer_' # <<>>
    BY <1>1, <1>3, ConcatProperties, EmptySeq
  <2>2. Writing'
    BY <1>3 DEF SetEvents, Writing, channelVars
  <2> QED
    BY <2>1, <2>2, <1>3
<1> QED
  BY <1>2, <1>3 DEF Buffers

\* What sendInLoop() does to the bytes of a message: nothing, when it gives up or finds
\* no string; else it is the only one to write, or leaves all of it to the buffer, where
\* it may be written behind the vector.
LEMMA SendBytes ==
  ASSUME TypeInv, NEW m \in Messages, SendInLoop(m)
  PROVE  \/ UNCHANGED <<events_, outputBuffer_, taken, wire>>
         \/ /\ taken' = Append(taken, m)
            /\ wire' \o outputBuffer_' = (wire \o outputBuffer_) \o Sending!Stream(<<m>>)
            /\ \E out \in Seq(Bytes) : wire' = wire \o out
            /\ Writing' <=> outputBuffer_' # <<>>
            /\ (WritesAtOnce /\ ~wrShut) \/ (~WritesAtOnce /\ UNCHANGED wire)
         \/ /\ taken' = Append(taken, m) /\ crashed' = "overrun" /\ outputBuffer_ # <<>>
            /\ UNCHANGED <<events_, outputBuffer_, wire>>
<1> DEFINE data == Sending!Stream(<<m>>)
<1>1. data \in Seq(Bytes) /\ Len(data) = MessageSize /\ MessageSize \in Nat \ {0} /\ data # <<>>
  BY SendData
<1>2. outputBuffer_ \in Seq(Bytes) /\ wire \in Seq(Bytes) /\ <<>> \in Seq(Bytes)
  BY EmptySeq DEF TypeInv, StateTypes, ConnTypes, SocketTypes
<1>3. \/ UNCHANGED <<events_, outputBuffer_, taken, wire>>
      \/ /\ taken' = Append(taken, m) /\ WritesAtOnce /\ ~WriteFails
         /\ \E n \in Writable(MessageSize) :
              /\ Write(data, n)
              /\ \/ n = MessageSize /\ UNCHANGED <<events_, outputBuffer_>>
                 \/ n # MessageSize /\ Buffers(SubSeq(data, n + 1, MessageSize))
      \/ /\ taken' = Append(taken, m) /\ ~WritesAtOnce /\ UNCHANGED wire
         /\ Buffers(data)
  BY Zenon DEF SendInLoop, GivesUp, channelVars
<1> HIDE DEF data
<1>4. ASSUME WritesAtOnce, NEW n \in Writable(MessageSize), Write(data, n),
             \/ n = MessageSize /\ UNCHANGED <<events_, outputBuffer_>>
             \/ n # MessageSize /\ Buffers(SubSeq(data, n + 1, MessageSize))
      PROVE  /\ wire' \o outputBuffer_' = (wire \o outputBuffer_) \o data
             /\ \E out \in Seq(Bytes) : wire' = wire \o out
             /\ Writing' <=> outputBuffer_' # <<>>
  <2> DEFINE front == SubSeq(data, 1, n)
  <2> DEFINE rest == SubSeq(data, n + 1, MessageSize)
  <2>1. n \in 0..Len(data)
    BY <1>1, <1>4 DEF Writable
  <2>a. front \in Seq(Bytes) /\ rest \in Seq(Bytes)
    BY <2>1, <1>1, CutInTwo
  <2>2. front \o rest = data /\ (rest = <<>> <=> n = MessageSize)
    BY <2>1, <1>1, CutInTwo
  <2>3. wire' = wire \o front /\ outputBuffer_ = <<>> /\ ~Writing
    BY <1>4 DEF Write, WritesAtOnce
  <2> HIDE DEF front, rest
  <2>4. outputBuffer_' = rest /\ (Writing' <=> rest # <<>>)
    <3>1. CASE n = MessageSize /\ UNCHANGED <<events_, outputBuffer_>>
      BY <3>1, <2>a, <2>2, <2>3 DEF Writing
    <3>2. CASE n # MessageSize /\ Buffers(rest)
      <4>1. outputBuffer_' = outputBuffer_ \o rest /\ Writing'
        BY <3>2, <2>a, <2>2, <2>3, BuffersData
      <4>2. <<>> \o rest = rest
        BY <2>a, <2>2, ConcatEmptySeq
      <4> QED
        BY <4>1, <4>2, <3>2, <2>a, <2>2, <2>3
    <3> QED
      BY <3>1, <3>2, <1>4 DEF rest
  <2>5. (wire \o front) \o rest = wire \o (front \o rest)
    BY <2>a, <1>2, ConcatAssociative
  <2>6. wire \o <<>> = wire
    BY <1>2, ConcatEmptySeq
  <2> QED
    BY <2>a, <2>2, <2>3, <2>4, <2>5, <2>6
<1>5. ASSUME UNCHANGED wire, outputBuffer_' = outputBuffer_ \o data, outputBuffer_' # <<>>,
             Writing'
      PROVE  /\ wire' \o outputBuffer_' = (wire \o outputBuffer_) \o data
             /\ \E out \in Seq(Bytes) : wire' = wire \o out
             /\ Writing' <=> outputBuffer_' # <<>>
  <2>2. wire \o (outputBuffer_ \o data) = (wire \o outputBuffer_) \o data
    BY <1>1, <1>2, ConcatAssociative
  <2>3. wire = wire \o <<>>
    BY <1>2, ConcatEmptySeq
  <2> QED
    BY <1>2, <1>5, <2>2, <2>3
<1>6. WriteFails \/ ~wrShut
  BY DEF WriteFails
<1>7. CASE /\ taken' = Append(taken, m) /\ WritesAtOnce /\ ~WriteFails
           /\ \E n \in Writable(MessageSize) :
                /\ Write(data, n)
                /\ \/ n = MessageSize /\ UNCHANGED <<events_, outputBuffer_>>
                   \/ n # MessageSize /\ Buffers(SubSeq(data, n + 1, MessageSize))
  BY <1>4, <1>6, <1>7 DEF data
<1>8. CASE taken' = Append(taken, m) /\ ~WritesAtOnce /\ UNCHANGED wire /\ Buffers(data)
  <2>1. \/ outputBuffer_' = outputBuffer_ \o data /\ outputBuffer_' # <<>> /\ Writing'
        \/ /\ crashed' = "overrun" /\ outputBuffer_ # <<>>
           /\ UNCHANGED <<outputBuffer_, events_>>
    BY <1>1, <1>8, BuffersData
  <2> QED
    BY <2>1, <1>5, <1>8 DEF data
<1> QED
  BY <1>3, <1>7, <1>8

\* What handleWrite() does: nothing, or it moves bytes from the buffer to the socket and
\* stops watching, and may shut the write side, only when none is left.
LEMMA WriteBytes ==
  ASSUME TypeInv, HandleWrite
  PROVE  /\ UNCHANGED <<taken, told>>
         /\ \/ UNCHANGED <<events_, outputBuffer_, wire, wrShut>>
            \/ /\ Writing /\ ~wrShut
               /\ wire' \o outputBuffer_' = wire \o outputBuffer_
               /\ \E out \in Seq(Bytes) : wire' = wire \o out
               /\ Writing' <=> outputBuffer_' # <<>>
               /\ wrShut' => outputBuffer_' = <<>>
<1>1. outputBuffer_ \in Seq(Bytes) /\ wire \in Seq(Bytes)
  BY DEF TypeInv, StateTypes, ConnTypes, SocketTypes
<1>2. UNCHANGED <<taken, told>>
  BY DEF HandleWrite, sends, news
<1>3. ASSUME Writing, ~WriteFails, NEW n \in Writable(Len(outputBuffer_)),
             Write(outputBuffer_, n),
             outputBuffer_' = SubSeq(outputBuffer_, n + 1, Len(outputBuffer_)),
             IF n = Len(outputBuffer_)
             THEN Drained ELSE UNCHANGED <<channelVars, pendingFunctors_, wrShut>>
      PROVE  /\ ~wrShut /\ wire' \o outputBuffer_' = wire \o outputBuffer_
             /\ \E out \in Seq(Bytes) : wire' = wire \o out
             /\ Writing' <=> outputBuffer_' # <<>>
             /\ wrShut' => outputBuffer_' = <<>>
  <2> DEFINE front == SubSeq(outputBuffer_, 1, n)
  <2> DEFINE rest == SubSeq(outputBuffer_, n + 1, Len(outputBuffer_))
  <2>1. n \in 0..Len(outputBuffer_)
    <3>1. Len(outputBuffer_) \in Nat
      BY <1>1
    <3> QED
      BY <3>1, <1>3 DEF Writable
  <2>a. front \in Seq(Bytes) /\ rest \in Seq(Bytes)
    BY <2>1, <1>1, CutInTwo
  <2>2. front \o rest = outputBuffer_ /\ (rest = <<>> <=> n = Len(outputBuffer_))
    BY <2>1, <1>1, CutInTwo
  <2>3. wire' = wire \o front /\ outputBuffer_' = rest
    BY <1>3 DEF Write
  <2>4. ~wrShut
    BY <1>3 DEF WriteFails
  <2> HIDE DEF front, rest
  <2>5. (wire \o front) \o rest = wire \o (front \o rest)
    BY <2>a, <1>1, ConcatAssociative
  <2>6. CASE n = Len(outputBuffer_)
    <3>1. ~Writing'
      BY <2>6, <1>3 DEF Drained, SetEvents, Writing
    <3> QED
      BY <3>1, <2>a, <2>2, <2>3, <2>4, <2>5, <2>6
  <2>7. CASE n # Len(outputBuffer_)
    <3>1. Writing' /\ ~wrShut'
      BY <2>4, <2>7, <1>3 DEF channelVars, Writing
    <3> QED
      BY <3>1, <2>a, <2>2, <2>3, <2>4, <2>5, <2>7
  <2> QED
    BY <2>6, <2>7
<1>4. \/ UNCHANGED <<events_, outputBuffer_, wire, wrShut>>
      \/ /\ Writing /\ ~WriteFails
         /\ \E n \in Writable(Len(outputBuffer_)) :
              /\ Write(outputBuffer_, n)
              /\ outputBuffer_' = SubSeq(outputBuffer_, n + 1, Len(outputBuffer_))
              /\ IF n = Len(outputBuffer_)
                 THEN Drained ELSE UNCHANGED <<channelVars, pendingFunctors_, wrShut>>
  BY Zenon DEF HandleWrite, channelVars
<1> QED
  BY <1>2, <1>3, <1>4

-----------------------------------------------------------------------------
(* The steps of the contract *)

\* Bytes that follow those on the wire are the next of the stream, when others complete it.
LEMMA WireAdvances ==
  ASSUME TypeInv, TypeInv', NEW out \in Seq(Bytes), wire' = wire \o out,
         NEW rest \in Seq(Bytes), wire' \o rest = Sending!Stream(taken')
  PROVE  Sending!Advances
<1>1. wire \in Seq(Bytes) /\ wire' \in Seq(Bytes)
  BY DEF TypeInv, StateTypes, SocketTypes
<1>2. Sending!IsPrefix(wire, wire')
  BY <1>1, PrefixConcat
<1>3. Sending!IsPrefix(wire', wire' \o rest)
  BY <1>1, PrefixConcat
<1> QED
  BY <1>2, <1>3 DEF Sending!Advances

\* When nothing is buffered, all of the stream is on the wire.
LEMMA NothingLeft ==
  ASSUME TypeInv, InStream, outputBuffer_ = <<>>
  PROVE  wire = Sending!Stream(taken)
<1>1. wire \in Seq(Bytes)
  BY DEF TypeInv, StateTypes, SocketTypes
<1>2. wire \o <<>> = wire
  BY <1>1, ConcatEmptySeq
<1> QED
  BY <1>2 DEF InStream

\* The same after a step.
LEMMA NothingLeftNext ==
  ASSUME TypeInv', InStream', outputBuffer_' = <<>>
  PROVE  wire' = Sending!Stream(taken')
<1>1. wire' \in Seq(Bytes)
  BY DEF TypeInv, StateTypes, SocketTypes
<1>2. wire' \o <<>> = wire'
  BY <1>1, ConcatEmptySeq
<1> QED
  BY <1>2 DEF InStream

\* sendInLoop() takes a message, or gives it up.
LEMMA SendsStep ==
  ASSUME TypeInv, TypeInv', InStream, Output, told # "nothing", Sends
  PROVE  Flow' /\ [Sending!Next]_(Sending!vars)
<1>1. PICK m \in Messages \cup {NoMessage} : SendInLoop(m) /\ UNCHANGED <<wrShut, told>>
  BY DEF Sends
<1>2. CASE UNCHANGED <<events_, outputBuffer_, taken, wire>>
  BY <1>1, <1>2 DEF Flow, InStream, StreamInOrder, Output, FlushedBeforeFin, Writing,
                    Sending!vars
<1>a. told \in {"up", "down"} /\ taken \in Seq(Messages) /\ wire \in Seq(Bytes)
      /\ outputBuffer_ \in Seq(Bytes) /\ outputBuffer_' \in Seq(Bytes)
  BY DEF TypeInv, StateTypes, HistoryTypes, ConnTypes, SocketTypes
<1>b. wrShut /\ told = "up" => outputBuffer_ = <<>> /\ ~Writing
  BY DEF Output, FlushedBeforeFin
<1>3. CASE /\ m \in Messages
           /\ taken' = Append(taken, m)
           /\ wire' \o outputBuffer_' = (wire \o outputBuffer_) \o Sending!Stream(<<m>>)
           /\ \E out \in Seq(Bytes) : wire' = wire \o out
           /\ Writing' <=> outputBuffer_' # <<>>
           /\ (WritesAtOnce /\ ~wrShut) \/ (~WritesAtOnce /\ UNCHANGED wire)
  <2>1. InStream'
    BY <1>3, <1>a, StreamAppend DEF InStream
  <2>2. wrShut => told = "down" /\ UNCHANGED wire
    BY <1>3, <1>a, <1>b DEF WritesAtOnce
  <2>3. Output'
    BY <1>1, <1>3, <2>2 DEF Output, FlushedBeforeFin
  <2>4. Sending!Advances
    BY <1>3, <1>a, <2>1, WireAdvances DEF InStream
  <2>5. Sending!Take(m)
    BY <1>1, <1>3, <2>2, <2>4 DEF Sending!Take
  <2> QED
    BY <1>3, <2>1, <2>3, <2>5 DEF Flow, InStream, StreamInOrder, Sending!Next
<1>4. CASE /\ m \in Messages
           /\ taken' = Append(taken, m) /\ crashed' = "overrun" /\ outputBuffer_ # <<>>
           /\ UNCHANGED <<events_, outputBuffer_, wire>>
  <2> DEFINE data == Sending!Stream(<<m>>)
  <2> DEFINE rest == outputBuffer_ \o data
  <2>1. data \in Seq(Bytes)
    BY <1>4, SendData
  <2> HIDE DEF data
  <2>2. /\ rest \in Seq(Bytes)
        /\ wire \o rest = (wire \o outputBuffer_) \o data
    <3>1. rest \in Seq(Bytes)
      BY <2>1, <1>a, ConcatProperties
    <3>2. wire \o (outputBuffer_ \o data) = (wire \o outputBuffer_) \o data
      BY <2>1, <1>a, ConcatAssociative
    <3> QED
      BY <3>1, <3>2
  <2>3. Sending!Stream(taken') = (wire \o outputBuffer_) \o data
    BY <1>4, <1>a, StreamAppend DEF InStream, data
  <2>4. wire' = wire \o <<>> /\ <<>> \in Seq(Bytes)
    BY <1>4, <1>a, ConcatEmptySeq
  <2> HIDE DEF rest
  <2>5. Sending!Advances
    BY <2>2, <2>3, <2>4, <1>4, WireAdvances
  <2>6. Sending!Take(m)
    BY <1>1, <1>4, <1>a, <1>b, <2>5 DEF Sending!Take
  <2>7. Output'
    BY <1>1, <1>4 DEF Output, FlushedBeforeFin, Writing
  <2> QED
    BY <1>4, <2>6, <2>7 DEF Flow, StreamInOrder, Sending!Next
<1>5. CASE m = NoMessage
  <2>1. UNCHANGED <<events_, outputBuffer_, taken, wire>>
    BY <1>1, <1>5, Zenon DEF SendInLoop, channelVars
  <2> QED
    BY <2>1, <1>2
<1> QED
  BY <1>1, <1>2, <1>3, <1>4, <1>5, SendBytes

\* handleWrite() lets some of the stream go out, and the end only after all of it.
LEMMA HandleWriteStep ==
  ASSUME TypeInv, TypeInv', InStream, Output, HandleWrite
  PROVE  Flow' /\ [Sending!Next]_(Sending!vars)
<1>1. UNCHANGED <<taken, told>>
  BY WriteBytes
<1>2. CASE UNCHANGED <<events_, outputBuffer_, wire, wrShut>>
  BY <1>1, <1>2 DEF Flow, InStream, StreamInOrder, Output, FlushedBeforeFin, Writing,
                    Sending!vars
<1>3. CASE /\ Writing /\ ~wrShut
           /\ wire' \o outputBuffer_' = wire \o outputBuffer_
           /\ \E out \in Seq(Bytes) : wire' = wire \o out
           /\ Writing' <=> outputBuffer_' # <<>>
           /\ wrShut' => outputBuffer_' = <<>>
  <2>1. InStream'
    BY <1>1, <1>3 DEF InStream
  <2>2. Output'
    BY <1>3 DEF Output, FlushedBeforeFin
  <2>3. Sending!Advances
    <3>1. outputBuffer_' \in Seq(Bytes)
      BY DEF TypeInv, StateTypes, ConnTypes
    <3> QED
      BY <3>1, <1>3, <2>1, WireAdvances DEF InStream
  <2>4. wrShut' => Sending!AllGone
    BY <1>3, <2>1, NothingLeftNext DEF Sending!AllGone
  <2>5. wrShut' \in BOOLEAN
    BY DEF TypeInv, StateTypes, SocketTypes
  <2>6. Sending!Write
    BY <1>1, <1>3, <2>3, <2>4, <2>5 DEF Sending!Write
  <2> QED
    BY <2>1, <2>2, <2>6 DEF Flow, InStream, StreamInOrder, Sending!Next
<1> QED
  BY <1>1, <1>2, <1>3, WriteBytes

\* shutdown() sends the end behind all of the stream, or leaves that to handleWrite().
LEMMA ShutsStep ==
  ASSUME TypeInv, TypeInv', InStream, Output, Shuts
  PROVE  Flow' /\ [Sending!Next]_(Sending!vars)
<1>1. UNCHANGED <<events_, outputBuffer_, taken, wire, told>> /\ wrShut' = ShutWrite(Writing)
  BY DEF Shuts
<1>2. InStream'
  BY <1>1 DEF InStream
<1>3. wrShut' => wrShut \/ ~Writing
  BY <1>1 DEF ShutWrite
<1>4. told # "down" /\ ~Writing => outputBuffer_ = <<>>
  BY DEF Output
<1>5. Output'
  BY <1>1, <1>3, <1>4 DEF Output, FlushedBeforeFin, Writing
<1>a. Flow'
  BY <1>2, <1>5 DEF Flow, InStream, StreamInOrder
<1>6. wrShut \in BOOLEAN /\ wrShut' \in BOOLEAN /\ wire \in Seq(Bytes)
  BY DEF TypeInv, StateTypes, SocketTypes
<1>7. CASE wrShut
  <2>1. wrShut' = wrShut
    BY <1>1, <1>6, <1>7, Zenon DEF ShutWrite
  <2> QED
    BY <1>1, <1>a, <2>1 DEF Sending!vars
<1>8. CASE ~wrShut
  <2>1. Sending!Advances
    <3>1. <<>> \in Seq(Bytes) /\ wire' = wire \o <<>>
      BY <1>1, <1>6, EmptySeq, ConcatEmptySeq
    <3>2. outputBuffer_' \in Seq(Bytes)
      BY DEF TypeInv, StateTypes, ConnTypes
    <3> QED
      BY <3>1, <3>2, <1>2, WireAdvances DEF InStream
  <2>2. wrShut' => Sending!AllGone \/ told = "down"
    <3>1. ASSUME wrShut', told # "down" PROVE wire = Sending!Stream(taken)
      BY <3>1, <1>3, <1>4, <1>8, NothingLeft
    <3> QED
      BY <3>1, <1>1 DEF Sending!AllGone
  <2>3. Sending!Write
    BY <1>1, <1>6, <1>8, <2>1, <2>2 DEF Sending!Write
  <2> QED
    BY <1>a, <2>3 DEF Sending!Next
<1> QED
  BY <1>7, <1>8

\* Every step keeps the invariant, and is a step of the contract or none.
LEMMA FlowStep ==
  ASSUME TypeInv, TypeInv', Fresh, Flow, [Next]_vars
  PROVE  Flow' /\ [Sending!Next]_(Sending!vars)
<1>a. ASSUME Next PROVE crashed = "no" /\ InStream /\ Output
  <2>1. crashed = "no"
    BY <1>a DEF Next, LoopStep, ThreadGoesOn, Running
  <2> QED
    BY <2>1 DEF Flow, StreamInOrder, InStream
<1>1. CASE Quiet /\ Next
  BY <1>1, <1>a DEF Quiet, Flow, InStream, StreamInOrder, Output, FlushedBeforeFin, Writing,
                    Sending!vars
<1>2. CASE UNCHANGED vars
  BY <1>2 DEF vars, connVars, channelVars, socketVars, fate, sends, news, Flow,
              StreamInOrder, Output, FlushedBeforeFin, Writing, Sending!vars
<1>3. CASE Next /\ told = "nothing"
  <2>1. CASE ConnectEstablished
    <3>1. /\ outputBuffer_ = <<>> /\ ~wrShut /\ events_ = {}
      BY <1>3 DEF Fresh
    <3>2. /\ events_' = events_ \cup {"in"} /\ told' = "up"
          /\ UNCHANGED <<outputBuffer_, taken, wire, wrShut>>
      BY <2>1 DEF ConnectEstablished, SetEvents, Tell, socketVars, sends
    <3>3. Flow'
      BY <3>1, <3>2, <1>3, <1>a DEF Flow, InStream, StreamInOrder, Output, FlushedBeforeFin, Writing
    <3>4. Sending!Tell
      BY <1>3, <3>2 DEF Sending!Tell
    <3> QED
      BY <3>3, <3>4 DEF Sending!Next
  <2>2. CASE PeerStep /\ (PeerReads \/ PeerCloses \/ PeerResets)
    BY <2>2, <1>1, <1>3 DEF PeerStep, PeerReads, PeerCloses, PeerResets, connVars, channelVars,
                      sends, news, Quiet
  <2> QED
    BY <1>3, <2>1, <2>2, FirstStep
<1>4. CASE Next /\ told # "nothing"
  <2>1. CASE Closes
    <3>1. Flow'
      BY <2>1, <1>4, <1>a DEF Closes, Flow, InStream, StreamInOrder, Output, FlushedBeforeFin
    <3>2. Sending!Tell
      BY <2>1 DEF Closes, Sending!Tell
    <3> QED
      BY <3>1, <3>2 DEF Sending!Next
  <2> QED
    BY <1>1, <1>4, <1>a, <2>1, StreamKinds, SendsStep, HandleWriteStep, ShutsStep
<1> QED
  BY <1>2, <1>3, <1>4

-----------------------------------------------------------------------------
(* The theorems about what a connection sends *)

\* The invariant, from the start.
LEMMA FlowHolds == SafeSpec => [](TypeInv /\ Fresh /\ Flow)
<1>1. Init => Flow
  <2> SUFFICES ASSUME Init PROVE Flow
    OBVIOUS
  <2>1. Sending!Stream(taken) \in Seq(Bytes) /\ Len(Sending!Stream(taken)) = 0
    <3>1. taken \in Seq(Messages) /\ Len(taken) = 0
      BY DEF Init
    <3>2. Len(taken) * MessageSize = 0
      BY <3>1, TcpConnectionAssumption
    <3> QED
      BY <3>1, <3>2, StreamType
  <2>2. Sending!Stream(taken) = <<>>
    BY <2>1, EmptySeq
  <2>3. <<>> \o <<>> = <<>>
    OBVIOUS
  <2> QED
    BY <2>2, <2>3 DEF Init, Flow, StreamInOrder, Output, FlushedBeforeFin, Writing
<1>2. TypeInv /\ TypeInv' /\ Fresh /\ Flow /\ [Next]_vars => Flow'
  BY FlowStep
<1> QED
  BY <1>1, <1>2, LifeHolds, PTL DEF SafeSpec

\* Up to a write behind the vector of outputBuffer_, no byte of what sendInLoop() took is
\* lost, doubled or overtaken between the direct write, the buffer and handleWrite(), for
\* messages of any size and any high water mark.
THEOREM TcpConnectionStream == SafeSpec => []StreamInOrder
<1>1. TypeInv /\ Fresh /\ Flow => StreamInOrder
  BY DEF Flow
<1> QED
  BY <1>1, FlowHolds, PTL

\* While the user knows the connection as up, epollout is asked for exactly while bytes
\* are buffered.
THEOREM TcpConnectionWatches == SafeSpec => []WritingIffBuffered
<1>1. TypeInv /\ Fresh /\ Flow => WritingIffBuffered
  BY DEF Flow, Output, WritingIffBuffered
<1> QED
  BY <1>1, FlowHolds, PTL

\* Whichever thread calls shutdown(), the write side of an open connection is shut behind
\* the last byte taken.
THEOREM TcpConnectionFlushes == SafeSpec => []FlushedBeforeFin
<1>1. TypeInv /\ Fresh /\ Flow => FlushedBeforeFin
  BY DEF Flow, Output
<1> QED
  BY <1>1, FlowHolds, PTL

\* Up to a write behind the vector of outputBuffer_, where the program stops, the connection
\* implements the byte stream of what sendInLoop() finds in the strings of the senders:
\* each step takes a message, lets more of the stream out, ends it, tells the user, or does
\* nothing that a sender could notice.
THEOREM TcpConnectionImplementsStream == SafeSpec => ImplementsStream
<1>1. Init => Sending!Init
  BY DEF Init, Sending!Init
<1>2. TypeInv /\ TypeInv' /\ Fresh /\ Flow /\ [Next]_vars => [Sending!Next]_(Sending!vars)
  BY FlowStep
<1> QED
  BY <1>1, <1>2, FlowHolds, PTL DEF SafeSpec, ImplementsStream, Sending!Spec

=============================================================================
