--------------------------- MODULE TcpServerProofs ---------------------------
(***************************************************************************)
(* Theorems about TcpServer, for any number of peers and of descriptors.   *)
(***************************************************************************)
EXTENDS TcpServer, SequenceLemmas

AllCalls == [call : Calls, of : Channels]
FunctorCalls == [call : Functors, of : Channels]

-----------------------------------------------------------------------------
(* Facts about the operators *)

\* The calls of todo after the head has left other calls instead: those, and the rest
\* of todo, with the last where it was.
LEMMA LeavesWhat ==
  ASSUME todo \in Seq(AllCalls), todo # <<>>, NEW calls \in Seq(AllCalls), Leaves(calls)
  PROVE  /\ todo' \in Seq(AllCalls)
         /\ Len(todo') = Len(calls) + Len(todo) - 1
         /\ \A i \in 1..Len(todo') :
              \/ i <= Len(calls) /\ todo'[i] = calls[i]
              \/ /\ i > Len(calls)
                 /\ i - Len(calls) + 1 \in 2..Len(todo)
                 /\ todo'[i] = todo[i - Len(calls) + 1]
         /\ \A j \in 2..Len(todo) : /\ j + Len(calls) - 1 \in 1..Len(todo')
                                    /\ todo'[j + Len(calls) - 1] = todo[j]
         /\ \A i \in 1..Len(calls) : todo'[i] = calls[i]
<1>1. todo' = calls \o Tail(todo)
  BY DEF Leaves
<1>2. Len(todo) \in Nat \ {0} /\ Len(calls) \in Nat
  OBVIOUS
<1>3. /\ todo' \in Seq(AllCalls)
      /\ Len(todo') = Len(calls) + Len(todo) - 1
      /\ \A i \in 1..Len(todo') :
           todo'[i] = IF i <= Len(calls) THEN calls[i] ELSE todo[i - Len(calls) + 1]
  BY <1>1, LeftCalls
<1>4. ASSUME NEW i \in 1..Len(todo'), i > Len(calls)
      PROVE  /\ i - Len(calls) + 1 \in 2..Len(todo)
             /\ todo'[i] = todo[i - Len(calls) + 1]
  BY <1>2, <1>3, <1>4
<1>5. ASSUME NEW j \in 2..Len(todo)
      PROVE  /\ j + Len(calls) - 1 \in 1..Len(todo')
             /\ todo'[j + Len(calls) - 1] = todo[j]
  <2>1. j + Len(calls) - 1 \in 1..Len(todo') /\ ~(j + Len(calls) - 1 <= Len(calls))
    BY <1>2, <1>3
  <2>2. (j + Len(calls) - 1) - Len(calls) + 1 = j
    BY <1>2
  <2> QED
    BY <2>1, <2>2, <1>3
<1>6. \A i \in 1..Len(calls) : i \in 1..Len(todo')
  BY <1>2, <1>3
<1> QED
  BY <1>2, <1>3, <1>4, <1>5, <1>6

\* No call takes the place of the head.
LEMMA LeavesNone ==
  ASSUME todo \in Seq(AllCalls), todo # <<>>, Leaves(<<>>)
  PROVE  /\ Len(todo') = Len(todo) - 1
         /\ \A j \in 2..Len(todo) : todo'[j - 1] = todo[j]
  BY LeftNone DEF Leaves

\* One call takes the place of the head.
LEMMA LeavesOne ==
  ASSUME todo \in Seq(AllCalls), todo # <<>>, NEW c \in AllCalls, Leaves(<<c>>)
  PROVE  /\ Len(todo') = Len(todo) /\ todo'[1] = c
         /\ \A j \in 2..Len(todo) : todo'[j] = todo[j]
  BY LeftOne DEF Leaves

\* Two calls take the place of the head.
LEMMA LeavesTwo ==
  ASSUME todo \in Seq(AllCalls), todo # <<>>, NEW c \in AllCalls, NEW d \in AllCalls,
         Leaves(<<c, d>>)
  PROVE  /\ Len(todo') = Len(todo) + 1 /\ todo'[1] = c /\ todo'[2] = d
         /\ \A j \in 2..Len(todo) : todo'[j + 1] = todo[j]
  BY LeftTwo DEF Leaves

-----------------------------------------------------------------------------
(* Type correctness *)

\* The calls handlers and functors leave are calls.
LEMMA CallTypes ==
  /\ \A p \in Peers : /\ Call("connectionCallback_", p) \in AllCalls
                      /\ Call("messageCallback_", p) \in AllCalls
                      /\ Call("removeConnection", p) \in AllCalls
                      /\ Call("remove", p) \in AllCalls
                      /\ Call("connectDestroyed", p) \in FunctorCalls
  /\ Call("TcpServerDestructor", acceptChannel_) \in AllCalls
  /\ Call("listen", acceptChannel_) \in FunctorCalls
  /\ FunctorCalls \subseteq AllCalls
  /\ Seq(FunctorCalls) \subseteq Seq(AllCalls)
<1>1. FunctorCalls \subseteq AllCalls
  BY DEF FunctorCalls, AllCalls, Calls
<1>2. ASSUME NEW s \in Seq(FunctorCalls) PROVE s \in Seq(AllCalls)
  BY <1>1
<1> QED
  BY <1>1, <1>2 DEF Call, AllCalls, FunctorCalls, Calls, UserCallbacks, Functors, Channels

\* The variables keep their types, todo and the queue of the loop among them.
THEOREM TcpServerTypeCorrect == Spec => []TypeOK
<1>1. Init => TypeOK
  <2> SUFFICES ASSUME Init PROVE TypeOK
    OBVIOUS
  <2>1. started_ \in 0..MaxStarted /\ nextConnId_ \in Nat
    BY TcpServerAssumption DEF Init
  <2>2. /\ state_ \in [Peers -> {"none", "kConnected", "kDisconnecting", "kDisconnected"}]
        /\ name_ \in [Peers -> Nat]
    BY DEF Init
  <2>3. /\ todo \in Seq([call : Calls, of : Channels])
        /\ pendingFunctors_ \in Seq([call : Functors, of : Channels])
    BY DEF Init
  <2> QED
    BY <2>1, <2>2, <2>3, Zenon DEF Init, TypeOK
<1>2. TypeOK /\ [Next]_vars => TypeOK'
  <2> SUFFICES ASSUME TypeOK, [Next]_vars PROVE TypeOK'
    OBVIOUS
  <2> USE DEF TypeOK, objects, serverVars, mapVars, connVars, peerVars, round, loopVars,
              others, fate
  <2>a. todo \in Seq(AllCalls) /\ pendingFunctors_ \in Seq(FunctorCalls)
    BY DEF AllCalls, FunctorCalls
  <2>b. ASSUME NEW calls \in Seq(AllCalls), todo # <<>>, Leaves(calls)
        PROVE  todo' \in Seq([call : Calls, of : Channels])
    BY <2>a, <2>b, LeavesWhat, Zenon DEF AllCalls
  <2>c. <<>> \in Seq(AllCalls)
    OBVIOUS
  <2>1. CASE Loop
    BY <2>1 DEF Loop
  <2>2. CASE Poll
    BY <2>2 DEF Poll, Channels
  <2>3. CASE AcceptorHandleRead
    <3>1. ASSUME NEW p \in Peers, NewConnection(p)
          PROVE  /\ name_' \in [Peers -> Nat] /\ nextConnId_' \in Nat
                 /\ connections_' \subseteq Peers
                 /\ state_' \in [Peers -> {"none", "kConnected", "kDisconnecting",
                                           "kDisconnected"}]
                 /\ reading' \subseteq Peers /\ added' \subseteq Peers
                 /\ todo' \in Seq([call : Calls, of : Channels])
      <4>1. todo' \in Seq([call : Calls, of : Channels])
        BY <3>1, CallTypes DEF NewConnection, ConnectEstablished, AllCalls
      <4> QED
        BY <3>1, <4>1 DEF NewConnection, ConnectEstablished, Erased
    <3>2. /\ waiting' \subseteq Peers /\ closed' \subseteq Peers
          /\ connections_' \subseteq Peers
          /\ name_' \in [Peers -> Nat] /\ nextConnId_' \in Nat
          /\ state_' \in [Peers -> {"none", "kConnected", "kDisconnecting", "kDisconnected"}]
          /\ reading' \subseteq Peers /\ added' \subseteq Peers
          /\ todo' \in Seq([call : Calls, of : Channels])
      BY <2>3, <3>1 DEF AcceptorHandleRead, Accept
    <3> QED
      BY <2>3, <3>2 DEF AcceptorHandleRead, Accept, Dispatches, Channels
  <2>4. CASE DoPendingFunctors
    <3>1. todo' \in Seq([call : Calls, of : Channels])
      BY <2>4, <2>a, CallTypes DEF DoPendingFunctors, AllCalls
    <3>2. held' \subseteq Channels
      <4>1. ASSUME NEW i \in DOMAIN pendingFunctors_
            PROVE  pendingFunctors_[i].of \in Channels
        <5>1. pendingFunctors_[i] \in FunctorCalls
          BY <2>a
        <5> QED
          BY <5>1 DEF FunctorCalls
      <4> QED
        BY <2>4, <4>1, Zenon DEF DoPendingFunctors
    <3> QED
      BY <2>4, <3>1, <3>2 DEF DoPendingFunctors
  <2>5. CASE FunctorsDone
    BY <2>5 DEF FunctorsDone
  <2>6. CASE ListenInLoop
    <3>1. todo' \in Seq([call : Calls, of : Channels])
      BY <2>6, <2>b, <2>c DEF ListenInLoop, Does
    <3> QED
      BY <2>6, <3>1 DEF ListenInLoop
  <2>7. CASE TcpServerDestructor
    <3>1. ASSUME NEW p \in Peers
          PROVE  <<Call("connectDestroyed", p), Head(todo)>> \in Seq(AllCalls)
      BY <2>a, <2>7, CallTypes DEF TcpServerDestructor, Does
    <3>2. todo' \in Seq([call : Calls, of : Channels])
      BY <2>7, <2>b, <2>c, <3>1 DEF TcpServerDestructor, Does
    <3> QED
      BY <2>7, <3>2 DEF TcpServerDestructor, AcceptorDestructor
  <2>8. ASSUME NEW ch \in Channels, HandleEventGone(ch) PROVE TypeOK'
    BY <2>8 DEF HandleEventGone, Dispatches
  <2>9. ASSUME NEW p \in Peers, HandleRead(p) PROVE TypeOK'
    <3>1. todo' \in Seq([call : Calls, of : Channels])
      <4>1. /\ <<Call("messageCallback_", p)>> \in Seq(AllCalls)
            /\ <<Call("connectionCallback_", p), Call("removeConnection", p)>>
                 \in Seq(AllCalls)
        BY CallTypes
      <4> QED
        BY <2>9, <4>1, Zenon DEF HandleRead, HandleClose, AllCalls
    <3> QED
      BY <2>9, <3>1 DEF HandleRead, HandleClose, DisableAll, Dispatches, Channels
  <2>10. ASSUME NEW p \in Peers, RemoveConnection(p) PROVE TypeOK'
    <3>1. todo' \in Seq([call : Calls, of : Channels])
      BY <2>10, <2>b, <2>c DEF RemoveConnection, Does
    <3>2. pendingFunctors_' \in Seq([call : Functors, of : Channels])
      <4>1. Append(pendingFunctors_, Call("connectDestroyed", p)) \in Seq(FunctorCalls)
        BY <2>a, CallTypes
      <4> QED
        BY <2>10, <2>a, <4>1, Zenon DEF RemoveConnection, FunctorCalls
    <3> QED
      BY <2>10, <3>1, <3>2 DEF RemoveConnection, Erased
  <2>11. ASSUME NEW p \in Peers, ConnectDestroyed(p) PROVE TypeOK'
    <3>1. /\ <<Call("connectionCallback_", p), Call("remove", p)>> \in Seq(AllCalls)
          /\ <<Call("remove", p)>> \in Seq(AllCalls)
      BY CallTypes
    <3>2. todo' \in Seq([call : Calls, of : Channels])
      BY <2>11, <2>b, <3>1 DEF ConnectDestroyed, Does
    <3>3. /\ state_' \in [Peers -> {"none", "kConnected", "kDisconnecting", "kDisconnected"}]
          /\ reading' \subseteq Peers /\ added' \subseteq Peers
      BY <2>11 DEF ConnectDestroyed, DisableAll
    <3> QED
      BY <2>11, <3>2, <3>3 DEF ConnectDestroyed
  <2>12. ASSUME NEW p \in Peers, Remove(p) PROVE TypeOK'
    <3>1. todo' \in Seq([call : Calls, of : Channels])
      BY <2>12, <2>b, <2>c DEF Remove, Does
    <3> QED
      BY <2>12, <3>1 DEF Remove
  <2>13. ASSUME NEW p \in Peers, UserReturns(p) PROVE TypeOK'
    <3>1. todo' \in Seq([call : Calls, of : Channels])
      BY <2>13, <2>b, <2>c DEF UserReturns, Does
    <3> QED
      BY <2>13, <3>1 DEF UserReturns
  <2>14. CASE Start
    BY <2>14, TcpServerAssumption DEF Start, SetThreadNum, PoolStartReturns
  <2>15. CASE StartElsewhere
    <3>1. pendingFunctors_' \in Seq([call : Functors, of : Channels])
      <4>1. Append(pendingFunctors_, Call("listen", acceptChannel_)) \in Seq(FunctorCalls)
        BY <2>a, CallTypes
      <4> QED
        BY <2>15, <2>a, <4>1, Zenon DEF StartElsewhere, FunctorCalls
    <3> QED
      BY <2>15, <3>1, TcpServerAssumption DEF StartElsewhere
  <2>16. CASE ServerGoes
    <3>1. todo' \in Seq([call : Calls, of : Channels])
      BY <2>16, <2>a, CallTypes, ConcatProperties DEF ServerGoes, AllCalls
    <3> QED
      BY <2>16, <3>1 DEF ServerGoes
  <2>17. CASE EventLoopDestructor
    BY <2>17 DEF EventLoopDestructor
  <2>18. CASE Quit
    BY <2>18 DEF Quit
  <2>19. ASSUME NEW p \in Peers, ShutdownSelf(p) \/ Keep(p) \/ Drop(p) PROVE TypeOK'
    <3>1. CASE ShutdownSelf(p)
      BY <3>1 DEF ShutdownSelf
    <3>2. CASE Keep(p)
      BY <3>2 DEF Keep
    <3>3. CASE Drop(p)
      BY <3>3 DEF Drop
    <3> QED
      BY <2>19, <3>1, <3>2, <3>3
  <2>20. ASSUME NEW p \in Peers, PeerConnects(p) \/ PeerCloses(p) PROVE TypeOK'
    <3>1. CASE PeerConnects(p)
      BY <3>1 DEF PeerConnects
    <3>2. CASE PeerCloses(p)
      BY <3>2 DEF PeerCloses
    <3> QED
      BY <2>20, <3>1, <3>2
  <2>21. CASE UNCHANGED vars
    BY <2>21 DEF vars
  <2> QED
    BY <2>1, <2>2, <2>3, <2>4, <2>5, <2>6, <2>7, <2>8, <2>9, <2>10, <2>11, <2>12, <2>13,
       <2>14, <2>15, <2>16, <2>17, <2>18, <2>19, <2>20, <2>21
       DEF Next, LoopStep, UserStep, PeerStep
<1> QED
  BY <1>1, <1>2, PTL DEF Spec

-----------------------------------------------------------------------------
(* The map of the server *)

Created(p) == state_[p] # "none"
RemovalDue(p) == \E i \in DOMAIN todo : todo[i] = Call("removeConnection", p)

\* Connections have names of their own, older than the next; who waits has no connection,
\* who reads or is about to be dispatched has one.
NamesFresh ==
  /\ \A p \in Peers : Created(p) => name_[p] < nextConnId_
  /\ \A p, q \in Peers : Created(p) /\ Created(q) /\ name_[p] = name_[q] => p = q
  /\ \A p \in waiting : ~Created(p)
  /\ \A p \in Peers : p \in reading \cup active => Created(p)

\* While the server lives, who reads, and who is about to be dispatched, is open.
ReadersAreOpen ==
  server = "alive" =>
    /\ \A p \in Peers : p \in reading <=> Open(p)
    /\ \A p \in Peers : p \in active => Open(p)
    /\ acceptor # "gone"

\* A removal is the last the handler does, and it is of a connection that is closed,
\* as is whose connectDestroyed() is queued.
RemovalsDue ==
  server = "alive" =>
    /\ \A i \in DOMAIN todo :
         /\ todo[i].call = "removeConnection" => i = Len(todo)
         /\ todo[i].call \in {"removeConnection", "connectDestroyed"} =>
              todo[i].of \in Peers /\ state_[todo[i].of] = "kDisconnected"
         /\ todo[i].call # "TcpServerDestructor"
    /\ \A i \in DOMAIN pendingFunctors_ :
         pendingFunctors_[i].call = "connectDestroyed" =>
           /\ pendingFunctors_[i].of \in Peers
           /\ state_[pendingFunctors_[i].of] = "kDisconnected"

MapExact ==
  server = "alive" => \A p \in Peers : p \in connections_ <=> Open(p) \/ RemovalDue(p)

MapInv == NamesFresh /\ ReadersAreOpen /\ RemovalsDue /\ MapExact

\* The head of todo leaves other calls: the rest of RemovalsDue about todo carries over
\* when none of them removes or destroys, and the removals due are those that were,
\* except the one at the head.
LEMMA LeavesDue ==
  ASSUME TypeOK, RemovalsDue, server = "alive", todo # <<>>,
         NEW calls \in Seq(AllCalls), Leaves(calls),
         \A i \in DOMAIN calls : calls[i].call \notin
           {"removeConnection", "connectDestroyed", "TcpServerDestructor"}
  PROVE  /\ \A p \in Peers : RemovalDue(p)' <=>
                               RemovalDue(p) /\ ~Does("removeConnection", p)
         /\ \A i \in DOMAIN todo' : todo'[i].call = "removeConnection" => i = Len(todo')
         /\ \A i \in DOMAIN todo' :
              todo'[i].call \in {"removeConnection", "connectDestroyed",
                                 "TcpServerDestructor"} =>
                \E j \in DOMAIN todo : todo[j] = todo'[i]
<1>1. todo \in Seq(AllCalls)
  BY DEF TypeOK, AllCalls
<1>2. /\ todo' \in Seq(AllCalls)
      /\ Len(todo') = Len(calls) + Len(todo) - 1
      /\ \A i \in 1..Len(todo') :
           \/ i <= Len(calls) /\ todo'[i] = calls[i]
           \/ /\ i > Len(calls)
              /\ i - Len(calls) + 1 \in 2..Len(todo)
              /\ todo'[i] = todo[i - Len(calls) + 1]
      /\ \A j \in 2..Len(todo) : /\ j + Len(calls) - 1 \in 1..Len(todo')
                                 /\ todo'[j + Len(calls) - 1] = todo[j]
  BY <1>1, LeavesWhat
<1>3. /\ DOMAIN todo = 1..Len(todo) /\ DOMAIN todo' = 1..Len(todo')
      /\ DOMAIN calls = 1..Len(calls) /\ Len(calls) \in Nat /\ Len(todo) \in Nat \ {0}
      /\ Head(todo) = todo[1]
  BY <1>1, <1>2
<1>4. ASSUME NEW i \in DOMAIN todo',
             todo'[i].call \in {"removeConnection", "connectDestroyed",
                                "TcpServerDestructor"}
      PROVE  /\ i - Len(calls) + 1 \in 2..Len(todo)
             /\ todo'[i] = todo[i - Len(calls) + 1]
  <2>1. CASE i <= Len(calls) /\ todo'[i] = calls[i]
    BY <2>1, <1>3, <1>4
  <2> QED
    BY <2>1, <1>2, <1>3
<1>5. ASSUME NEW i \in DOMAIN todo', todo'[i].call = "removeConnection"
      PROVE  i = Len(todo')
  <2>1. /\ i - Len(calls) + 1 \in 2..Len(todo)
        /\ todo[i - Len(calls) + 1].call = "removeConnection"
    BY <1>4, <1>5
  <2>2. i - Len(calls) + 1 = Len(todo)
    BY <2>1, <1>3 DEF RemovalsDue
  <2> QED
    BY <2>2, <1>2, <1>3
<1>6. ASSUME NEW p \in Peers, RemovalDue(p)'
      PROVE  RemovalDue(p) /\ ~Does("removeConnection", p)
  <2>1. PICK i \in DOMAIN todo' : todo'[i] = Call("removeConnection", p)
    BY <1>6 DEF RemovalDue
  <2>2. todo'[i].call = "removeConnection"
    BY <2>1 DEF Call
  <2>3. /\ i - Len(calls) + 1 \in 2..Len(todo)
        /\ todo[i - Len(calls) + 1] = Call("removeConnection", p)
    BY <2>1, <2>2, <1>4
  <2>4. RemovalDue(p)
    BY <2>3, <1>3 DEF RemovalDue
  <2>5. ASSUME Does("removeConnection", p) PROVE FALSE
    <3>1. todo[1].call = "removeConnection"
      BY <2>5, <1>3 DEF Does, Call
    <3>2. 1 = Len(todo)
      BY <3>1, <1>3 DEF RemovalsDue
    <3> QED
      BY <3>2, <2>3, <1>3
  <2> QED
    BY <2>4, <2>5
<1>7. ASSUME NEW p \in Peers, RemovalDue(p), ~Does("removeConnection", p)
      PROVE  RemovalDue(p)'
  <2>1. PICK j \in DOMAIN todo : todo[j] = Call("removeConnection", p)
    BY <1>7 DEF RemovalDue
  <2>2. j # 1
    BY <2>1, <1>3, <1>7 DEF Does
  <2>3. /\ j + Len(calls) - 1 \in DOMAIN todo'
        /\ todo'[j + Len(calls) - 1] = Call("removeConnection", p)
    BY <2>1, <2>2, <1>2, <1>3
  <2> QED
    BY <2>3 DEF RemovalDue
<1>8. \A i \in 2..Len(todo) : i \in DOMAIN todo
  BY <1>3
<1> QED
  BY <1>4, <1>5, <1>6, <1>7, <1>8

\* A call at the head of todo that removes or destroys is returned from: RemovalsDue
\* holds of todo afterwards.
LEMMA LeavesRemovals ==
  ASSUME TypeOK, RemovalsDue, server = "alive", todo # <<>>,
         NEW calls \in Seq(AllCalls), Leaves(calls),
         \A i \in DOMAIN calls : calls[i].call \notin
           {"removeConnection", "connectDestroyed", "TcpServerDestructor"},
         \A p \in Peers : state_[p] = "kDisconnected" => state_'[p] = "kDisconnected"
  PROVE  \A i \in DOMAIN todo' :
           /\ todo'[i].call = "removeConnection" => i = Len(todo')
           /\ todo'[i].call \in {"removeConnection", "connectDestroyed"} =>
                todo'[i].of \in Peers /\ state_'[todo'[i].of] = "kDisconnected"
           /\ todo'[i].call # "TcpServerDestructor"
<1>1. /\ \A i \in DOMAIN todo' : todo'[i].call = "removeConnection" => i = Len(todo')
      /\ \A i \in DOMAIN todo' :
           todo'[i].call \in {"removeConnection", "connectDestroyed",
                              "TcpServerDestructor"} =>
             \E j \in DOMAIN todo : todo[j] = todo'[i]
  BY LeavesDue
<1>2. ASSUME NEW i \in DOMAIN todo',
             todo'[i].call \in {"removeConnection", "connectDestroyed"}
      PROVE  todo'[i].of \in Peers /\ state_'[todo'[i].of] = "kDisconnected"
  BY <1>1, <1>2 DEF RemovalsDue
<1>3. ASSUME NEW i \in DOMAIN todo' PROVE todo'[i].call # "TcpServerDestructor"
  BY <1>1 DEF RemovalsDue
<1> QED
  BY <1>1, <1>2, <1>3

\* A step that leaves what the map is about alone, and at most takes calls and channels
\* away, preserves the invariant.
LEMMA MapStutters ==
  ASSUME MapInv, server' = "alive" => server = "alive",
         UNCHANGED <<nextConnId_, connections_, state_, name_, reading, waiting, todo>>,
         active' \subseteq active, acceptor' = "gone" => acceptor = "gone",
         pendingFunctors_' \in {pendingFunctors_, <<>>}
  PROVE  MapInv'
<1>1. NamesFresh'
  BY DEF MapInv, NamesFresh, Created
<1>2. ReadersAreOpen'
  BY DEF MapInv, ReadersAreOpen, Open
<1>3. RemovalsDue'
  BY DEF MapInv, RemovalsDue
<1>4. MapExact'
  BY DEF MapInv, MapExact, Open, RemovalDue
<1> QED
  BY <1>1, <1>2, <1>3, <1>4 DEF MapInv

\* The head of todo leaves other calls and state_ and map as they are.
LEMMA MapLeaves ==
  ASSUME TypeOK, MapInv, server' = server, todo # <<>>,
         UNCHANGED <<nextConnId_, connections_, state_, name_, reading, waiting>>,
         active' = active, acceptor' = "gone" => acceptor = "gone",
         pendingFunctors_' = pendingFunctors_,
         NEW calls \in Seq(AllCalls), Leaves(calls),
         \A i \in DOMAIN calls : calls[i].call \notin
           {"removeConnection", "connectDestroyed", "TcpServerDestructor"},
         \A p \in Peers : ~Does("removeConnection", p)
  PROVE  MapInv'
<1>1. NamesFresh'
  BY DEF MapInv, NamesFresh, Created
<1>2. ReadersAreOpen'
  BY DEF MapInv, ReadersAreOpen, Open
<1>3. RemovalsDue'
  <2> SUFFICES ASSUME server = "alive" PROVE RemovalsDue'
    BY DEF RemovalsDue
  <2>1. \A i \in DOMAIN todo' :
           /\ todo'[i].call = "removeConnection" => i = Len(todo')
           /\ todo'[i].call \in {"removeConnection", "connectDestroyed"} =>
                todo'[i].of \in Peers /\ state_'[todo'[i].of] = "kDisconnected"
           /\ todo'[i].call # "TcpServerDestructor"
    BY LeavesRemovals DEF MapInv
  <2> QED
    BY <2>1 DEF MapInv, RemovalsDue
<1>4. MapExact'
  <2> SUFFICES ASSUME server = "alive" PROVE MapExact'
    BY DEF MapExact
  <2>1. \A p \in Peers : RemovalDue(p)' <=> RemovalDue(p)
    BY LeavesDue DEF MapInv
  <2> QED
    BY <2>1 DEF MapInv, MapExact, Open
<1> QED
  BY <1>1, <1>2, <1>3, <1>4 DEF MapInv

\* Accepting a connection: who waited was not created, so its name is new to the map.
LEMMA MapAccepts ==
  ASSUME TypeOK, MapInv, AcceptorHandleRead PROVE MapInv'
<1> USE DEF AcceptorHandleRead, Dispatches, fate, others
<1>1. CASE UNCHANGED <<mapVars, connVars, todo>>
  <2>1. UNCHANGED <<nextConnId_, connections_, state_, name_, reading, todo>>
    BY <1>1 DEF mapVars, connVars
  <2>2. waiting' \subseteq waiting
    BY DEF Accept, peerVars
  <2>3. NamesFresh'
    BY <2>1, <2>2 DEF MapInv, NamesFresh, Created
  <2>4. ReadersAreOpen'
    BY <2>1 DEF MapInv, ReadersAreOpen, Open, Accept
  <2>5. RemovalsDue' /\ MapExact'
    BY <2>1 DEF MapInv, RemovalsDue, MapExact, Open, RemovalDue
  <2> QED
    BY <2>3, <2>4, <2>5 DEF MapInv
<1>2. ASSUME NEW p \in Peers, p \in waiting, waiting' = waiting \ {p}, NewConnection(p)
      PROVE  MapInv'
  <2> USE DEF NewConnection, ConnectEstablished, TypeOK
  <2>1. /\ ~Created(p) /\ ~Open(p)
        /\ \A q \in Peers : name_'[q] = IF q = p THEN nextConnId_ ELSE name_[q]
        /\ \A q \in Peers : state_'[q] = IF q = p THEN "kConnected" ELSE state_[q]
        /\ nextConnId_' = nextConnId_ + 1
    BY <1>2 DEF MapInv, NamesFresh, Created, Open
  <2>2. NamesFresh'
    BY <1>2, <2>1 DEF MapInv, NamesFresh, Created
  <2>3. ReadersAreOpen'
    BY <1>2, <2>1 DEF MapInv, ReadersAreOpen, Open, Accept
  <2>4. todo' = <<Call("connectionCallback_", p)>>
    BY <1>2
  <2>5. RemovalsDue'
    <3>1. \A q \in Peers : state_[q] = "kDisconnected" => state_'[q] = "kDisconnected"
      BY <2>1 DEF Created
    <3>2. pendingFunctors_' = pendingFunctors_ /\ server' = server
      OBVIOUS
    <3> QED
      BY <2>4, <3>1, <3>2 DEF MapInv, RemovalsDue, Call
  <2>6. ASSUME server = "alive", NEW q \in Peers
        PROVE  q \in connections_' <=> Open(q)' \/ RemovalDue(q)'
    <3>1. ~RemovalDue(q) /\ ~RemovalDue(q)'
      BY <2>4 DEF RemovalDue, Call
    <3>2. q \in connections_ => Open(q) /\ name_[q] # nextConnId_
      BY <2>6, <3>1, <1>2 DEF MapInv, MapExact, NamesFresh, Created, Open
    <3>3. q \in connections_' <=> q \in connections_ \/ q = p
      BY <3>2, <1>2 DEF Erased
    <3> QED
      BY <3>1, <3>3, <2>1, <2>6 DEF MapInv, MapExact, Open
  <2>7. MapExact'
    BY <2>6 DEF MapExact
  <2> QED
    BY <2>2, <2>3, <2>5, <2>7 DEF MapInv
<1>3. \/ UNCHANGED <<mapVars, connVars, todo>>
      \/ \E p \in waiting : waiting' = waiting \ {p} /\ NewConnection(p)
  BY DEF Accept
<1> QED
  BY <1>1, <1>2, <1>3 DEF TypeOK

\* Reading: a channel that is dispatched is open, so a close finds it in the map.
LEMMA MapReads ==
  ASSUME TypeOK, MapInv, NEW p \in Peers, HandleRead(p) PROVE MapInv'
<1> USE DEF HandleRead, Dispatches, serverVars, mapVars, peerVars, fate, others, TypeOK
<1>1. CASE todo' = <<Call("messageCallback_", p)>> /\ UNCHANGED <<state_, reading, added>>
  <2>1. NamesFresh' /\ ReadersAreOpen'
    BY <1>1 DEF MapInv, NamesFresh, Created, ReadersAreOpen, Open
  <2>2. RemovalsDue'
    BY <1>1 DEF MapInv, RemovalsDue, Call
  <2>3. \A q \in Peers : ~RemovalDue(q) /\ ~RemovalDue(q)'
    BY <1>1 DEF RemovalDue, Call
  <2>4. MapExact'
    BY <1>1, <2>3 DEF MapInv, MapExact, Open
  <2> QED
    BY <2>1, <2>2, <2>4 DEF MapInv
<1>2. CASE HandleClose(p)
  <2> USE DEF HandleClose, DisableAll
  <2>1. \A q \in Peers : state_'[q] = IF q = p THEN "kDisconnected" ELSE state_[q]
    BY <1>2
  <2>2. NamesFresh'
    <3>1. waiting' = waiting /\ name_' = name_ /\ nextConnId_' = nextConnId_
      OBVIOUS
    <3>2. Created(p)
      BY DEF MapInv, NamesFresh
    <3> QED
      BY <2>1, <3>1, <3>2 DEF MapInv, NamesFresh, Created
  <2>3. ReadersAreOpen'
    BY <1>2, <2>1 DEF MapInv, ReadersAreOpen, Open
  <2>4. todo' = <<Call("connectionCallback_", p), Call("removeConnection", p)>>
    BY <1>2
  <2>5. RemovalsDue'
    BY <2>1, <2>4 DEF MapInv, RemovalsDue, Call
  <2>6. \A q \in Peers : ~RemovalDue(q) /\ (RemovalDue(q)' <=> q = p)
    <3>1. \A q \in Peers : ~RemovalDue(q)
      BY DEF RemovalDue
    <3>2. RemovalDue(p)'
      BY <2>4 DEF RemovalDue
    <3>3. \A q \in Peers : RemovalDue(q)' => q = p
      BY <2>4 DEF RemovalDue, Call
    <3> QED
      BY <3>1, <3>2, <3>3
  <2>7. server = "alive" => Open(p)
    BY DEF MapInv, ReadersAreOpen
  <2>8. MapExact'
    BY <2>1, <2>6, <2>7 DEF MapInv, MapExact, Open
  <2> QED
    BY <2>2, <2>3, <2>5, <2>8 DEF MapInv
<1> QED
  BY <1>1, <1>2

\* removeConnection(): the entry erased is that of the connection, since no other has
\* its name, and the removal is no longer due.
LEMMA MapRemoves ==
  ASSUME TypeOK, MapInv, NEW p \in Peers, RemoveConnection(p) PROVE MapInv'
<1> USE DEF RemoveConnection, serverVars, connVars, peerVars, round, others
<1>1. todo \in Seq(AllCalls) /\ <<>> \in Seq(AllCalls) /\ todo # <<>> /\ Leaves(<<>>)
  BY DEF TypeOK, AllCalls, Does
<1>2. UNCHANGED <<server, nextConnId_, state_, name_, reading, waiting, active, acceptor>>
  OBVIOUS
<1>3. NamesFresh' /\ ReadersAreOpen'
  BY <1>2 DEF MapInv, NamesFresh, Created, ReadersAreOpen, Open
<1>4. \A i \in DOMAIN <<>> : <<>>[i].call \notin
         {"removeConnection", "connectDestroyed", "TcpServerDestructor"}
  OBVIOUS
<1>5. ASSUME server = "alive" PROVE RemovalsDue' /\ MapExact'
  <2>1. /\ connections_' = Erased(name_[p])
        /\ pendingFunctors_' = Append(pendingFunctors_, Call("connectDestroyed", p))
    BY <1>5
  <2>2. 1 \in DOMAIN todo /\ todo[1] = Call("removeConnection", p)
    BY <1>1 DEF Does
  <2>3. state_[p] = "kDisconnected" /\ RemovalDue(p)
    BY <2>2, <1>5 DEF MapInv, RemovalsDue, RemovalDue, Call
  <2>4. RemovalsDue'
    <3>1. \A i \in DOMAIN todo' :
             /\ todo'[i].call = "removeConnection" => i = Len(todo')
             /\ todo'[i].call \in {"removeConnection", "connectDestroyed"} =>
                  todo'[i].of \in Peers /\ state_'[todo'[i].of] = "kDisconnected"
             /\ todo'[i].call # "TcpServerDestructor"
      <4>1. \A q \in Peers : state_[q] = "kDisconnected" => state_'[q] = "kDisconnected"
        BY <1>2
      <4>2. RemovalsDue
        BY DEF MapInv
      <4> QED
        BY <1>1, <1>4, <1>5, <4>1, <4>2, LeavesRemovals
    <3>2. ASSUME NEW i \in DOMAIN pendingFunctors_',
                 pendingFunctors_'[i].call = "connectDestroyed"
          PROVE  /\ pendingFunctors_'[i].of \in Peers
                 /\ state_'[pendingFunctors_'[i].of] = "kDisconnected"
      <4>1. \/ i \in DOMAIN pendingFunctors_ /\ pendingFunctors_'[i] = pendingFunctors_[i]
            \/ pendingFunctors_'[i] = Call("connectDestroyed", p)
        BY <2>1, <3>2 DEF TypeOK
      <4> QED
        BY <4>1, <3>2, <2>3, <1>2, <1>5 DEF MapInv, RemovalsDue, Call
    <3> QED
      BY <3>1, <3>2 DEF RemovalsDue
  <2>5. \A q \in Peers : RemovalDue(q)' <=> RemovalDue(q) /\ q # p
    <3>1. \A q \in Peers : RemovalDue(q)' <=>
                             RemovalDue(q) /\ ~Does("removeConnection", q)
      <4>1. RemovalsDue
        BY DEF MapInv
      <4> QED
        BY <1>1, <1>4, <1>5, <4>1, LeavesDue
    <3>2. \A q \in Peers : Does("removeConnection", q) <=> q = p
      BY <1>1 DEF Does, Call
    <3> QED
      BY <3>1, <3>2
  <2>6. ASSUME NEW q \in Peers PROVE q \in connections_' <=> q \in connections_ /\ q # p
    <3>1. p \in connections_ /\ Created(p)
      BY <2>3, <1>5 DEF MapInv, MapExact, Created
    <3>2. q \in connections_ => Created(q)
      <4>1. RemovalDue(q) => state_[q] = "kDisconnected"
        BY <1>5 DEF MapInv, RemovalsDue, RemovalDue, Call
      <4> QED
        BY <4>1, <1>5 DEF MapInv, MapExact, Created, Open
    <3> QED
      BY <3>1, <3>2, <2>1 DEF Erased, MapInv, NamesFresh
  <2>7. ~Open(p)
    BY <2>3 DEF Open
  <2>8. MapExact'
    BY <2>5, <2>6, <2>7, <1>2, <1>5 DEF MapInv, MapExact, Open
  <2> QED
    BY <2>4, <2>8
<1>6. RemovalsDue' /\ MapExact'
  BY <1>2, <1>5 DEF RemovalsDue, MapExact
<1> QED
  BY <1>3, <1>6 DEF MapInv

\* connectDestroyed(): while the server lives, only of connections that are closed.
LEMMA MapDestroys ==
  ASSUME TypeOK, MapInv, NEW p \in Peers, ConnectDestroyed(p) PROVE MapInv'
<1> USE DEF ConnectDestroyed, serverVars, mapVars, peerVars, round, fate, others
<1>1. todo \in Seq(AllCalls) /\ todo # <<>> /\ Head(todo) = todo[1] /\ 1 \in DOMAIN todo
  BY DEF TypeOK, AllCalls, Does
<1>2. CASE server = "alive"
  <2>1. state_[p] = "kDisconnected"
    BY <1>1, <1>2 DEF MapInv, RemovalsDue, Does, Call
  <2>2. /\ Leaves(<<Call("remove", p)>>) /\ UNCHANGED <<state_, reading, added>>
    BY <2>1
  <2>3. <<Call("remove", p)>> \in Seq(AllCalls)
    BY CallTypes
  <2>4. \A i \in DOMAIN <<Call("remove", p)>> : <<Call("remove", p)>>[i].call \notin
          {"removeConnection", "connectDestroyed", "TcpServerDestructor"}
    BY DEF Call
  <2>5. \A q \in Peers : ~Does("removeConnection", q)
    BY DEF Does, Call
  <2>6. /\ server' = server
        /\ UNCHANGED <<nextConnId_, connections_, state_, name_, reading, waiting>>
        /\ active' = active /\ acceptor' = acceptor /\ pendingFunctors_' = pendingFunctors_
    BY <2>2
  <2> QED
    BY <1>1, <2>2, <2>3, <2>4, <2>5, <2>6, MapLeaves
<1>3. CASE server # "alive"
  <2>1. server' # "alive"
    BY <1>3
  <2>2. /\ UNCHANGED <<nextConnId_, name_, waiting, active>>
        /\ waiting \subseteq Peers /\ reading' \subseteq reading
        /\ \A q \in Peers : Created(q)' <=> Created(q)
    BY DEF DisableAll, Created, TypeOK
  <2>3. NamesFresh'
    BY <2>2 DEF MapInv, NamesFresh
  <2> QED
    BY <2>1, <2>3 DEF MapInv, ReadersAreOpen, RemovalsDue, MapExact
<1> QED
  BY <1>2, <1>3

\* Every step preserves the invariant.
LEMMA MapInvStep == TypeOK /\ MapInv /\ [Next]_vars => MapInv'
<1> SUFFICES ASSUME TypeOK, MapInv, [Next]_vars PROVE MapInv'
  OBVIOUS
<1> USE DEF objects, serverVars, mapVars, connVars, peerVars, round, loopVars, others, fate
<1>a. /\ todo \in Seq(AllCalls) /\ <<>> \in Seq(AllCalls)
      /\ pendingFunctors_ \in Seq(FunctorCalls)
  BY DEF TypeOK, AllCalls, FunctorCalls
<1>b. \A i \in DOMAIN <<>> : <<>>[i].call \notin
         {"removeConnection", "connectDestroyed", "TcpServerDestructor"}
  OBVIOUS
<1>1. CASE Loop \/ FunctorsDone
  BY <1>1, MapStutters DEF Loop, FunctorsDone
<1>2. CASE Poll
  <2>1. UNCHANGED <<server, nextConnId_, connections_, state_, name_, reading, waiting,
                    todo, pendingFunctors_, acceptor>>
    BY <1>2 DEF Poll
  <2>2. \A p \in Peers : p \in active' => p \in reading
    BY <1>2, TcpServerAssumption DEF Poll
  <2>3. NamesFresh'
    BY <2>1, <2>2 DEF MapInv, NamesFresh, Created
  <2>4. ReadersAreOpen'
    BY <2>1, <2>2 DEF MapInv, ReadersAreOpen, Open
  <2>5. RemovalsDue' /\ MapExact'
    BY <2>1 DEF MapInv, RemovalsDue, MapExact, Open, RemovalDue
  <2> QED
    BY <2>3, <2>4, <2>5 DEF MapInv
<1>3. CASE AcceptorHandleRead
  BY <1>3, MapAccepts
<1>4. CASE DoPendingFunctors
  <2>1. /\ UNCHANGED <<server, nextConnId_, connections_, state_, name_, reading, waiting,
                       active, acceptor>>
        /\ todo = <<>> /\ todo' = pendingFunctors_ /\ pendingFunctors_' = <<>>
    BY <1>4 DEF DoPendingFunctors
  <2>2. NamesFresh' /\ ReadersAreOpen'
    BY <2>1 DEF MapInv, NamesFresh, Created, ReadersAreOpen, Open
  <2>3. \A i \in DOMAIN todo' : todo'[i].call \in Functors
    <3>1. \A i \in DOMAIN pendingFunctors_ : pendingFunctors_[i] \in FunctorCalls
      BY <1>a
    <3> QED
      BY <2>1, <3>1 DEF FunctorCalls
  <2>4. RemovalsDue'
    BY <2>1, <2>3 DEF MapInv, RemovalsDue, Functors
  <2>5. \A p \in Peers : ~RemovalDue(p) /\ ~RemovalDue(p)'
    BY <2>1, <2>3 DEF RemovalDue, Call, Functors
  <2>6. MapExact'
    BY <2>1, <2>5 DEF MapInv, MapExact, Open
  <2> QED
    BY <2>2, <2>4, <2>6 DEF MapInv
<1>5. CASE ListenInLoop
  <2>1. \A p \in Peers : ~Does("removeConnection", p)
    BY <1>5 DEF ListenInLoop, Does, Call
  <2>2. todo # <<>> /\ Leaves(<<>>)
    BY <1>5 DEF ListenInLoop, Does
  <2>3. /\ UNCHANGED <<server, nextConnId_, connections_, state_, name_, reading, waiting,
                       active, pendingFunctors_>>
        /\ acceptor' = "gone" => acceptor = "gone"
    BY <1>5 DEF ListenInLoop
  <2> QED
    BY <1>a, <1>b, <2>1, <2>2, <2>3, MapLeaves
<1>6. CASE TcpServerDestructor
  <2>1. server # "alive"
    BY <1>6, <1>a DEF TcpServerDestructor, Does, Call, MapInv, RemovalsDue
  <2>2. /\ server' # "alive"
        /\ UNCHANGED <<nextConnId_, state_, name_, reading, active>>
        /\ waiting' \subseteq waiting
    BY <1>6, <2>1 DEF TcpServerDestructor, AcceptorDestructor
  <2>3. NamesFresh'
    BY <2>2 DEF MapInv, NamesFresh, Created
  <2> QED
    BY <2>2, <2>3 DEF MapInv, ReadersAreOpen, RemovalsDue, MapExact
<1>7. ASSUME NEW ch \in Channels, HandleEventGone(ch) PROVE MapInv'
  BY <1>7, MapStutters DEF HandleEventGone, Dispatches
<1>8. ASSUME NEW p \in Peers, HandleRead(p) PROVE MapInv'
  BY <1>8, MapReads
<1>9. ASSUME NEW p \in Peers, RemoveConnection(p) PROVE MapInv'
  BY <1>9, MapRemoves
<1>10. ASSUME NEW p \in Peers, ConnectDestroyed(p) PROVE MapInv'
  BY <1>10, MapDestroys
<1>11. ASSUME NEW p \in Peers, Remove(p) \/ UserReturns(p) PROVE MapInv'
  <2>1. \A q \in Peers : ~Does("removeConnection", q)
    BY <1>11 DEF Remove, UserReturns, UserCallbacks, Does, Call
  <2>2. todo # <<>> /\ Leaves(<<>>)
    BY <1>11 DEF Remove, UserReturns, Does
  <2>3. UNCHANGED <<server, nextConnId_, connections_, state_, name_, reading, waiting,
                    active, pendingFunctors_, acceptor>>
    BY <1>11 DEF Remove, UserReturns
  <2> QED
    BY <1>a, <1>b, <2>1, <2>2, <2>3, MapLeaves
<1>12. CASE Start
  <2>1. /\ UNCHANGED <<server, nextConnId_, connections_, state_, name_, reading, waiting,
                       todo, active, pendingFunctors_>>
        /\ acceptor' = "gone" => acceptor = "gone"
    BY <1>12 DEF Start
  <2> QED
    BY <2>1, MapStutters
<1>13. CASE StartElsewhere
  <2>1. /\ UNCHANGED <<server, nextConnId_, connections_, state_, name_, reading, waiting,
                       todo, active, acceptor>>
        /\ pendingFunctors_' \in {pendingFunctors_,
             Append(pendingFunctors_, Call("listen", acceptChannel_))}
    BY <1>13 DEF StartElsewhere
  <2>2. NamesFresh' /\ ReadersAreOpen'
    BY <2>1 DEF MapInv, NamesFresh, Created, ReadersAreOpen, Open
  <2>3. ASSUME NEW i \in DOMAIN pendingFunctors_',
               pendingFunctors_'[i].call = "connectDestroyed"
        PROVE  i \in DOMAIN pendingFunctors_ /\ pendingFunctors_'[i] = pendingFunctors_[i]
    <3>1. CASE pendingFunctors_' = Append(pendingFunctors_, Call("listen", acceptChannel_))
      <4>1. \/ i \in DOMAIN pendingFunctors_ /\ pendingFunctors_'[i] = pendingFunctors_[i]
            \/ pendingFunctors_'[i] = Call("listen", acceptChannel_)
        BY <1>a, <3>1
      <4> QED
        BY <4>1, <2>3 DEF Call
    <3> QED
      BY <2>1, <3>1
  <2>4. RemovalsDue'
    BY <2>1, <2>3 DEF MapInv, RemovalsDue
  <2>5. MapExact'
    BY <2>1 DEF MapInv, MapExact, Open, RemovalDue
  <2> QED
    BY <2>2, <2>4, <2>5 DEF MapInv
<1>14. CASE ServerGoes
  <2>1. /\ server' = "dying"
        /\ UNCHANGED <<nextConnId_, state_, name_, reading, active, waiting>>
    BY <1>14 DEF ServerGoes
  <2>2. NamesFresh'
    BY <2>1 DEF MapInv, NamesFresh, Created
  <2> QED
    BY <2>1, <2>2 DEF MapInv, ReadersAreOpen, RemovalsDue, MapExact
<1>15. CASE EventLoopDestructor \/ Quit
  BY <1>15, MapStutters DEF EventLoopDestructor, Quit
<1>16. ASSUME NEW p \in Peers, Keep(p) \/ Drop(p) \/ PeerCloses(p) PROVE MapInv'
  BY <1>16, MapStutters DEF Keep, Drop, PeerCloses
<1>17. ASSUME NEW p \in Peers, ShutdownSelf(p) PROVE MapInv'
  <2>1. /\ UNCHANGED <<server, nextConnId_, connections_, name_, reading, waiting, todo,
                       active, pendingFunctors_, acceptor>>
        /\ state_[p] = "kConnected"
        /\ \A q \in Peers : state_'[q] = IF q = p THEN "kDisconnecting" ELSE state_[q]
    BY <1>17 DEF ShutdownSelf, TypeOK
  <2>2. \A q \in Peers : /\ Open(q)' <=> Open(q)
                         /\ Created(q)' <=> Created(q)
                         /\ state_[q] = "kDisconnected" => state_'[q] = "kDisconnected"
    BY <2>1 DEF Open, Created
  <2>3. NamesFresh'
    BY <2>1, <2>2 DEF MapInv, NamesFresh, TypeOK
  <2>4. ReadersAreOpen'
    BY <2>1, <2>2 DEF MapInv, ReadersAreOpen
  <2>5. RemovalsDue'
    BY <2>1, <2>2 DEF MapInv, RemovalsDue
  <2>6. MapExact'
    BY <2>1, <2>2 DEF MapInv, MapExact, RemovalDue
  <2> QED
    BY <2>3, <2>4, <2>5, <2>6 DEF MapInv
<1>18. ASSUME NEW p \in Peers, PeerConnects(p) PROVE MapInv'
  <2>1. /\ UNCHANGED <<server, nextConnId_, connections_, state_, name_, reading, todo,
                       active, pendingFunctors_, acceptor>>
        /\ ~Created(p) /\ waiting' = waiting \cup {p}
    BY <1>18 DEF PeerConnects, Created
  <2>2. NamesFresh'
    BY <2>1 DEF MapInv, NamesFresh, Created
  <2>3. ReadersAreOpen' /\ RemovalsDue' /\ MapExact'
    BY <2>1 DEF MapInv, ReadersAreOpen, RemovalsDue, MapExact, Open, RemovalDue
  <2> QED
    BY <2>2, <2>3 DEF MapInv
<1>19. CASE UNCHANGED vars
  BY <1>19, MapStutters DEF vars
<1> QED
  BY <1>1, <1>2, <1>3, <1>4, <1>5, <1>6, <1>7, <1>8, <1>9, <1>10, <1>11, <1>12, <1>13,
     <1>14, <1>15, <1>16, <1>17, <1>18, <1>19 DEF Next, LoopStep, UserStep, PeerStep

\* What the invariant is for.
LEMMA MapInvIsOpen == TypeOK /\ MapInv => MapIsOpen
<1> SUFFICES ASSUME TypeOK, MapInv, server = "alive" PROVE MapIsOpen
  BY DEF MapIsOpen
<1>1. connections_ = {p \in Peers : Open(p) \/ \E i \in DOMAIN todo :
                                       todo[i] = Call("removeConnection", p)}
  BY DEF TypeOK, MapInv, MapExact, RemovalDue
<1>2. \A p \in connections_ : p \in Peers /\ Created(p)
  <2>1. ASSUME NEW p \in Peers, RemovalDue(p) PROVE Created(p)
    BY <2>1 DEF MapInv, RemovalsDue, RemovalDue, Call, Created
  <2> QED
    BY <2>1 DEF TypeOK, MapInv, MapExact, Open, Created
<1>3. \A p, q \in connections_ : name_[p] = name_[q] => p = q
  BY <1>2 DEF MapInv, NamesFresh
<1> QED
  BY <1>1, <1>3 DEF MapIsOpen

\* There are no connections at first.
LEMMA MapInvInit == Init => MapInv
  BY TcpServerAssumption
     DEF Init, MapInv, NamesFresh, Created, ReadersAreOpen, Open, RemovalsDue, MapExact,
         RemovalDue

\* So the invariant of the map holds throughout.
LEMMA MapInvHolds == Spec => []MapInv
BY MapInvInit, MapInvStep, TcpServerTypeCorrect, PTL DEF Spec

\* However accepting, closing, shutting down and removing interleave, the map of a living
\* server holds exactly the connections that are open or about to be removed, each under
\* a name of its own.
THEOREM MapStaysOpen == Spec => []MapIsOpen
BY TcpServerTypeCorrect, MapInvHolds, MapInvIsOpen, PTL

-----------------------------------------------------------------------------
(* What is dispatched exists *)

\* ~TcpServer is under way: it is to take the next connection, or one is being destroyed.
\* Whoever reads is still in the map, or is that one.
Destroying ==
  \/ /\ Len(todo) >= 1 /\ todo[1].call = "TcpServerDestructor"
     /\ reading \subseteq connections_
  \/ /\ Len(todo) >= 2 /\ todo[2].call = "TcpServerDestructor"
     /\ todo[1].call \in {"connectDestroyed", "remove"}
     /\ reading \subseteq connections_ \cup {todo[1].of}
  \/ /\ Len(todo) >= 3 /\ todo[3].call = "TcpServerDestructor"
     /\ todo[1].call = "connectionCallback_" /\ todo[2].call = "remove"
     /\ reading \subseteq connections_ \cup {todo[2].of}

\* Channels are left to dispatch only while the loop dispatches.
ActiveInDispatch ==
  /\ numThreads_ = 0
  /\ phase # "dispatch" => active = {}
  /\ phase = "poll" => todo = <<>>

\* A server that is destroyed outside of the handlers leaves nobody to dispatch, and
\* when it is gone nobody who reads.
NobodyLeft ==
  /\ server = "gone" => acceptor = "gone"
  /\ server # "alive" /\ "inHandler" \notin anomalies =>
       /\ active = {}
       /\ crashed = "no" =>
            /\ server = "gone" => reading = {}
            /\ server = "dying" => phase \notin {"poll", "dispatch"} /\ Destroying

DispatchInv == ActiveInDispatch /\ NobodyLeft

\* Every step preserves ActiveInDispatch.
LEMMA ActiveInDispatchStep == TypeOK /\ ActiveInDispatch /\ [Next]_vars => ActiveInDispatch'
<1> SUFFICES ASSUME TypeOK, ActiveInDispatch, [Next]_vars PROVE ActiveInDispatch'
  OBVIOUS
<1> USE DEF ActiveInDispatch, objects, serverVars, mapVars, connVars, peerVars, round,
            loopVars, others, fate
<1>1. CASE Loop \/ FunctorsDone \/ DoPendingFunctors
  BY <1>1 DEF Loop, FunctorsDone, DoPendingFunctors
<1>2. CASE Poll
  BY <1>2 DEF Poll
<1>3. CASE AcceptorHandleRead
  BY <1>3 DEF AcceptorHandleRead, Dispatches
<1>4. CASE ListenInLoop \/ TcpServerDestructor
  BY <1>4 DEF ListenInLoop, TcpServerDestructor, Does
<1>5. ASSUME NEW ch \in Channels, HandleEventGone(ch) PROVE ActiveInDispatch'
  BY <1>5 DEF HandleEventGone, Dispatches
<1>6. ASSUME NEW p \in Peers, HandleRead(p) PROVE ActiveInDispatch'
  BY <1>6 DEF HandleRead, Dispatches
<1>7. ASSUME NEW p \in Peers,
             RemoveConnection(p) \/ ConnectDestroyed(p) \/ Remove(p) \/ UserReturns(p)
      PROVE  ActiveInDispatch'
  BY <1>7 DEF RemoveConnection, ConnectDestroyed, Remove, UserReturns, Does
<1>8. CASE Start \/ StartElsewhere
  BY <1>8 DEF Start, StartElsewhere, SetThreadNum, PoolStartReturns
<1>9. CASE ServerGoes
  BY <1>9 DEF ServerGoes, UserRuns
<1>10. CASE EventLoopDestructor \/ Quit
  BY <1>10 DEF EventLoopDestructor, Quit
<1>11. ASSUME NEW p \in Peers, \/ ShutdownSelf(p) \/ Keep(p) \/ Drop(p)
                               \/ PeerConnects(p) \/ PeerCloses(p)
       PROVE  ActiveInDispatch'
  BY <1>11 DEF ShutdownSelf, Keep, Drop, PeerConnects, PeerCloses
<1>12. CASE UNCHANGED vars
  BY <1>12 DEF vars
<1> QED
  BY <1>1, <1>2, <1>3, <1>4, <1>5, <1>6, <1>7, <1>8, <1>9, <1>10, <1>11, <1>12
     DEF Next, LoopStep, UserStep, PeerStep

\* A step that leaves server and readers alone preserves it.
LEMMA NobodyStutters ==
  ASSUME NobodyLeft, active' \subseteq active, phase' = phase,
         UNCHANGED <<server, acceptor, anomalies, reading, connections_, todo>>,
         crashed' = "no" => crashed = "no"
  PROVE  NobodyLeft'
  BY DEF NobodyLeft, Destroying

\* Every step preserves NobodyLeft: while ~TcpServer takes the connections one by one,
\* whoever reads is in the map or is the one it has at hand.
LEMMA NobodyLeftStep ==
  TypeOK /\ MapInv /\ DispatchInv /\ [Next]_vars => NobodyLeft'
<1> SUFFICES ASSUME TypeOK, MapInv, DispatchInv, [Next]_vars PROVE NobodyLeft'
  OBVIOUS
<1> USE DEF objects, serverVars, mapVars, connVars, peerVars, round, loopVars, others, fate
<1>a. /\ todo \in Seq(AllCalls) /\ Len(todo) \in Nat /\ DOMAIN todo = 1..Len(todo)
      /\ todo # <<>> => Len(todo) >= 1 /\ Head(todo) = todo[1] /\ 1 \in DOMAIN todo
      /\ <<>> \in Seq(AllCalls)
  BY DEF TypeOK, AllCalls
<1>b. NobodyLeft /\ ActiveInDispatch
  BY DEF DispatchInv
<1>c. ASSUME UNCHANGED <<server, acceptor, anomalies, active>>,
             server # "alive", "inHandler" \notin anomalies
      PROVE  active' = {} /\ (server' = "gone" => acceptor' = "gone")
  BY <1>b, <1>c DEF NobodyLeft
<1>1. CASE Running /\ (Loop \/ FunctorsDone \/ DoPendingFunctors)
  <2>1. /\ UNCHANGED <<server, acceptor, anomalies, reading, connections_, active, crashed>>
        /\ crashed = "no"
    BY <1>1 DEF Loop, FunctorsDone, DoPendingFunctors, Running
  <2>2. todo = <<>>
    BY <1>1 DEF Loop, FunctorsDone, DoPendingFunctors
  <2>3. ~Destroying
    BY <2>2 DEF Destroying
  <2> QED
    BY <2>1, <2>3, <1>b DEF NobodyLeft
<1>2. CASE Running /\ Poll
  <2>1. /\ UNCHANGED <<server, acceptor, anomalies, reading, connections_, todo, crashed>>
        /\ crashed = "no" /\ phase = "poll"
    BY <1>2 DEF Poll, Running
  <2>2. ASSUME server # "alive", "inHandler" \notin anomalies
        PROVE  server = "gone" /\ reading = {} /\ acceptor = "gone"
    BY <2>1, <2>2, <1>b DEF NobodyLeft, TypeOK
  <2>3. ASSUME server # "alive", "inHandler" \notin anomalies PROVE active' = {}
    BY <2>2, <2>3, <1>2 DEF Poll
  <2> QED
    BY <2>1, <2>2, <2>3, <1>b DEF NobodyLeft
<1>3. CASE \/ AcceptorHandleRead
           \/ \E ch \in Channels : HandleEventGone(ch)
           \/ \E p \in Peers : HandleRead(p)
  <2>1. UNCHANGED <<server, acceptor, anomalies>> /\ active # {}
    <3>1. CASE AcceptorHandleRead
      BY <3>1 DEF AcceptorHandleRead, Accept, Dispatches
    <3>2. ASSUME NEW ch \in Channels, HandleEventGone(ch)
          PROVE  UNCHANGED <<server, acceptor, anomalies>> /\ active # {}
      BY <3>2 DEF HandleEventGone, Dispatches
    <3>3. ASSUME NEW p \in Peers, HandleRead(p)
          PROVE  UNCHANGED <<server, acceptor, anomalies>> /\ active # {}
      BY <3>3 DEF HandleRead, Dispatches
    <3> QED
      BY <1>3, <3>1, <3>2, <3>3
  <2> QED
    BY <2>1, <1>b DEF NobodyLeft
<1>4. CASE Running /\ ListenInLoop
  <2>1. /\ UNCHANGED <<server, anomalies, reading, connections_, active, phase>>
        /\ todo # <<>> /\ todo[1].call = "listen" /\ crashed = "no"
        /\ acceptor = "gone" => acceptor' = "gone"
    BY <1>4, <1>a DEF ListenInLoop, Does, Call, Running
  <2>2. ~Destroying
    BY <2>1 DEF Destroying
  <2> QED
    BY <2>1, <2>2, <1>b DEF NobodyLeft
<1>5. CASE Running /\ TcpServerDestructor
  <2>1. /\ UNCHANGED <<anomalies, reading, active, phase>> /\ crashed = "no"
        /\ todo # <<>> /\ todo[1].call = "TcpServerDestructor"
    BY <1>5, <1>a DEF TcpServerDestructor, Does, Call, Running
  <2>2. server # "alive"
    BY <2>1, <1>a DEF MapInv, RemovalsDue
  <2>3. Destroying => reading \subseteq connections_
    BY <2>1 DEF Destroying
  <2>4. ASSUME NEW p \in connections_, connections_' = connections_ \ {p},
               Leaves(<<Call("connectDestroyed", p), Head(todo)>>),
               UNCHANGED <<acceptor, server, peerVars, crashed>>
        PROVE  NobodyLeft'
    <3>1. Call("connectDestroyed", p) \in AllCalls /\ Head(todo) \in AllCalls
      BY CallTypes, <2>1, <1>a DEF TypeOK
    <3>2. /\ Len(todo') = Len(todo) + 1
          /\ todo'[1] = Call("connectDestroyed", p) /\ todo'[2] = Head(todo)
      BY <3>1, <2>1, <2>4, <1>a, LeavesTwo
    <3>3. /\ Len(todo') >= 2 /\ todo'[2].call = "TcpServerDestructor"
          /\ todo'[1].call = "connectDestroyed" /\ todo'[1].of = p
      BY <3>2, <2>1, <1>a DEF Call
    <3>4. reading \subseteq connections_ => Destroying'
      BY <3>3, <2>1, <2>4 DEF Destroying
    <3> QED
      BY <3>4, <2>1, <2>3, <2>4, <1>b DEF NobodyLeft
  <2>5. CASE connections_ = {} /\ server' = "gone" /\ acceptor' = "gone"
    BY <2>5, <2>1, <2>2, <2>3, <1>b DEF NobodyLeft, TypeOK
  <2> QED
    BY <1>5, <2>4, <2>5 DEF TcpServerDestructor, AcceptorDestructor
<1>6. ASSUME NEW p \in Peers, Running, RemoveConnection(p) PROVE NobodyLeft'
  <2>1. /\ UNCHANGED <<server, acceptor, anomalies, reading, active, phase>>
        /\ crashed = "no" /\ server \in {"alive", "gone"}
    BY <1>6 DEF RemoveConnection, Running
  <2> QED
    BY <2>1, <1>b DEF NobodyLeft
<1>7. ASSUME NEW p \in Peers, Running, ConnectDestroyed(p) PROVE NobodyLeft'
  <2>1. /\ UNCHANGED <<server, acceptor, anomalies, connections_, active, phase>>
        /\ crashed = "no" /\ reading' \subseteq reading
        /\ todo # <<>> /\ todo[1].call = "connectDestroyed" /\ todo[1].of = p
    BY <1>7, <1>a DEF ConnectDestroyed, DisableAll, Does, Call, Running
  <2>2. ASSUME Destroying
        PROVE  /\ Len(todo) >= 2 /\ todo[2].call = "TcpServerDestructor"
               /\ reading \subseteq connections_ \cup {p}
    BY <2>1, <2>2 DEF Destroying
  <2>3. ASSUME Destroying, Leaves(<<Call("remove", p)>>) PROVE Destroying'
    <3>1. Call("remove", p) \in AllCalls /\ 2 \in 2..Len(todo)
      BY CallTypes, <2>2, <2>3, <1>a
    <3>2. /\ Len(todo') = Len(todo) /\ todo'[1] = Call("remove", p)
          /\ todo'[2] = todo[2]
      BY <3>1, <2>1, <2>3, <1>a, LeavesOne
    <3> QED
      BY <3>2, <2>1, <2>2, <2>3 DEF Destroying, Call
  <2>4. ASSUME Destroying, Leaves(<<Call("connectionCallback_", p), Call("remove", p)>>)
        PROVE  Destroying'
    <3>1. /\ Call("connectionCallback_", p) \in AllCalls /\ Call("remove", p) \in AllCalls
          /\ 2 \in 2..Len(todo)
      BY CallTypes, <2>2, <2>4, <1>a
    <3>2. /\ Len(todo') = Len(todo) + 1 /\ todo'[1] = Call("connectionCallback_", p)
          /\ todo'[2] = Call("remove", p) /\ todo'[2 + 1] = todo[2]
      BY <3>1, <2>1, <2>4, <1>a, LeavesTwo
    <3>3. Len(todo') >= 3 /\ reading' \subseteq connections_' \cup {todo'[2].of}
      BY <3>2, <2>1, <2>2, <2>4, <1>a DEF Call
    <3> QED
      BY <3>2, <3>3, <2>2, <2>4 DEF Destroying, Call
  <2>5. Destroying => Destroying'
    BY <1>7, <2>3, <2>4 DEF ConnectDestroyed
  <2> QED
    BY <2>1, <2>5, <1>b DEF NobodyLeft
<1>8. ASSUME NEW p \in Peers, Running, Remove(p) PROVE NobodyLeft'
  <2>1. /\ UNCHANGED <<server, acceptor, anomalies, reading, connections_, active, phase>>
        /\ crashed = "no" /\ (crashed' = "no" => p \notin reading)
        /\ todo # <<>> /\ todo[1].call = "remove" /\ todo[1].of = p /\ Leaves(<<>>)
    BY <1>8, <1>a DEF Remove, Does, Call, Running
  <2>2. ASSUME Destroying, crashed' = "no" PROVE Destroying'
    <3>1. /\ Len(todo) >= 2 /\ todo[2].call = "TcpServerDestructor"
          /\ reading \subseteq connections_ \cup {p}
      BY <2>1, <2>2 DEF Destroying
    <3>2. Len(todo') = Len(todo) - 1 /\ \A j \in 2..Len(todo) : todo'[j - 1] = todo[j]
      BY <2>1, <1>a, LeavesNone
    <3>3. 2 \in 2..Len(todo) /\ 2 - 1 = 1
      BY <3>1, <1>a
    <3>4. todo'[1] = todo[2]
      BY <3>2, <3>3
    <3> QED
      BY <3>1, <3>2, <3>4, <2>1, <2>2, <1>a DEF Destroying
  <2> QED
    BY <2>1, <2>2, <1>b DEF NobodyLeft
<1>9. ASSUME NEW p \in Peers, Running, UserReturns(p) PROVE NobodyLeft'
  <2>1. /\ UNCHANGED <<server, acceptor, anomalies, reading, connections_, active, phase,
                       crashed>>
        /\ todo # <<>> /\ todo[1].call \in UserCallbacks /\ Leaves(<<>>)
    BY <1>9, <1>a DEF UserReturns, Does, Call
  <2>2. ASSUME Destroying PROVE Destroying'
    <3>1. /\ Len(todo) >= 3 /\ todo[3].call = "TcpServerDestructor"
          /\ todo[2].call = "remove" /\ reading \subseteq connections_ \cup {todo[2].of}
      BY <2>1, <2>2 DEF Destroying, UserCallbacks
    <3>2. Len(todo') = Len(todo) - 1 /\ \A j \in 2..Len(todo) : todo'[j - 1] = todo[j]
      BY <2>1, <1>a, LeavesNone
    <3>3. 2 \in 2..Len(todo) /\ 2 - 1 = 1 /\ 3 \in 2..Len(todo) /\ 3 - 1 = 2
      BY <3>1, <1>a
    <3>4. todo'[1] = todo[2] /\ todo'[2] = todo[3]
      BY <3>2, <3>3
    <3> QED
      BY <3>1, <3>2, <3>4, <2>1, <1>a DEF Destroying
  <2> QED
    BY <2>1, <2>2, <1>b DEF NobodyLeft
<1>10. CASE Start
  BY <1>10 DEF Start, NobodyLeft
<1>11. CASE StartElsewhere
  BY <1>11 DEF StartElsewhere, NobodyLeft
<1>12. CASE ServerGoes
  <2>1. /\ server = "alive" /\ server' = "dying"
        /\ UNCHANGED <<reading, connections_, active, phase>>
        /\ todo' = <<Call("TcpServerDestructor", acceptChannel_)>> \o todo
    BY <1>12 DEF ServerGoes
  <2>2. ASSUME "inHandler" \notin anomalies' PROVE phase \notin {"poll", "dispatch"}
    <3>1. phase # "dispatch"
      BY <1>12, <2>2 DEF ServerGoes
    <3>2. phase # "poll"
      BY <1>12, <1>b DEF ServerGoes, UserRuns, ActiveInDispatch
    <3> QED
      BY <3>1, <3>2
  <2>3. reading \subseteq connections_
    BY <2>1 DEF MapInv, ReadersAreOpen, MapExact, TypeOK
  <2>4. Len(todo') >= 1 /\ todo'[1] = Call("TcpServerDestructor", acceptChannel_)
    <3>1. <<Call("TcpServerDestructor", acceptChannel_)>> \in Seq(AllCalls)
      BY CallTypes
    <3> QED
      BY <3>1, <2>1, <1>a, ConcatProperties
  <2>5. Destroying'
    BY <2>1, <2>3, <2>4 DEF Destroying, Call
  <2> QED
    BY <2>1, <2>2, <2>5, <1>b DEF NobodyLeft, ActiveInDispatch
<1>13. CASE EventLoopDestructor
  BY <1>13, <1>b DEF EventLoopDestructor, NobodyLeft
<1>14. CASE Quit
  BY <1>14, <1>b, NobodyStutters DEF Quit
<1>15. ASSUME NEW p \in Peers, \/ ShutdownSelf(p) \/ Keep(p) \/ Drop(p)
                               \/ PeerConnects(p) \/ PeerCloses(p)
       PROVE  NobodyLeft'
  BY <1>15, <1>b, NobodyStutters DEF ShutdownSelf, Keep, Drop, PeerConnects, PeerCloses
<1>16. CASE UNCHANGED vars
  BY <1>16, <1>b, NobodyStutters DEF vars
<1> QED
  BY <1>1, <1>2, <1>3, <1>4, <1>5, <1>6, <1>7, <1>8, <1>9, <1>10, <1>11, <1>12, <1>13,
     <1>14, <1>15, <1>16 DEF Next, LoopStep, UserStep, PeerStep

\* So both hold throughout.
LEMMA DispatchInvHolds == Spec => []DispatchInv
<1>1. Init => DispatchInv
  BY DEF Init, DispatchInv, ActiveInDispatch, NobodyLeft
<1>2. TypeOK /\ MapInv /\ DispatchInv /\ [Next]_vars => DispatchInv'
  BY ActiveInDispatchStep, NobodyLeftStep DEF DispatchInv
<1> QED
  BY <1>1, <1>2, TcpServerTypeCorrect, MapInvHolds, PTL DEF Spec

\* Unless a handler destroyed the server, it is alive while there is something to
\* dispatch; then acceptor and open connections are there.
LEMMA DispatchInvFinds == TypeOK /\ MapInv /\ DispatchInv => DispatchFindsChannel
<1> SUFFICES ASSUME TypeOK, MapInv, DispatchInv, "inHandler" \notin anomalies,
                    NEW ch \in active
             PROVE  Exists(ch)
  BY DEF DispatchFindsChannel
<1>1. server = "alive"
  BY DEF DispatchInv, NobodyLeft
<1>2. CASE ch = acceptChannel_
  BY <1>1, <1>2 DEF MapInv, ReadersAreOpen, Exists
<1>3. CASE ch \in Peers
  BY <1>1, <1>3, TcpServerAssumption
     DEF MapInv, ReadersAreOpen, MapExact, Exists, Alive, Owned, Open
<1> QED
  BY <1>2, <1>3 DEF TypeOK, Channels

\* Every channel left to dispatch belongs to an object that is there, unless the user
\* destroyed the server in a handler: whoever closes, removes, or drops the last pointer
\* a thread kept.
THEOREM DispatchedExists == Spec => []DispatchFindsChannel
BY TcpServerTypeCorrect, MapInvHolds, DispatchInvHolds, DispatchInvFinds, PTL

-----------------------------------------------------------------------------
(* The asserts, and what is called while it is there *)

\* The calls that are still to take the channel of p off the loop.
Ending(p) == {Call("removeConnection", p), Call("connectDestroyed", p), Call("remove", p)}

\* Somebody will: the server finds p in its map, or a call is on its way.
Removal(p) == \/ p \in connections_
              \/ Ending(p) \cap (Range(todo) \cup Range(pendingFunctors_)) # {}

\* Where a call of todo stands.  Removals come from handlers, and only a handler that
\* destroys the server makes one too late; ~TcpServer under a handler and a listen() of a
\* dead acceptor are what anomalies is about; a channel that is to be removed reads only
\* if its connection was shut down, and the server is on its way out.
Listens(c) == c.of = acceptChannel_ /\ (server = "alive" \/ "lateListen" \in anomalies)
InPlace(c) ==
  /\ c.call = "removeConnection" =>
       phase = "dispatch" /\ (server = "alive" \/ "inHandler" \in anomalies)
  /\ c.call = "TcpServerDestructor" => phase # "dispatch" \/ "inHandler" \in anomalies
  /\ c.call = "listen" => Listens(c)
  /\ c.call = "remove" /\ c.of \in reading =>
       server # "alive" /\ state_[c.of] = "kDisconnecting"

\* Of the functors, those that destroy a connection do not outlast the round of the loop
\* that queued them.
InQueue(c) ==
  /\ c.call = "connectDestroyed" => phase = "dispatch"
  /\ c.call = "listen" => Listens(c)

CallsInPlace ==
  /\ \A c \in Range(todo) : InPlace(c)
  /\ \A c \in Range(pendingFunctors_) : InQueue(c)

ConnectionsKnown ==
  /\ \A p \in reading : Open(p)
  /\ \A p \in connections_ : Created(p)

AllRemoved == crashed = "no" => \A p \in added : Removal(p)

EndInv == ConnectionsKnown /\ CallsInPlace /\ AllRemoved /\ CrashesExplained

\* The head of todo leaves other calls: the calls of todo, as sets.
LEMMA LeavesRange ==
  ASSUME todo \in Seq(AllCalls), todo # <<>>, NEW calls \in Seq(AllCalls), Leaves(calls)
  PROVE  /\ Range(todo') = Range(calls) \cup Range(Tail(todo))
         /\ Range(todo) = {Head(todo)} \cup Range(Tail(todo))
BY RangeLeft DEF Leaves

\* A channel that will be removed still has an owner: ~Channel does not run yet.
LEMMA RemovalOwned == \A p : Removal(p) => Owned(p)
<1> SUFFICES ASSUME NEW p, Removal(p) PROVE Owned(p)
  OBVIOUS
<1>1. CASE p \in connections_
  BY <1>1 DEF Owned
<1>2. ASSUME NEW c \in Ending(p), c \in Range(todo) PROVE Owned(p)
  <2>1. c.of = p
    BY DEF Ending, Call
  <2>2. Mentions(todo, p)
    BY <1>2, <2>1 DEF Range, Mentions
  <2> QED
    BY <2>2 DEF Owned
<1>3. ASSUME NEW c \in Ending(p), c \in Range(pendingFunctors_) PROVE Owned(p)
  <2>1. c.of = p
    BY DEF Ending, Call
  <2>2. Mentions(pendingFunctors_, p)
    BY <1>3, <2>1 DEF Range, Mentions
  <2> QED
    BY <2>2 DEF Owned
<1> QED
  BY <1>1, <1>2, <1>3 DEF Removal

\* A call stays in its place while server and phase stay, and nobody starts to read.
LEMMA StaysInPlace ==
  ASSUME phase' = phase, server' = server, anomalies' = anomalies,
         reading' \subseteq reading,
         \A p \in reading' : state_[p] = "kDisconnecting" => state_'[p] = "kDisconnecting"
  PROVE  /\ \A c : InPlace(c) => InPlace(c)'
         /\ \A c : InQueue(c) => InQueue(c)'
BY DEF InPlace, InQueue, Listens

\* Steps that touch neither connections nor calls, and change the phase only between
\* two rounds.
LEMMA EndIdles ==
  ASSUME EndInv,
         UNCHANGED <<server, connections_, state_, reading, added, todo, pendingFunctors_,
                     crashed, anomalies>>,
         phase' = phase \/ (todo = <<>> /\ phase # "dispatch")
  PROVE  EndInv'
<1>1. ConnectionsKnown' /\ CrashesExplained'
  BY DEF EndInv, ConnectionsKnown, Open, Created, CrashesExplained
<1>2. AllRemoved'
  BY DEF EndInv, AllRemoved, Removal
<1>3. ASSUME NEW c \in Range(todo)' PROVE InPlace(c)'
  <2>1. c \in Range(todo) /\ phase' = phase
    BY RangeFew
  <2> QED
    BY <2>1 DEF EndInv, CallsInPlace, InPlace, Listens
<1>4. ASSUME NEW c \in Range(pendingFunctors_)' PROVE InQueue(c)'
  BY DEF EndInv, CallsInPlace, InQueue, Listens
<1> QED
  BY <1>1, <1>2, <1>3, <1>4 DEF EndInv, CallsInPlace

\* What is removed stays so while map and calls lose nothing that removes it.
LEMMA RemovalStays ==
  ASSUME NEW p, Removal(p), p \in connections_ => Removal(p)',
         \A c \in Ending(p) \cap Range(todo) : Removal(p)',
         Range(pendingFunctors_) \subseteq Range(todo') \cup Range(pendingFunctors_')
  PROVE  Removal(p)'
<1>1. Ending(p)' = Ending(p)
  BY DEF Ending, Call
<1> QED
  BY <1>1 DEF Removal

\* Accepting: the new connection is open, and in the map, from which its name, being
\* new, strikes nobody.
LEMMA EndAccepts ==
  ASSUME TypeOK, MapInv, EndInv, AcceptorHandleRead PROVE EndInv'
<1>1. /\ UNCHANGED <<server, phase, pendingFunctors_, crashed, anomalies>> /\ todo = <<>>
  BY DEF AcceptorHandleRead, Dispatches, fate, others
<1>2. CASE UNCHANGED <<mapVars, connVars, todo>>
  BY <1>1, <1>2, EndIdles DEF mapVars, connVars
<1>3. ASSUME NEW p \in Peers, p \in waiting, NewConnection(p) PROVE EndInv'
  <2>1. /\ ~Created(p)
        /\ \A q \in Peers : state_'[q] = IF q = p THEN "kConnected" ELSE state_[q]
        /\ reading' = reading \cup {p} /\ added' = added \cup {p}
        /\ connections_' = Erased(nextConnId_) \cup {p}
        /\ todo' = <<Call("connectionCallback_", p)>>
    BY <1>3 DEF MapInv, NamesFresh, NewConnection, ConnectEstablished, TypeOK
  <2>2. \A q \in connections_ : q \in Peers /\ Created(q) /\ name_[q] # nextConnId_
    BY DEF EndInv, ConnectionsKnown, MapInv, NamesFresh, TypeOK
  <2>3. connections_' = connections_ \cup {p}
    BY <2>1, <2>2 DEF Erased
  <2>4. ConnectionsKnown'
    BY <2>1, <2>2, <2>3 DEF EndInv, ConnectionsKnown, Open, Created, TypeOK
  <2>5. CrashesExplained'
    <3>1. \A q \in reading : q \in Peers /\ state_'[q] = state_[q]
      BY <2>1 DEF EndInv, ConnectionsKnown, Open, Created, TypeOK
    <3> QED
      BY <1>1, <2>1, <3>1 DEF EndInv, CrashesExplained
  <2>6. Range(todo) = {} /\ Range(todo') = {Call("connectionCallback_", p)}
    BY <1>1, <2>1, RangeFew
  <2>7. AllRemoved'
    BY <1>1, <2>1, <2>3, <2>6 DEF EndInv, AllRemoved, Removal, Ending, Call
  <2>8. CallsInPlace'
    BY <1>1, <2>6 DEF EndInv, CallsInPlace, InPlace, InQueue, Listens, Call
  <2> QED
    BY <2>4, <2>5, <2>7, <2>8 DEF EndInv
<1>4. \/ UNCHANGED <<mapVars, connVars, todo>>
      \/ \E p \in waiting : NewConnection(p)
  BY DEF AcceptorHandleRead, Accept
<1> QED
  BY <1>2, <1>3, <1>4 DEF TypeOK

\* Reading: the removal that a close leaves is in a handler, and a server that is not
\* alive while channels are dispatched was destroyed in one.
LEMMA EndReads ==
  ASSUME TypeOK, DispatchInv, EndInv, crashed = "no", NEW p \in Peers, HandleRead(p)
  PROVE  EndInv'
<1>1. /\ UNCHANGED <<server, connections_, phase, pendingFunctors_, crashed, anomalies>>
      /\ todo = <<>> /\ phase = "dispatch" /\ active # {}
  BY DEF HandleRead, Dispatches, serverVars, mapVars, fate, others
<1>2. server = "alive" \/ "inHandler" \in anomalies
  BY <1>1 DEF DispatchInv, NobodyLeft
<1>3. Range(todo) = {}
  BY <1>1, RangeFew
<1>4. CASE todo' = <<Call("messageCallback_", p)>> /\ UNCHANGED <<state_, reading, added>>
  <2>1. ConnectionsKnown' /\ CrashesExplained'
    BY <1>1, <1>4 DEF EndInv, ConnectionsKnown, Open, Created, CrashesExplained
  <2>2. Range(todo') = {Call("messageCallback_", p)}
    BY <1>4, RangeFew
  <2>3. AllRemoved'
    BY <1>1, <1>3, <1>4 DEF EndInv, AllRemoved, Removal, Ending, Call
  <2>4. CallsInPlace'
    BY <1>1, <2>2 DEF EndInv, CallsInPlace, InPlace, InQueue, Listens, Call
  <2> QED
    BY <2>1, <2>3, <2>4 DEF EndInv
<1>5. CASE HandleClose(p)
  <2>1. /\ \A q \in Peers : state_'[q] = IF q = p THEN "kDisconnected" ELSE state_[q]
        /\ reading' = reading \ {p} /\ added' = added \cup {p}
        /\ todo' = <<Call("connectionCallback_", p), Call("removeConnection", p)>>
    BY <1>5 DEF HandleClose, DisableAll, TypeOK
  <2>2. ConnectionsKnown'
    BY <1>1, <2>1 DEF EndInv, ConnectionsKnown, Open, Created, TypeOK
  <2>3. CrashesExplained'
    BY <1>1 DEF CrashesExplained
  <2>4. Range(todo') = {Call("connectionCallback_", p), Call("removeConnection", p)}
    BY <2>1, RangeFew
  <2>5. AllRemoved'
    BY <1>1, <1>3, <2>1, <2>4 DEF EndInv, AllRemoved, Removal, Ending, Call
  <2>6. CallsInPlace'
    BY <1>1, <1>2, <2>4 DEF EndInv, CallsInPlace, InPlace, InQueue, Listens, Call
  <2> QED
    BY <2>2, <2>3, <2>5, <2>6 DEF EndInv
<1> QED
  BY <1>4, <1>5 DEF HandleRead

\* A channel that is gone is dispatched only under a server destroyed in a handler.
LEMMA EndMisses ==
  ASSUME DispatchFindsChannel, EndInv, NEW ch \in Channels, HandleEventGone(ch)
  PROVE  EndInv'
<1>1. /\ UNCHANGED <<server, connections_, state_, reading, added, todo, pendingFunctors_,
                     phase, anomalies>>
      /\ crashed' = "noChannel" /\ ch \in active /\ ~Exists(ch)
  BY DEF HandleEventGone, Dispatches, objects, serverVars, mapVars, connVars, others
<1>2. "inHandler" \in anomalies
  BY <1>1 DEF DispatchFindsChannel
<1>3. ConnectionsKnown' /\ CrashesExplained' /\ AllRemoved'
  BY <1>1, <1>2 DEF EndInv, ConnectionsKnown, Open, Created, CrashesExplained, AllRemoved
<1>4. CallsInPlace'
  BY <1>1, StaysInPlace DEF EndInv, CallsInPlace
<1> QED
  BY <1>3, <1>4 DEF EndInv

\* removeConnection() under way in a living server: connectDestroyed() takes its place in
\* the queue, and the entry that goes from the map is that of the connection.  Under a
\* server that is gone it crashes.
LEMMA EndRemovesConnection ==
  ASSUME TypeOK, MapInv, EndInv, crashed = "no", NEW p \in Peers, RemoveConnection(p)
  PROVE  EndInv'
<1>1. /\ UNCHANGED <<server, state_, name_, reading, added, phase, anomalies>>
      /\ todo \in Seq(AllCalls) /\ <<>> \in Seq(AllCalls) /\ Leaves(<<>>)
      /\ todo # <<>> /\ Head(todo) = Call("removeConnection", p)
      /\ pendingFunctors_ \in Seq(FunctorCalls)
  BY DEF RemoveConnection, Does, serverVars, connVars, round, others, TypeOK, AllCalls,
         FunctorCalls
<1>2. PICK rest : /\ Range(todo) = {Call("removeConnection", p)} \cup rest
                  /\ Range(todo') = rest
  BY <1>1, LeavesRange, RangeFew
<1>3. phase = "dispatch" /\ (server = "alive" \/ "inHandler" \in anomalies)
  <2>1. InPlace(Call("removeConnection", p))
    BY <1>2 DEF EndInv, CallsInPlace
  <2> QED
    BY <2>1 DEF InPlace, Call
<1>4. \A c \in Range(todo') : InPlace(c)'
  BY <1>1, <1>2, StaysInPlace DEF EndInv, CallsInPlace
<1>5. CASE server = "alive"
  <2>1. /\ connections_' = Erased(name_[p]) /\ crashed' = crashed
        /\ pendingFunctors_' = Append(pendingFunctors_, Call("connectDestroyed", p))
    BY <1>5 DEF RemoveConnection
  <2>2. Range(pendingFunctors_') = Range(pendingFunctors_) \cup {Call("connectDestroyed", p)}
    BY <1>1, <2>1, CallTypes, RangeAppend
  <2>3. Created(p)
    <3>1. 1 \in DOMAIN todo /\ todo[1] = Call("removeConnection", p)
      BY <1>1
    <3> QED
      BY <3>1, <1>5 DEF MapInv, RemovalsDue, Call, Created
  <2>4. /\ connections_' \subseteq connections_
        /\ \A q \in connections_ : q = p \/ q \in connections_'
    BY <2>1, <2>3 DEF Erased, EndInv, ConnectionsKnown, MapInv, NamesFresh, TypeOK
  <2>5. ConnectionsKnown' /\ CrashesExplained'
    BY <1>1, <2>1, <2>4 DEF EndInv, ConnectionsKnown, Open, Created, CrashesExplained
  <2>6. CallsInPlace'
    <3>1. InQueue(Call("connectDestroyed", p))'
      BY <1>1, <1>3 DEF InQueue, Call
    <3>2. \A c \in Range(pendingFunctors_) : InQueue(c)'
      BY <1>1, StaysInPlace DEF EndInv, CallsInPlace
    <3> QED
      BY <1>4, <2>2, <3>1, <3>2 DEF CallsInPlace
  <2>7. AllRemoved'
    <3>1. Removal(p)'
      BY <2>2 DEF Removal, Ending, Call
    <3>2. \A q \in Peers : Removal(q) /\ q # p => Removal(q)'
      BY <1>2, <2>2, <2>4 DEF Removal, Ending, Call
    <3> QED
      BY <1>1, <3>1, <3>2 DEF EndInv, AllRemoved, TypeOK
  <2> QED
    BY <2>5, <2>6, <2>7 DEF EndInv
<1>6. CASE server # "alive"
  <2>1. crashed' = "noServer" /\ UNCHANGED <<connections_, pendingFunctors_>>
    BY <1>6 DEF RemoveConnection
  <2>2. ConnectionsKnown' /\ CrashesExplained' /\ AllRemoved'
    BY <1>1, <1>3, <1>6, <2>1
       DEF EndInv, ConnectionsKnown, Open, Created, CrashesExplained, AllRemoved
  <2>3. \A c \in Range(pendingFunctors_') : InQueue(c)'
    BY <1>1, <2>1, StaysInPlace DEF EndInv, CallsInPlace
  <2> QED
    BY <2>2, <2>3, <1>4 DEF EndInv, CallsInPlace
<1> QED
  BY <1>5, <1>6

\* connectDestroyed(): remove() takes its place.  A channel still reads then only when
\* the connection was shut down, and under a living server none is that has been closed.
LEMMA EndDestroys ==
  ASSUME TypeOK, MapInv, EndInv, crashed = "no", NEW p \in Peers, ConnectDestroyed(p)
  PROVE  EndInv'
<1>1. /\ UNCHANGED <<server, connections_, pendingFunctors_, phase, crashed, anomalies>>
      /\ todo \in Seq(AllCalls)
      /\ todo # <<>> /\ Head(todo) = Call("connectDestroyed", p)
  BY DEF ConnectDestroyed, Does, serverVars, mapVars, round, fate, others, TypeOK, AllCalls
<1>2. PICK calls \in {<<Call("connectionCallback_", p), Call("remove", p)>>,
                      <<Call("remove", p)>>} : Leaves(calls)
  BY DEF ConnectDestroyed
<1>3. PICK rest : /\ Range(todo) = {Call("connectDestroyed", p)} \cup rest
                  /\ Call("remove", p) \in Range(todo')
                  /\ rest \subseteq Range(todo')
                  /\ Range(todo') \subseteq {Call("connectionCallback_", p),
                                             Call("remove", p)} \cup rest
  <2>1. calls \in Seq(AllCalls)
    <3>1. /\ Call("connectionCallback_", p) \in AllCalls
          /\ Call("remove", p) \in AllCalls
      BY CallTypes
    <3>2. /\ <<Call("connectionCallback_", p), Call("remove", p)>> \in Seq(AllCalls)
          /\ <<Call("remove", p)>> \in Seq(AllCalls)
      BY <3>1
    <3> QED
      BY <3>2
  <2>2. \/ Range(calls) = {Call("connectionCallback_", p), Call("remove", p)}
        \/ Range(calls) = {Call("remove", p)}
    BY <1>2, RangeFew
  <2> QED
    BY <1>1, <1>2, <2>1, <2>2, LeavesRange
<1>4. /\ added' \in {added, added \cup {p}} /\ reading' \in {reading, reading \ {p}}
      /\ \A q \in Peers : q # p => state_'[q] = state_[q]
      /\ p \in reading' => UNCHANGED state_ /\ state_[p] # "kConnected"
      /\ Created(p) => Created(p)'
      /\ state_[p] # "kConnected" => UNCHANGED <<state_, reading>>
  BY DEF ConnectDestroyed, DisableAll, TypeOK, Created
<1>5. ConnectionsKnown' /\ CrashesExplained'
  BY <1>1, <1>4 DEF EndInv, ConnectionsKnown, Open, Created, CrashesExplained, TypeOK
<1>6. /\ \A c : InPlace(c) => InPlace(c)'
      /\ \A c : InQueue(c) => InQueue(c)'
  <2>1. \A q \in reading' : q \in Peers
    BY <1>4 DEF TypeOK
  <2>2. \A q \in reading' : state_'[q] = state_[q]
    BY <1>4, <2>1
  <2>3. reading' \subseteq reading
    BY <1>4
  <2> QED
    BY <1>1, <2>2, <2>3, StaysInPlace
<1>7. InPlace(Call("remove", p))'
  <2>1. ASSUME p \in reading' PROVE server # "alive" /\ state_'[p] = "kDisconnecting"
    <3>1. p \in reading /\ state_'[p] = state_[p] /\ state_[p] # "kConnected"
      BY <1>4, <2>1
    <3>2. state_[p] = "kDisconnecting"
      BY <3>1 DEF EndInv, ConnectionsKnown, Open
    <3>3. 1 \in DOMAIN todo /\ todo[1] = Call("connectDestroyed", p)
      BY <1>1
    <3>4. server # "alive"
      BY <3>2, <3>3 DEF MapInv, RemovalsDue, Call
    <3> QED
      BY <3>1, <3>2, <3>4
  <2> QED
    BY <1>1, <2>1 DEF InPlace, Call
<1>8. InPlace(Call("connectionCallback_", p))'
  BY DEF InPlace, Call
<1>9. CallsInPlace'
  BY <1>1, <1>3, <1>6, <1>7, <1>8 DEF EndInv, CallsInPlace
<1>10. AllRemoved'
  <2>1. Removal(p)'
    BY <1>3 DEF Removal, Ending
  <2>2. \A q \in Peers : Removal(q) /\ q # p => Removal(q)'
    BY <1>1, <1>3 DEF Removal, Ending, Call
  <2> QED
    BY <1>1, <1>4, <2>1, <2>2 DEF EndInv, AllRemoved, TypeOK
<1> QED
  BY <1>5, <1>9, <1>10 DEF EndInv

\* remove(): the channel is off the loop; one that reads fails the assert.
LEMMA EndRemoves ==
  ASSUME TypeOK, EndInv, crashed = "no", NEW p \in Peers, Remove(p) PROVE EndInv'
<1>1. /\ UNCHANGED <<server, connections_, state_, reading, pendingFunctors_, phase,
                     anomalies>>
      /\ todo \in Seq(AllCalls) /\ <<>> \in Seq(AllCalls) /\ Leaves(<<>>)
      /\ todo # <<>> /\ Head(todo) = Call("remove", p)
      /\ \/ p \in reading /\ crashed' = "isNoneEvent" /\ added' = added
         \/ p \notin reading /\ crashed' = crashed /\ added' = added \ {p}
  BY DEF Remove, Does, serverVars, mapVars, round, others, TypeOK, AllCalls
<1>2. PICK rest : Range(todo) = {Call("remove", p)} \cup rest /\ Range(todo') = rest
  BY <1>1, LeavesRange, RangeFew
<1>3. p \in reading => server # "alive" /\ state_[p] = "kDisconnecting"
  <2>1. InPlace(Call("remove", p))
    BY <1>2 DEF EndInv, CallsInPlace
  <2> QED
    BY <2>1 DEF InPlace, Call
<1>4. ConnectionsKnown' /\ CrashesExplained'
  BY <1>1, <1>3 DEF EndInv, ConnectionsKnown, Open, Created, CrashesExplained
<1>5. CallsInPlace'
  BY <1>1, <1>2, StaysInPlace DEF EndInv, CallsInPlace
<1>6. AllRemoved'
  <2>1. \A q \in Peers : Removal(q) /\ q # p => Removal(q)'
    BY <1>1, <1>2 DEF Removal, Ending, Call
  <2> QED
    BY <1>1, <2>1 DEF EndInv, AllRemoved, TypeOK
<1> QED
  BY <1>4, <1>5, <1>6 DEF EndInv

\* A callback returns.
LEMMA EndReturns ==
  ASSUME TypeOK, EndInv, NEW p \in Peers, UserReturns(p) PROVE EndInv'
<1>1. /\ UNCHANGED <<server, connections_, state_, reading, added, pendingFunctors_, phase,
                     crashed, anomalies>>
      /\ todo \in Seq(AllCalls) /\ <<>> \in Seq(AllCalls) /\ Leaves(<<>>)
      /\ todo # <<>> /\ Head(todo).call \in UserCallbacks
  BY DEF UserReturns, Does, Call, objects, serverVars, mapVars, connVars, round, fate,
         others, TypeOK, AllCalls
<1>2. Range(todo) = {Head(todo)} \cup Range(todo')
  BY <1>1, LeavesRange, RangeFew
<1>3. ConnectionsKnown' /\ CrashesExplained'
  BY <1>1 DEF EndInv, ConnectionsKnown, Open, Created, CrashesExplained
<1>4. CallsInPlace'
  BY <1>1, <1>2, StaysInPlace DEF EndInv, CallsInPlace
<1>5. AllRemoved'
  <2>1. \A q : Head(todo) \notin Ending(q)
    BY <1>1 DEF Ending, Call, UserCallbacks
  <2>2. \A q : Removal(q) => Removal(q)'
    BY <1>1, <1>2, <2>1 DEF Removal, Ending, Call
  <2> QED
    BY <1>1, <2>2 DEF EndInv, AllRemoved
<1> QED
  BY <1>3, <1>4, <1>5 DEF EndInv

\* The acceptor listens, if it is there: it is, unless the server was destroyed before
\* the functor ran.
LEMMA EndListens ==
  ASSUME TypeOK, MapInv, EndInv, crashed = "no", ListenInLoop PROVE EndInv'
<1>1. /\ UNCHANGED <<server, connections_, state_, reading, added, pendingFunctors_, phase,
                     anomalies>>
      /\ todo \in Seq(AllCalls) /\ <<>> \in Seq(AllCalls) /\ Leaves(<<>>)
      /\ todo # <<>> /\ Head(todo) = Call("listen", acceptChannel_)
      /\ \/ crashed' = crashed
         \/ acceptor = "gone" /\ crashed' = "noAcceptor"
  BY DEF ListenInLoop, Does, mapVars, connVars, round, others, TypeOK, AllCalls
<1>2. Range(todo) = {Head(todo)} \cup Range(todo')
  BY <1>1, LeavesRange, RangeFew
<1>3. server = "alive" \/ "lateListen" \in anomalies
  <2>1. InPlace(Call("listen", acceptChannel_))
    BY <1>1, <1>2 DEF EndInv, CallsInPlace
  <2> QED
    BY <2>1 DEF InPlace, Listens, Call
<1>4. ConnectionsKnown' /\ CrashesExplained'
  BY <1>1, <1>3
     DEF EndInv, ConnectionsKnown, Open, Created, CrashesExplained, MapInv, ReadersAreOpen
<1>5. CallsInPlace'
  BY <1>1, <1>2, StaysInPlace DEF EndInv, CallsInPlace
<1>6. AllRemoved'
  <2>1. \A q : Head(todo) \notin Ending(q)
    BY <1>1 DEF Ending, Call
  <2>2. \A q : Removal(q) => Removal(q)'
    BY <1>1, <1>2, <2>1 DEF Removal, Ending, Call
  <2> QED
    BY <1>1, <2>2 DEF EndInv, AllRemoved
<1> QED
  BY <1>4, <1>5, <1>6 DEF EndInv

\* ~TcpServer: who leaves the map is destroyed next; ~Acceptor comes under the handler of
\* the acceptor only in a handler.
LEMMA EndDestructs ==
  ASSUME TypeOK, MapInv, EndInv, crashed = "no", TcpServerDestructor PROVE EndInv'
<1> DEFINE Destructor == Call("TcpServerDestructor", acceptChannel_)
<1>1. /\ UNCHANGED <<state_, reading, added, pendingFunctors_, phase, anomalies>>
      /\ todo \in Seq(AllCalls) /\ <<>> \in Seq(AllCalls)
      /\ todo # <<>> /\ Head(todo) = Destructor
  BY DEF TcpServerDestructor, Does, connVars, round, others, TypeOK, AllCalls
<1>2. Range(todo) = {Destructor} \cup Range(Tail(todo))
  BY <1>1, RangeLeft
<1>3. server # "alive"
  <2>1. 1 \in DOMAIN todo /\ todo[1] = Destructor
    BY <1>1
  <2> QED
    BY <2>1 DEF MapInv, RemovalsDue, Call
<1>4. phase = "dispatch" => "inHandler" \in anomalies
  <2>1. InPlace(Destructor)
    BY <1>2 DEF EndInv, CallsInPlace
  <2> QED
    BY <2>1 DEF InPlace, Call
<1>5. \A q : Destructor \notin Ending(q)
  BY DEF Ending, Call
<1>6. ASSUME server' # "alive"
      PROVE  (\A c : InPlace(c) => InPlace(c)') /\ (\A c : InQueue(c) => InQueue(c)')
  BY <1>1, <1>3, <1>6 DEF InPlace, InQueue, Listens
<1> HIDE DEF Destructor
<1>7. ASSUME NEW p \in connections_, connections_' = connections_ \ {p},
             Leaves(<<Call("connectDestroyed", p), Head(todo)>>),
             server' = server, crashed' = crashed
      PROVE  EndInv'
  <2>1. Range(todo') = {Call("connectDestroyed", p), Destructor} \cup Range(todo)
    <3>1. <<Call("connectDestroyed", p), Head(todo)>> \in Seq(AllCalls)
      <4>1. Call("connectDestroyed", p) \in AllCalls /\ Head(todo) \in AllCalls
        BY <1>1, CallTypes DEF TypeOK
      <4> QED
        BY <4>1
    <3>2. Range(todo') = Range(<<Call("connectDestroyed", p), Head(todo)>>)
                           \cup Range(Tail(todo))
      BY <1>1, <1>7, <3>1, LeavesRange
    <3>3. Range(<<Call("connectDestroyed", p), Head(todo)>>)
            = {Call("connectDestroyed", p), Head(todo)}
      BY RangeFew
    <3> QED
      BY <1>1, <1>2, <3>2, <3>3
  <2>2. ConnectionsKnown' /\ CrashesExplained'
    BY <1>1, <1>7 DEF EndInv, ConnectionsKnown, Open, Created, CrashesExplained
  <2>3. CallsInPlace'
    <3>1. InPlace(Call("connectDestroyed", p))'
      BY DEF InPlace, Call
    <3> QED
      BY <1>1, <1>2, <1>3, <1>6, <1>7, <2>1, <3>1 DEF EndInv, CallsInPlace
  <2>4. AllRemoved'
    <3>1. Removal(p)'
      BY <2>1 DEF Removal, Ending
    <3>2. \A q : Removal(q) /\ q # p => Removal(q)'
      BY <1>1, <1>7, <2>1 DEF Removal, Ending, Call
    <3> QED
      BY <1>1, <1>7, <3>1, <3>2 DEF EndInv, AllRemoved
  <2> QED
    BY <2>2, <2>3, <2>4 DEF EndInv
<1>8. ASSUME connections_' = connections_, server' = "gone", Leaves(<<>>),
             crashed' \in {crashed, "eventHandling"},
             crashed' = "eventHandling" => phase = "dispatch"
      PROVE  EndInv'
  <2>1. Range(todo') = Range(Tail(todo))
    BY <1>1, <1>8, LeavesRange, RangeFew
  <2>2. ConnectionsKnown' /\ CrashesExplained'
    BY <1>1, <1>3, <1>4, <1>8 DEF EndInv, ConnectionsKnown, Open, Created, CrashesExplained
  <2>3. CallsInPlace'
    BY <1>1, <1>2, <1>6, <1>8, <2>1 DEF EndInv, CallsInPlace
  <2>4. AllRemoved'
    <3>1. \A q : Removal(q) => Removal(q)'
      BY <1>1, <1>2, <1>5, <1>8, <2>1 DEF Removal, Ending, Call
    <3> QED
      BY <1>1, <1>8, <3>1 DEF EndInv, AllRemoved
  <2> QED
    BY <2>2, <2>3, <2>4 DEF EndInv
<1>9. \/ \E p \in connections_ : /\ connections_' = connections_ \ {p}
                                 /\ Leaves(<<Call("connectDestroyed", p), Head(todo)>>)
                                 /\ server' = server /\ crashed' = crashed
      \/ /\ connections_' = connections_ /\ server' = "gone" /\ Leaves(<<>>)
         /\ crashed' = IF Handling(acceptChannel_) THEN "eventHandling" ELSE crashed
  BY DEF TcpServerDestructor, AcceptorDestructor
<1> QED
  BY <1>7, <1>8, <1>9 DEF Handling

\* What is queued are functors.
LEMMA QueuedFunctors ==
  ASSUME TypeOK PROVE \A c \in Range(pendingFunctors_) : c.call \in Functors
<1>1. pendingFunctors_ \in Seq(FunctorCalls)
  BY DEF TypeOK, FunctorCalls
<1>2. ASSUME NEW c \in Range(pendingFunctors_) PROVE c \in FunctorCalls
  BY <1>1 DEF Range
<1> QED
  BY <1>2 DEF FunctorCalls

\* The batch of functors is the queue.
LEMMA EndTakesFunctors ==
  ASSUME TypeOK, EndInv, DoPendingFunctors PROVE EndInv'
<1>1. /\ UNCHANGED <<server, connections_, state_, reading, added, crashed, anomalies>>
      /\ todo = <<>> /\ todo' = pendingFunctors_ /\ pendingFunctors_' = <<>>
      /\ phase' = "functors"
  BY DEF DoPendingFunctors, objects, serverVars, mapVars, connVars, fate, others
<1>2. /\ Range(todo) = {} /\ Range(todo') = Range(pendingFunctors_)
      /\ Range(pendingFunctors_') = {}
  BY <1>1, RangeFew
<1>3. ConnectionsKnown' /\ CrashesExplained'
  BY <1>1 DEF EndInv, ConnectionsKnown, Open, Created, CrashesExplained
<1>4. \A c \in Range(pendingFunctors_) : c.call \in Functors
  BY QueuedFunctors
<1>5. ASSUME NEW c \in Range(pendingFunctors_) PROVE InPlace(c)'
  <2>1. InQueue(c) /\ c.call \in Functors
    BY <1>4 DEF EndInv, CallsInPlace
  <2> QED
    BY <1>1, <2>1 DEF InPlace, InQueue, Listens, Functors
<1>6. CallsInPlace'
  BY <1>2, <1>5 DEF CallsInPlace
<1>7. AllRemoved'
  BY <1>1, <1>2 DEF EndInv, AllRemoved, Removal, Ending, Call
<1> QED
  BY <1>3, <1>6, <1>7 DEF EndInv

\* ~EventLoop drops its functors, and none of them destroys a connection.
LEMMA EndDrops ==
  ASSUME TypeOK, EndInv, EventLoopDestructor PROVE EndInv'
<1>1. /\ UNCHANGED <<server, connections_, state_, reading, added, todo, crashed,
                     anomalies>>
      /\ todo = <<>> /\ pendingFunctors_' = <<>> /\ phase = "exited"
  BY DEF EventLoopDestructor, objects, serverVars, mapVars, connVars, fate, others
<1>2. Range(todo') = {} /\ Range(todo) = {} /\ Range(pendingFunctors_') = {}
  BY <1>1, RangeFew
<1>3. ConnectionsKnown' /\ CrashesExplained' /\ CallsInPlace'
  BY <1>1, <1>2 DEF EndInv, ConnectionsKnown, Open, Created, CrashesExplained, CallsInPlace
<1>4. ASSUME NEW q, Removal(q) PROVE Removal(q)'
  <2>1. ASSUME NEW c \in Range(pendingFunctors_) PROVE c.call = "listen"
    <3>1. InQueue(c) /\ c.call \in Functors
      BY QueuedFunctors DEF EndInv, CallsInPlace
    <3> QED
      BY <1>1, <3>1 DEF InQueue, Functors
  <2>2. \A c \in Ending(q) : c.call # "listen"
    BY DEF Ending, Call
  <2>3. q \in connections_
    BY <1>2, <1>4, <2>1, <2>2 DEF Removal
  <2> QED
    BY <1>1, <2>3 DEF Removal
<1>5. AllRemoved'
  BY <1>1, <1>4 DEF EndInv, AllRemoved
<1> QED
  BY <1>3, <1>5 DEF EndInv

\* start() on another thread queues a listen() for a server that is alive.
LEMMA EndStartsElsewhere ==
  ASSUME TypeOK, EndInv, StartElsewhere PROVE EndInv'
<1>1. /\ UNCHANGED <<server, connections_, state_, reading, added, todo, phase, crashed,
                     anomalies>>
      /\ server = "alive"
      /\ pendingFunctors_' \in {pendingFunctors_,
           Append(pendingFunctors_, Call("listen", acceptChannel_))}
  BY DEF StartElsewhere, mapVars, connVars, round, fate, others
<1>2. /\ Range(pendingFunctors_) \subseteq Range(pendingFunctors_')
      /\ Range(pendingFunctors_') \subseteq
           Range(pendingFunctors_) \cup {Call("listen", acceptChannel_)}
  <2>1. pendingFunctors_ \in Seq(FunctorCalls)
    BY DEF TypeOK, FunctorCalls
  <2>2. Call("listen", acceptChannel_) \in FunctorCalls
    BY CallTypes
  <2>3. Range(Append(pendingFunctors_, Call("listen", acceptChannel_)))
          = Range(pendingFunctors_) \cup {Call("listen", acceptChannel_)}
    BY <2>1, <2>2, RangeAppend
  <2> QED
    BY <1>1, <2>3
<1>3. ConnectionsKnown' /\ CrashesExplained'
  BY <1>1 DEF EndInv, ConnectionsKnown, Open, Created, CrashesExplained
<1>4. CallsInPlace'
  <2>1. InQueue(Call("listen", acceptChannel_))'
    BY <1>1 DEF InQueue, Listens, Call
  <2> QED
    BY <1>1, <1>2, <2>1, StaysInPlace DEF EndInv, CallsInPlace
<1>5. AllRemoved'
  BY <1>1, <1>2 DEF EndInv, AllRemoved, Removal, Ending, Call
<1> QED
  BY <1>3, <1>4, <1>5 DEF EndInv

\* The destruction of the server starts: what makes it too early is remembered.
LEMMA EndServerGoes ==
  ASSUME TypeOK, EndInv, crashed = "no", ServerGoes PROVE EndInv'
<1> DEFINE Destructor == Call("TcpServerDestructor", acceptChannel_)
<1>1. /\ UNCHANGED <<connections_, state_, reading, added, pendingFunctors_, phase,
                     crashed>>
      /\ server = "alive" /\ server' = "dying" /\ todo' = <<Destructor>> \o todo
      /\ anomalies \subseteq anomalies'
      /\ phase = "dispatch" => "inHandler" \in anomalies'
      /\ Mentions(todo \o pendingFunctors_, acceptChannel_) => "lateListen" \in anomalies'
      /\ todo \in Seq(AllCalls) /\ pendingFunctors_ \in Seq(AllCalls)
  BY CallTypes DEF ServerGoes, mapVars, connVars, round, TypeOK, AllCalls, FunctorCalls
<1>2. Range(todo') = {Destructor} \cup Range(todo)
  <2>1. <<Destructor>> \in Seq(AllCalls)
    BY CallTypes
  <2>2. Range(<<Destructor>> \o todo) = Range(<<Destructor>>) \cup Range(todo)
    BY <1>1, <2>1, RangeConcatenation
  <2>3. Range(<<Destructor>>) = {Destructor}
    BY RangeFew
  <2> QED
    BY <1>1, <2>2, <2>3
<1>3. ASSUME NEW c \in Range(todo) \cup Range(pendingFunctors_), c.of = acceptChannel_
      PROVE  "lateListen" \in anomalies'
  <2>1. c \in Range(todo \o pendingFunctors_)
    BY <1>1, RangeConcatenation
  <2>2. Mentions(todo \o pendingFunctors_, acceptChannel_)
    BY <1>3, <2>1 DEF Range, Mentions
  <2> QED
    BY <1>1, <2>2
<1>4. ConnectionsKnown' /\ CrashesExplained'
  BY <1>1 DEF EndInv, ConnectionsKnown, Open, Created, CrashesExplained
<1>5. ASSUME NEW c \in Range(todo) PROVE InPlace(c)'
  BY <1>1, <1>3 DEF EndInv, CallsInPlace, InPlace, Listens
<1>6. ASSUME NEW c \in Range(pendingFunctors_) PROVE InQueue(c)'
  BY <1>1, <1>3 DEF EndInv, CallsInPlace, InQueue, Listens
<1>7. InPlace(Destructor)'
  BY <1>1 DEF InPlace, Call
<1>8. CallsInPlace'
  BY <1>1, <1>2, <1>5, <1>6, <1>7 DEF CallsInPlace
<1>9. AllRemoved'
  BY <1>1, <1>2 DEF EndInv, AllRemoved, Removal, Ending, Call
<1> QED
  BY <1>4, <1>8, <1>9 DEF EndInv

\* shutdown() in a callback.
LEMMA EndShutsDown ==
  ASSUME TypeOK, EndInv, crashed = "no", NEW p \in Peers, ShutdownSelf(p) PROVE EndInv'
<1>1. /\ UNCHANGED <<server, connections_, reading, added, todo, pendingFunctors_, phase,
                     crashed, anomalies>>
      /\ \A q \in Peers : state_'[q] = IF q = p THEN "kDisconnecting" ELSE state_[q]
  BY DEF ShutdownSelf, serverVars, mapVars, round, loopVars, fate, others, TypeOK
<1>2. \A q \in reading : state_[q] = "kDisconnecting" => state_'[q] = "kDisconnecting"
  BY <1>1 DEF TypeOK
<1>3. ConnectionsKnown' /\ CrashesExplained'
  BY <1>1 DEF EndInv, ConnectionsKnown, Open, Created, CrashesExplained, TypeOK
<1>4. CallsInPlace'
  BY <1>1, <1>2, StaysInPlace DEF EndInv, CallsInPlace
<1>5. AllRemoved'
  BY <1>1 DEF EndInv, AllRemoved, Removal, Ending, Call
<1> QED
  BY <1>3, <1>4, <1>5 DEF EndInv

\* Every step preserves the invariant.
LEMMA EndInvStep == TypeOK /\ MapInv /\ DispatchInv /\ EndInv /\ [Next]_vars => EndInv'
<1> SUFFICES ASSUME TypeOK, MapInv, DispatchInv, EndInv, [Next]_vars PROVE EndInv'
  OBVIOUS
<1>1. CASE Loop \/ FunctorsDone \/ Poll
  BY <1>1, EndIdles
     DEF Loop, FunctorsDone, Poll, DispatchInv, ActiveInDispatch, objects, serverVars,
         mapVars, connVars, fate, others
<1>2. CASE Start
  BY <1>2, EndIdles
     DEF Start, SetThreadNum, PoolStartReturns, DispatchInv, ActiveInDispatch, mapVars,
         connVars, fate, others
<1>3. CASE Quit
  BY <1>3, EndIdles DEF Quit, objects, serverVars, mapVars, connVars, fate, others
<1>4. ASSUME NEW p \in Peers, Keep(p) \/ Drop(p) \/ PeerConnects(p) \/ PeerCloses(p)
      PROVE  EndInv'
  BY <1>4, EndIdles
     DEF Keep, Drop, PeerConnects, PeerCloses, objects, serverVars, mapVars, connVars,
         round, loopVars, fate, others
<1>5. CASE UNCHANGED vars
  BY <1>5, EndIdles
     DEF vars, objects, serverVars, mapVars, connVars, round, loopVars, fate, others
<1>6. ASSUME NEW ch \in Channels, HandleEventGone(ch) PROVE EndInv'
  BY <1>6, DispatchInvFinds, EndMisses
<1>7. ASSUME crashed = "no", ListenInLoop \/ TcpServerDestructor \/ ServerGoes
      PROVE  EndInv'
  BY <1>7, EndListens, EndDestructs, EndServerGoes
<1>8. CASE \/ AcceptorHandleRead \/ DoPendingFunctors \/ EventLoopDestructor
           \/ StartElsewhere
  BY <1>8, EndAccepts, EndTakesFunctors, EndDrops, EndStartsElsewhere
<1>9. ASSUME crashed = "no", NEW p \in Peers,
             \/ HandleRead(p) \/ RemoveConnection(p) \/ ConnectDestroyed(p) \/ Remove(p)
             \/ UserReturns(p) \/ ShutdownSelf(p)
      PROVE  EndInv'
  BY <1>9, EndReads, EndRemovesConnection, EndDestroys, EndRemoves, EndReturns,
     EndShutsDown
<1> QED
  BY <1>1, <1>2, <1>3, <1>4, <1>5, <1>6, <1>7, <1>8, <1>9
     DEF Next, LoopStep, UserStep, PeerStep, Running

\* No connection is destroyed with its channel still on the loop, whatever closes it and
\* whenever quit() comes; and where another assert of Channel fails, or something is
\* called that is gone, the user destroyed the server in a handler or under a queued
\* listen(), or a connection that was shut down was still open.
THEOREM AssertsExplained == Spec => []AssertsHold
<1>1. Init => EndInv
  <2>1. ASSUME Init PROVE Range(todo) = {} /\ Range(pendingFunctors_) = {}
    BY <2>1, RangeFew DEF Init
  <2> QED
    BY <2>1
       DEF Init, EndInv, ConnectionsKnown, CallsInPlace, AllRemoved, CrashesExplained
<1>2. TypeOK /\ MapInv /\ DispatchInv /\ EndInv /\ [Next]_vars => EndInv'
  BY EndInvStep
<1>3. EndInv => AssertsHold
  BY RemovalOwned DEF EndInv, AllRemoved, AssertsHold, RemovedFirst, DestroyedAdded
<1> QED
  BY <1>1, <1>2, <1>3, TcpServerTypeCorrect, MapInvHolds, DispatchInvHolds, PTL DEF Spec

=============================================================================
