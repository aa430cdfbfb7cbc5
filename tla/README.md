# MuduoCpp11 in TLA+

MuduoCpp11 is a C++11 reactor library for TCP servers after muduo: an event loop per
thread, a poller over epoll, channels that dispatch events to handlers, a byte buffer,
connections with asynchronous sending, and a server that accepts them. This directory
holds TLA+ modules of its components, configurations that check them with TLC, and
theorems about them that TLAPS proves.

All source references are to the files in `src/`.

## Reading the code

The tree does not compile as it stands. The modules model the program that is meant, where
a spelling leaves no doubt, and what the statements say everywhere else:

* Misspelt members are read as the declared ones: `loop`, `quit`, `wakeupFd`,
  `wakeupChannel` in `EventLoop.cpp` as `looping_`, `quit_`, ...; `poller_.poll` as
  `poller_->poll`; `channel->e   vents()` as `channel->events()`; `Acceptpr` as
  `Acceptor`, its `listening_` as `listenning_`; the braces of `Acceptor::handleRead`, and
  the `sem` that the lambda in `Thread::start` does not capture, as in muduo.
* What compiles but says something else than its comment is modelled as it stands:
  `std::unique_lock<std::mutex> lock()` in `EventLoopThread::threadFunc` declares a
  function and locks nothing; `startLoop` tests its local variable; `setThreadNum` assigns
  its parameter to itself; `writableBytes` subtracts `readerIndex_`; `doPendingFunctors`
  never clears its flag; the error callback of a connection is `handleClose`.
* What is left to chance is left to chance: `TcpServer::started_` has no initial value, and
  `Socket::accept` passes a length that has none. `createNonblocking` has no `return`; it
  is read as returning the descriptor, for otherwise there is no server to speak of.
* `LOG_FATAL` only logs: `__DEBUG__` is nowhere defined, and without it the macro returns.
* Asserts are active: `CMakeLists.txt` sets `-g` and no `NDEBUG`.

## Inventory

| Component | State | Operations | Interacts with |
|---|---|---|---|
| EventLoop | `looping_`, `quit_`, `callingPendingFunctors_`, `pendingFunctors_` (under `mutex_`), eventfd, `activeChannels_` | `loop`, `quit`, `runInLoop`, `queueInLoop`, `wakeup`, `handleRead`, `doPendingFunctors`, `updateChannel`, `removeChannel` | called by any thread; calls the poller, the channels' handlers, functors |
| Channel, Poller, EpollPoller | `events_`, `revents_`, `index_`, `addedToLoop_`, `tie_`; `channels_`, `events_` (result vector), the kernel's interest list | `enable*`/`disable*`, `remove`, `handleEvent`, `poll`, `updateChannel`, `removeChannel` | owner of the channel (loop, acceptor, connection), kernel |
| Buffer | `buffer_`, `readerIndex_`, `writeIndex_` | `append`, `readFd`, `writeFd`, `retrieve*` | connection, user callbacks |
| EventLoopThread, Thread | `loop_`, `mutex_`, `cond_`; `started_`, `tid_`, semaphore | `startLoop`, `threadFunc`, `start`, `join` | makes an EventLoop on its thread's stack |
| TcpConnection | `state_`, its channel, `inputBuffer_`, `outputBuffer_`, callbacks | `send`, `shutdown`, `connectEstablished`, `connectDestroyed`, `handleRead/Write/Close/Error` | loop, channel, server (close callback), user (four callbacks), user threads |
| TcpServer | `connections_`, `started_`, `nextConnId_` | `start`, `newConnection`, `removeConnection`, destructor | acceptor, pool, connections |
| Acceptor, Socket | `listening_`, accept channel | `listen`, `handleRead` | server (new connection callback) |
| EventLoopThreadPool | `loops_`, `threads_`, `next_`, `numThreads_` | `setThreadNum`, `start`, `getNextLoop` | EventLoopThread, server |
| Logger, Timestamp, InetAddress, CurrentThread, Callbacks, noncopyable | none that matters to behaviour | formatting, type names | everything |

How they interact: a loop thread sleeps in `EpollPoller::poll`, dispatches the channels it
reports, and then runs the functors other threads and its own handlers left. Everything
that touches a connection's buffers, its channel or the poller is brought onto the loop's
thread through `runInLoop`. Objects are kept alive by shared pointers in
`TcpServer::connections_`, in functors and, during dispatch, by the channel's `tie_`.

What is hard, and what makes each part correct:

* **EventLoop**: append and wake-up are two steps, the swap and the run of the functors are
  two more, and other threads may do anything in between. Correct when nothing handed over
  is lost, repeated or overtaken, the loop never sleeps on work, rounds are bounded, and
  `quit` ends the loop.
* **Channel and pollers**: four records of one fact (`events_`/`addedToLoop_`, `index_`,
  `channels_`, the kernel's list), raw pointers in the kernel, descriptors that are reused,
  handlers that change other channels in mid-dispatch. Correct when the records agree, no
  `epoll_ctl` fails, only live registered channels are dispatched, and nobody is starved.
* **Buffer**: index arithmetic at the borders between moving, growing and the stack buffer.
  Correct when bytes come out in order and no write leaves the vector.
* **EventLoopThread**: two hand-shakes between owner and thread. Correct when a published
  pointer is valid and both sides get on.
* **TcpConnection**: a state machine that `shutdown` on any thread, the peer, errors and the
  server's end race for; partial writes; callbacks in order; a life time spread over
  functors and threads.
* **TcpServer, Acceptor, pool**: several connections on one loop; a map that changes while
  events are dispatched; descriptors that run out.

The hazards are listed one by one, with their lines, in `PROJECT.json`.

## Modules

### EventLoop, SerialExecutor

`EventLoop.tla` is one loop, the thread that runs it and `Threads` that call `queueInLoop`
and `quit`. `loopPc` is the place in `loop()`: before it (`idle`), the test of `quit_`
(`while`), `epoll_wait` (`poll`), between handlers (`dispatch`), in one (`handler`), between
functors (`functors`), in one (`functor`), returned (`exited`). Another thread's `pc` is
`wakeup` between its change (append or `quit_ = true`) and its write to the eventfd. In a
handler or functor the loop thread may itself call `queueInLoop`, `runInLoop` or `quit`.
The eventfd is a counter that saturates at `MaxEventfd`, where `write` fails.

`SerialExecutor.tla` is the contract: a queue, the functors run so far, and whether the
executor has stopped. `ImplementsExecutor` is the refinement, with
`queue <- functors \o pendingFunctors_`.

### Poller

`Poller.tla` has `Channel`, `Poller` and `EpollPoller` in one module, because the fields of
one are invariants of the other. `SetEvents` is any `enable*`/`disable*` through
`updateChannel` and `update`; `Remove` is `remove` through `removeChannel`; `PollerPoll` is
`epoll_wait` with `fillActiveChannels` and the growth of `events_`; `HandleEvent`,
`NextCallback`, `HandlerReturn` are the dispatch. `alive` holds the channels that exist; a
descriptor may get another channel when its earlier one is gone. Channels are removed and
destroyed in functors, as the library mostly does it (`connectDestroyed` is queued), and in
handlers, where a `TcpServer` destroyed there takes its connections and its acceptor with it.
`withdrawn` remembers the channels for which that came while they were still to be
dispatched. The dispatch stops at a channel that is gone; a channel does not destroy itself in
its own handler (the assert on `eventHandling_`, which the run `TcpServerHandler` shows to
fail).

### Buffer

`Buffer.tla` has an operator for each method, from a record to a record. The bytes are
numbered in order of arrival, so what is read tells what was lost or swapped. A write
behind the end of the vector is undefined behaviour: `overrun` records it and the model
stops. Deadlock is not checked for that reason.

### EventLoopThread

`EventLoopThread.tla` has the owner in `Thread::start` and `startLoop`, and the thread from
its birth to the end of `threadFunc`, in the steps between which the other side may act.
`Notify` reaches an owner that waits and is lost otherwise; `SpuriousWakeup` is there too.

### TcpConnection

`TcpConnection.tla` is one connection from `connectEstablished` to its destructor.

* The loop thread's pending work is the sequence `todo`: handlers in the order of
  `Channel::handleEvent`, the batch of functors, and what a handler still has to do after a
  user callback. Each head is one action. A handler that calls the user is split there, for
  the user may send, shut down or hand the pointer on (`SendSelf`, `ShutdownSelf`,
  `HandOn`) before the code goes on.
* `send()` on another thread is `Send` (the test of `state_`) and `RunInLoop`; `shutdown()`
  is `Shutdown` (the test), `ShutdownSets` and `RunInLoop`. A thread drops its pointer with
  `Drop`.
* `text` is the string a thread has passed to `send()`. The functor keeps its thread (`buf`)
  as the code keeps `c_str()`: `sendInLoop` finds what the string then holds, which is a
  later message when the thread has sent again, and nothing after `TextGoes`. A string that
  is read when it is gone stops the program (`noText`).
* The two buffers are sequences of bytes, with one hazard of `Buffer` kept: an append to
  bytes that are still unread, and a `readFd` of more than fits, may write behind the
  vector. That is the second outcome of `Buffers` and of `HandleRead` (`overrun`), and the
  program stops there. An append to an empty buffer does not (`DrainedBufferIsSafe`).
* `Owned` says whether a shared pointer is left: in `connections_`, in a functor bound to
  one (`StrongFunctors`), with a thread, in the loop thread's hands or in the guard of
  `handleEvent` (`held`). `sendInLoop` and `shutdownInLoop` are bound to `this` and keep
  nothing.
* The socket takes some of the bytes or none (`room`); the peer closes or resets; `sockErr`
  is the pending error that `read` or `write` consumes.
* `HandleEvent` locks `tie_` (`held`) when the turn of the channel comes, `HandlerReturn`
  gives it back; before and after, handlers of other channels run in the same dispatch.
* The user may destroy the server (`ServerGoes`) wherever code of the user runs
  (`UserRuns`): between and in functors, in any callback of this connection, and in a
  handler of another channel. `connectDestroyed` is then called at once, in the middle of
  what the loop thread is doing.
* The asserts of `Channel::remove` and of `removeChannel` (`isNoneEvent`, `index`), a functor
  on a destroyed connection (`dangling`), `handleEvent` on a destroyed channel (`noChannel`)
  and a close callback on a destroyed server (`noServer`; `connections_` is then
  `destroyed`) stop the program as well: `crashed` says why. That is why deadlock is not
  checked. The channel's destructor asserts that it was removed: `Running`.
* `anomalies` remembers four events the code does not handle in order: `errorEvent`
  (EPOLLERR reaches `handleClose` and then `handleRead` in the same dispatch),
  `lateShutdown` (`shutdown` stores `kDisconnecting` over a `kDisconnected` that came after
  its test), `serverGone` (`connectDestroyed` comes after `shutdown` and before the close)
  and `inHandler` (the server is destroyed during the dispatch). Each property that holds
  names the ones after which it may fail.

`ByteStream.tla` is the contract of the sending side: the messages taken, what has gone to
the peer, whether the end has, and what the user was told. What goes out is a growing
prefix of the stream of the messages; while the connection is up, the end comes after all
of it, and nothing is taken or written behind it. `ImplementsStream` is the refinement,
with `fin <- wrShut`; buffer, loop, functors, threads and the states of the connection are
hidden.

All handlers run on the base loop: `setThreadNum` has no effect, so the pool has no other
loop and `newConnection` and `removeConnection` call at once. The write-complete and
high-water callbacks are taken to be set. The application is taken to ignore SIGPIPE.
`Socket::accept` gives a blocking descriptor, on which partial writes are rarer than here;
the model allows every result of `write`.

### TcpServer

`TcpServer.tla` is the server with acceptor, pool and base loop, from the constructors to
`~EventLoop`, and as many connections as there are `Peers`.

* A connection is less than in `TcpConnection`: `state_`, its name (the key of the map),
  whether its channel reads (`reading`) and is added to the loop (`added`), and its
  pointers (`Owned`: the map, `kept` by other threads, arguments of what is still to be
  called, the batch of functors, the guard of `handleEvent`). Sending, errors of sockets and
  the overrun of `inputBuffer_` are left to `TcpConnection`.
* `active` is what `epoll_wait` reported and the loop has not yet dispatched, in any order,
  as the raw pointers they are. A handler runs while the others wait, and may be the end of
  the server: `HandleEventGone` is the call on a channel that no longer exists.
* `AcceptorHandleRead` with `Accept` and `NewConnection` is one step up to the user's
  `connectionCallback_`; `HandleRead` either calls `messageCallback_` or begins
  `HandleClose`, which leaves `connectionCallback_` and then `RemoveConnection` to do.
  `TcpServerDestructor` takes one connection after the other from the map, each through
  `ConnectDestroyed`, its callback and `Remove`, and then the acceptor.
* Code of the user (`UserRuns`) runs in callbacks, between functors, before `loop()` and
  after it. It starts and destroys the server, shuts a connection down, hands a pointer
  on; `start()` and `quit()` may also come from another thread (`StartElsewhere`, `Quit`).
* `limit` is how many descriptors there are for connections, fixed but unknown.
  `Accept` fails when they are used up; it also fails with a peer already taken from the
  queue, for the length that is not initialised.
* `crashed` and `anomalies` are used as in `TcpConnection`: `inHandler` (the server was
  destroyed while channels were dispatched) and `lateListen` (it was destroyed with
  `Acceptor::listen` still queued).
* `setThreadNum` leaves `numThreads_` at 0; `Start` would wait for ever otherwise
  (`PoolStartReturns`).

Each model is parameterised by `CONSTANTS`; the `MC` modules only add the
symmetry sets and the small functions the configurations need. Definitions called
`X_SomeFault` are faulty variants of `X`: each property is known to fail with one of them
(`PROJECT.json`, "mutants").

## Runs

| Run | Checks | Shows |
|---|---|---|
| `EventLoop` | `TypeOK`, `ExactlyOnceInOrder`, `NoLostWakeup`, `DeferredToNextRound`, `FunctorsRun`, `QuitStops`, `ImplementsExecutor` | order and single execution over threads; no sleep on work without a wake-up due; a round never grows; functors run and `quit` stops without the ten-second time-out; refinement of the executor |
| `Poller` | `TypeOK`, `RegistrationAgrees`, `CtlNeverFails`, `DispatchesRegistered`, `EventListBounded`, `ReadyIsHandled` | the records agree under every call sequence and descriptor reuse, in functors and handlers; only channels that exist and are registered are dispatched, but for those removed by a handler of the same batch; no starvation, unless a destroyed channel comes first |
| `Buffer` | `TypeOK`, `IndexOrder`, `ReadableIsFifo`, `DrainedBufferIsSafe` | first in, first out until a write leaves the vector, which a call on a drained buffer does not make it do if what is read fits |
| `BufferOverrun` | `NoOverrun` violated | `writableBytes` counts unread bytes as room |
| `EventLoopThread` | `TypeOK`, `StartedHasTid`, `LoopPointerValid`, `ThreadReachesLoop` | the semaphore works; `loop_` is never dangling; the thread reaches its loop |
| `EventLoopThreadReturn` | `StartLoopReturns` violated | `startLoop` never returns |
| `TcpConnectionSafety` | `TypeOK`, `RemoveAssertsHold`, `ServerCalledWhileThere`, `CallbacksInTurn`, `DestroyedIsUnregistered` | the asserts of `remove`, the call of the server, the order of callbacks and the life time fail only after the anomalies that each names |
| `TcpConnectionStream` | `StreamInOrder`, `WritingIffBuffered`, `FlushedBeforeFin`, `ImplementsStream`, `TakenIsWritten`, `ShutdownSendsFin`, `DownIsRemoved` | up to a write behind the vector: bytes in order, and the refinement of the byte stream, of what the strings held when `sendInLoop` ran; EPOLLOUT exactly while bytes wait; FIN after the last byte. As long as the program runs, buffered bytes go out; `shutdown` sends FIN; a closed connection leaves the poller, unless a late `shutdown` came |
| `TcpConnectionRemove` | `NoneEventAtRemove` violated | `shutdown`, then the end of the server: assert in `Channel::remove` |
| `TcpConnectionBound` | `BoundStillThere` violated | `sendInLoop` reads the caller's string when it is gone |
| `TcpServer` | `TypeOK`, `MapIsOpen`, `DispatchFindsChannel`, `AssertsHold`, `ClosedIsFreed`, `WaitingIsServed`, `StartListens` | map, channels and pointers agree; only a server destroyed in a handler, with a queued `listen`, or with a connection half shut, runs into an assert or a destroyed object; no removal is dropped with the loop, also when a handler destroys the server; descriptors come back; waiting peers are served; `start` listens if `started_` was zero |
| `TcpServerHandler` | `NoneDestroyedInUse` violated | a server destroyed in the callback for a new connection: the acceptor's channel goes inside its own handler |

### Bounds

* EventLoop: two threads (a race of two hand-overs and of hand-over and quit), three
  functors (one run, one in the local vector, one pending; one queued by another), one
  channel besides the wake-up one (a handler before and after that of the eventfd), an
  eventfd that fills up at two. No symmetry, because of the liveness properties.
* Poller: three channels on two descriptors, so that two channels share one in turn;
  `kInitEventListSize` 1, so that a batch can be too small; conditions `in` and `hup`: one
  that must be asked for and one that need not be.
* Buffer: 2 bytes to prepend, 4 at first, a stack buffer of 6, 16 bytes in all: enough to
  fill, move, grow and use the stack buffer in every order. `MaxBytes` is the only bound
  that is not in the code.
* EventLoopThread: two independent objects.
* TcpConnection. `TcpConnectionSafety`: two user threads (one sends while one shuts down), a
  peer that closes and resets, a server that goes, one message of two bytes (written in
  part). `TcpConnectionStream`: one thread and the callbacks, two messages of two bytes and
  a mark of three (a partial write, a second message behind the rest of the first, an
  overrun, a mark that the second crosses), a peer that closes, a server that goes. Each
  message is offered once (`offered`); nothing else is bounded. What holds of more
  threads, and of the stream under a reset, is proved. The two runs that show a violation
  have one thread.
* TcpServer: two peers, so that one connection is closed, or the server destroyed, while
  the other or the acceptor is still to be dispatched; descriptors for both, or for one
  while the other waits (`Limits`). Two calls of `start` (`MaxStarted`). A peer connects
  once, so that names stay below three.

### Fairness

* `EventLoop`: `PromptSpec` has weak fairness of the loop thread's steps other than the
  time-out (its caller calls `loop()`, handlers and functors return) and of the eventfd
  write of a thread that is inside `queueInLoop` or `quit`. `Spec` also lets `epoll_wait`
  time out, after ten seconds in the code. No thread is obliged to begin a call.
* `Poller`: the loop keeps calling `poll`, handlers return. The kernel may always prefer
  the same descriptors.
* `EventLoopThread`: each side's enabled steps are taken; nobody has to call `startLoop`,
  to quit the loop, or to wake up spuriously.
* `TcpConnection`: the loop thread goes on, a thread that has begun a call ends it, and a
  peer that stays reads, so that room comes back. The last is an assumption about the peer,
  without which no byte need ever leave; the liveness properties end where the peer closes.
* `TcpServer`: `loop()` is called and goes on, callbacks return, and a thread that keeps a
  pointer drops it some day, without which no library could give the descriptor back.
  Nobody has to connect, close, start, quit or destroy. The queue of the kernel need not be
  served in order: every peer connects once, so the others run out.

## Disagreements with comments

`PROJECT.json` lists the five that a run shows. More were met while modelling, which the models
reach and no run is spent on:

* `EventLoop.cpp:74`: `loop()` stores `false` into `quit_`, so a `quit` that came before is
  lost, where `EventLoop.h:20` says "leave the event loop". `QuitStops` is therefore about
  loops that have been started.
* `EventLoop.cpp:149`: `callingPendingFunctors_` stays set for good, although its comment
  says "is being called". `queueInLoop` on the loop thread then writes the eventfd more
  often than needed; the run `EventLoop` includes that.
* `EpollPoller.cpp:39`: `disableAll` on a channel that is not in the kernel's list adds it
  with an empty mask (the kernel still reports HUP and ERR), where `TcpConnection.cpp:172`
  says that it deletes the events. `~Acceptor` before `listen` does this. The records agree
  all the same (`RegistrationAgrees`).
* `TcpConnection.cpp:71`: "`shutdown` was called before, nothing can be sent any more",
  above a test for `kDisconnected`, while `shutdown` sets `kDisconnecting`. A `send` on
  another thread that has passed its own test is taken, or, behind the FIN, dropped.
* `TcpConnection.cpp:41`: the error callback is bound to `handleClose`, and `handleRead`
  follows in the same `handleEvent`. A user who was told that the connection is down then
  hears of messages, or of the end again, where `TcpConnection.cpp:183` speaks of an
  established connection (`errorEvent` in `CallbacksInTurn`).
* `TcpConnection.cpp:155`: `tie` is "so that callbacks do not go wrong when the connection
  has been removed". It does that for the channel's callbacks; `sendInLoop` and
  `shutdownInLoop`, queued after `connectDestroyed`, run on a connection whose last pointer
  the calling thread may have dropped (`dangling`, in `BoundStillThere` too).
* `TcpServer.cpp:57`: "keeps a TcpServer from being started more than once"; `started_` is
  not initialised, and may keep it from being started at all (`Init` of `TcpServer`).
* `TcpServer.h:47`: `setThreadNum` "sets the number of subloops". It assigns its parameter
  to itself, and all connections stay on the base loop (`SetThreadNum` in `TcpServer`).

## Theorems

TLAPS proves, for all values of the constants that satisfy the assumptions named in the
modules (`EventLoopAssumption`, `PollerAssumption`, `BufferAssumption`,
`TcpConnectionAssumption`, `TcpServerAssumption`: sizes are naturals, a message has at
least one byte, `nullptr`, `NoMessage` and `acceptChannel_` are not among the other values,
descriptors and peers are finite in number):

* `EventLoopProofs`: `TypeCorrect`; `OrderPreserved` by `OrderInv`, which adds to
  `ExactlyOnceInOrder` that the local vector is empty outside `doPendingFunctors` (otherwise
  the swap would lose it); `WakeupNeverLost` by `WakeupInv`, which says where
  a functor may sit without a wake-up (between the dispatch and the swap, since
  `handleRead` may have consumed the wake-up before its functor is run) and that
  `callingPendingFunctors_` is set while functors run, so that one they queue is announced;
  `RoundIsBounded`; and `ImplementsQueue`, that each step is a step of `SerialExecutor` or a
  stutter.
* `PollerProofs`: `PollerTypeCorrect`; `RegistrationStaysConsistent` and
  `EpollCtlSucceeds` by `RegInv`, which adds that two live channels never have the same
  descriptor and that each table keeps a channel under its own descriptor: without them an
  `ADD` could meet an entry of another channel; `DispatchIsSafe`, on top of that: a channel
  still to be dispatched that has not been `withdrawn` is alive and in the map, because only
  `remove` takes it from there and only an unregistered one may be destroyed;
  `EventListStaysBounded`.
* `BufferProofs`: `BufferTypeCorrect`, `IndicesStayOrdered`, `BytesInOrder` by one invariant
  (`Good`: the indices are ordered and the readable part is the numbers `got + 1 .. put`),
  with a lemma for each operator (`RetrieveGood`, `EnsureGood`, `AppendGood`,
  `ReadFdGood`); `DrainedIsSafe`.
* `EventLoopThreadProofs`: `ThreadTypeCorrect`, `StartWaitsForTid`, `PublishedLoopLives` by
  `IInv`, which ties the semaphore's count to the places of both sides and `loop_` to the
  life of the thread's loop.
* `TcpConnectionProofs`: `TcpConnectionTypeCorrect`, by `TypeInv`, which adds that every
  `sendInLoop` is bound to a thread's string; and four theorems about the life of a
  connection by one invariant. `Fresh` says that nothing happens before
  `connectEstablished`. `Life` says that handlers come before functors (`Phases`) and, until
  a late `shutdown` or a crash (`Orderly`), that the connection is on its course
  (`OnCourse`): what the user was told agrees with `state_`, `events_` and `index_`
  (`States`); the connection is destroyed once, ahead of the handlers that are left, and on
  its way out exactly when it is down or `~TcpServer` takes it (`OneWayOut`; otherwise
  `remove` could meet a channel that reads, or come twice); and a handler that still is to
  read after the connection was closed finds the error that closed it, or belongs to a
  connection whose server went in a handler (`Reports`, `Doomed`). Where `OnCourse` ends,
  the theorems have their exemptions:
  - `TcpConnectionRemoves`: the assert on `isNoneEvent()` fails only after `lateShutdown` or
    `serverGone`, that on `index_` only after `lateShutdown`. It is about no other failure:
    `TcpConnectionBound` shows one.
  - `TcpConnectionServerThere`: a server that is gone is called only after `inHandler` or
    `lateShutdown`.
  - `TcpConnectionCallbacks`: up once, messages, down once, but after `errorEvent`,
    `inHandler` or `lateShutdown`.
  - `TcpConnectionUnregisters`: a connection that loses its last pointer while the program
    runs has left the poller, but after `lateShutdown`; a server destroyed in a handler
    makes no difference.
* `TcpConnectionStreamProofs`: `TcpConnectionStream`, `TcpConnectionWatches`,
  `TcpConnectionFlushes` by `Flow`, on top of `Life`: until the connection is closed,
  EPOLLOUT is asked for exactly while bytes are buffered, which is what keeps `sendInLoop`
  from writing past the buffer and `shutdownInLoop` from shutting before it. Every step is
  one of five kinds (`StreamKinds`), and `TcpConnectionImplementsStream` maps each to a
  step of `ByteStream` or a stutter. All of that is about what the strings hold when
  `sendInLoop` reads them, and `StreamInOrder` is claimed up to the step that writes behind
  the vector, after which the model has no other; that step too is one of `ByteStream`,
  which takes the message and lets out what had been written.
* `TcpServerProofs`: `TcpServerTypeCorrect`; `MapStaysOpen` by `MapInv`, which adds that
  the names of connections are below `nextConnId_`, that while the server lives exactly
  the open connections read and only they are left to dispatch (otherwise a close would
  come twice), and that a removal is the last call of its handler (otherwise it could be
  due twice); `DispatchedExists` by `MapInv` and `DispatchInv`, which follows `~TcpServer`
  from connection to connection: who still reads is in the map, or is the connection
  being destroyed, so that nobody reads once the server is gone; `AssertsExplained` by
  `EndInv` on top of both. That says that each channel on the loop has its removal before
  it, in the map or in a call on its way (`AllRemoved`), and where such calls stand
  (`CallsInPlace`): `connectDestroyed` is queued by handlers only, so that no functor of
  that kind is left when `loop()` looks at `quit_`; a removal that outlives the server, a
  destructor under a handler, and a `listen` that outlives the acceptor have been recorded
  in `anomalies`; and who is removed while it reads was shut down.
* `SequenceLemmas`: what is left of a list of calls when its head leaves others instead,
  for `TcpConnectionProofs` and `TcpServerProofs`.

The theorems are about `SafeSpec`, the specification without its fairness; those of
TcpServer, which does not name that part, about `Spec`, and do not use the fairness either.

Only model-checked: every liveness property (`FunctorsRun`, `QuitStops`, the progress part
of `ImplementsExecutor`, `ReadyIsHandled`, `ThreadReachesLoop`, `TakenIsWritten`,
`ShutdownSendsFin`, `DownIsRemoved`, `ClosedIsFreed`, `WaitingIsServed`, `StartListens`),
because TLAPS has no ENABLED and so no fairness. Each safety property of a run that passes
is also a theorem.

## Not modelled

* More than one loop: `getNextLoop` and `getAllLoops` with loops in the pool, connections
  on another loop than the server's. The program does not get there: `numThreads_` stays 0,
  and `startLoop` does not return.
* The destructor of `EventLoopThread`, which no owner of a started loop reaches; the
  registry `t_loopInThisThread`, which only logs.
* Calls on a loop that has been destroyed (`quit` on another thread between its store and
  its `wakeup`; a connection kept beyond its loop): `EventLoop` has no destructor step, and
  in `TcpServer` the loop goes last.
* A server destroyed on another thread than the loop's: `~Acceptor` would change the poller
  without any lock.
* Data races as such: `quit_`, `state_` and `loop_` are read and written by single steps.
  `state_` and `quit_` are atomics in the code; `loop_` is published without the mutex,
  but only an owner that has left its wait would read it, and none does.
* How bytes lie in `inputBuffer_` and `outputBuffer_` of a connection: `Buffer` models that,
  `TcpConnection` keeps the write behind the vector that follows from it.
* A string passed to `send()` that its caller changes in part, or while `sendInLoop` reads
  it: in `TcpConnection` it holds one message or another, or is gone.
* Time stamps, names, addresses, logging: no behaviour depends on them. Socket options:
  system calls.

## Plan

1. `EventLoop` with `SerialExecutor`, `Poller`, `Buffer`, `EventLoopThread`,
   `TcpConnection` with `ByteStream`, and `TcpServer`: modelled, checked, and every safety
   property proved.
2. Next: how `TcpServer` with its connections relates to `TcpConnection` (the life of one
   connection there, with sending hidden, is a life here), and the registry of loops per
   thread with its destructor, if worth it.
