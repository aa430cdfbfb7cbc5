\* All that a connection meets: a peer that closes or resets, a server that goes, two
\* threads that send and shut down next to the loop's.
SPECIFICATION SafeSpec
CONSTANTS
  Threads = {t1, t2}
  Messages = {m1}
  MessageSize = 2
  highWaterMark_ = 2
  PeerActs = {"close", "reset"}
  ServerMayGo = TRUE
  NoMessage = NoMessage
  NoThread = NoThread
SYMMETRY Symmetry
CHECK_DEADLOCK FALSE
INVARIANTS
  TypeOK
  RemoveAssertsHold
  ServerCalledWhileThere
  CallbacksInTurn
  DestroyedIsUnregistered
