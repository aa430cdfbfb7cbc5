\* A server that goes after a callback has called shutdown(), and a thread that may.
SPECIFICATION SafeSpec
CONSTANTS
  Threads = {t1}
  Messages = {m1}
  MessageSize = 2
  highWaterMark_ = 3
  PeerActs = {"close"}
  ServerMayGo = TRUE
  NoMessage = NoMessage
  NoThread = NoThread
CHECK_DEADLOCK FALSE
INVARIANT NoneEventAtRemove
