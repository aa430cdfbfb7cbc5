\* A thread whose string, and whose pointer, may go once send() has returned.
SPECIFICATION SafeSpec
CONSTANTS
  Threads = {t1}
  Messages = {m1}
  MessageSize = 2
  highWaterMark_ = 3
  PeerActs = {"close"}
  ServerMayGo = FALSE
  NoMessage = NoMessage
  NoThread = NoThread
CHECK_DEADLOCK FALSE
INVARIANT BoundStillThere
