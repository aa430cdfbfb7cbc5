\* What is sent: a thread that sends and shuts down next to the loop's, a message that is
\* buffered before another, a peer that closes, a server that goes.
SPECIFICATION Spec
CONSTANTS
  Threads = {t1}
  Messages = {m1, m2}
  MessageSize = 2
  highWaterMark_ = 3
  PeerActs = {"close"}
  ServerMayGo = TRUE
  NoMessage = NoMessage
  NoThread = NoThread
CHECK_DEADLOCK FALSE
INVARIANTS
  StreamInOrder
  WritingIffBuffered
  FlushedBeforeFin
PROPERTIES
  ImplementsStream
  TakenIsWritten
  ShutdownSendsFin
  DownIsRemoved
