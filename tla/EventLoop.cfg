CONSTANTS
  Threads = {t1, t2}
  Functors = {f1, f2, f3}
  IOChannels = {c1}
  wakeupChannel_ = wakeupChannel
  NoChannel = NoChannel
  MaxEventfd = 2
SPECIFICATION PromptSpec
INVARIANTS
  TypeOK
  ExactlyOnceInOrder
  NoLostWakeup
PROPERTIES
  DeferredToNextRound
  FunctorsRun
  QuitStops
  ImplementsExecutor
