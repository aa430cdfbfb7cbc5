SPECIFICATION Spec
CONSTANTS
  c1 = c1
  c2 = c2
  c3 = c3
  f1 = f1
  f2 = f2
  Channels <- MCChannels
  Fds <- MCFds
  Conditions = {"in", "hup"}
  FdOf <- MCFdOf
  NoChannel = NoChannel
  kInitEventListSize = 1
INVARIANTS
  TypeOK
  RegistrationAgrees
  CtlNeverFails
  DispatchesRegistered
  EventListBounded
PROPERTY ReadyIsHandled
