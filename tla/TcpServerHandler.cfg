\* A peer whose connectionCallback_ destroys the server.
SPECIFICATION Spec
CONSTANTS
  Peers = {p1}
  Limits = {2}
  MaxStarted = 2
  acceptChannel_ = acceptChannel
CHECK_DEADLOCK FALSE
INVARIANT NoneDestroyedInUse
