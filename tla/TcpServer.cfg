\* Two peers, with descriptors for both of them, or for one while the other waits.
SPECIFICATION Spec
CONSTANTS
  Peers = {p1, p2}
  Limits = {1, 2}
  MaxStarted = 2
  acceptChannel_ = acceptChannel
CHECK_DEADLOCK FALSE
INVARIANTS
  TypeOK
  MapIsOpen
  DispatchFindsChannel
  AssertsHold
PROPERTIES
  ClosedIsFreed
  WaitingIsServed
  StartListens
