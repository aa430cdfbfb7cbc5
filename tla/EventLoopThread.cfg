SPECIFICATION Spec
CONSTANTS
  e1 = e1
  e2 = e2
  Objects <- MCObjects
INVARIANTS
  TypeOK
  StartedHasTid
  LoopPointerValid
PROPERTY ThreadReachesLoop
