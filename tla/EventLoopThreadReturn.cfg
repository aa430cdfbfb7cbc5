SPECIFICATION Spec
CONSTANTS
  e1 = e1
  e2 = e2
  Objects <- MCObjects
PROPERTY StartLoopReturns
