SPECIFICATION SafeSpec
CONSTANTS
  kCheapPrepend = 2
  kInitialSize = 4
  ExtrabufSize = 6
  MaxBytes = 16
CHECK_DEADLOCK FALSE
INVARIANTS
  TypeOK
  IndexOrder
  ReadableIsFifo
PROPERTY DrainedBufferIsSafe
