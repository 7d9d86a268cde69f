SPECIFICATION FairSpec
CONSTANTS
  FrameSizes = {1, 3}
  ControlSize = 1
  TxLimit = 4
  MaxBatch = 2
  MaxBytes = 6
INVARIANTS OneWriteInFlight QueueAccounted
PROPERTIES ImplementsStream Progresses
CHECK_DEADLOCK FALSE
