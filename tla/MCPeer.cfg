SPECIFICATION FairSpec
CONSTANTS
  FrameSizes = {1, 3}
  ControlSize = 1
  TxLimit = 3
  TxSlack = 1
  MaxBatch = 2
  MaxBytes = 5
INVARIANTS WaitIffBuffered ClosedOnce
PROPERTIES ImplementsStream Drains StopCloses
CHECK_DEADLOCK FALSE
