SPECIFICATION FairSpec
CONSTANTS
  InitialSize = 1
  MaxSize = 3
  FrameLengths = {1, 2, 3, 4}
  MaxStream = 8
INVARIANTS RefusesOnlyOversize FramesWhole
PROPERTIES FramesProcessed
CHECK_DEADLOCK FALSE
