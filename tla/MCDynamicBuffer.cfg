SPECIFICATION Spec
CONSTANTS
  MaxSize = 7
  BlockSizeArg = 2
  MaxBuffers = 2
  MaxRequest = 7
  Modulus = 7
INVARIANTS BufferInv
PROPERTIES ImplementsFifo
