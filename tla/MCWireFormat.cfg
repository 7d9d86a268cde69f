SPECIFICATION WireSpec
CONSTANTS
  Transports = {"ws", "masked", "tcp"}
  Signos <- SomeSignos
  Sizes <- EdgeSizes
  MaskingKey <- Key
  MaxCut = 24
INVARIANTS PacketRoundTrip NextFrameAligned
CHECK_DEADLOCK FALSE
