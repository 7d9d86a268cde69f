SPECIFICATION FairSpec
CONSTANTS
  Objects = {"http", "tls1", "tls2", "k1", "k2"}
  TlsObjects = {"tls1", "tls2"}
  Commands = {"k1", "k2"}
  MaxAttempts = 3
INVARIANTS ObjectsOwned
PROPERTIES Answered
CHECK_DEADLOCK FALSE
