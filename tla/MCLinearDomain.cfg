SPECIFICATION Spec
CONSTANTS
  v = v
  w = w
  d = d
  t = t
  Explicit = {v, w}
  Driven = {d}
  Domain = t
  Rules <- TwoRules
  MetadataIndexes <- Built
  DomainValues = {1, 2}
  Counts = {1, 2}
  MaxQueue = 2
  MaxSamples = 2
  MaxChanges = 1
INVARIANTS DomainInv
CHECK_DEADLOCK FALSE
