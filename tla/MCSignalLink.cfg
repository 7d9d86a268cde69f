SPECIFICATION FairSpec
CONSTANTS
  v = v
  w = w
  t = t
  none = none
  Signals <- TwoValues
  TableOf <- TableOfTwo
  LinearSignals <- LinearT
  NoSignal = none
  MaxQueue = 2
  CountModulus = 5
  MaxSigno = 3
  MaxUses = 1
  MaxRemovals = 0
  DomainFirst = TRUE
INVARIANTS MessagesAttributable DemandServed DomainFollowsUsers
PROPERTIES SubscribeTakesEffect
CHECK_DEADLOCK FALSE
