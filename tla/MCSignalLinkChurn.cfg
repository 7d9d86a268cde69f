SPECIFICATION Spec
CONSTANTS
  v = v
  w = w
  t = t
  none = none
  Signals <- OneValue
  TableOf <- TableOfOne
  LinearSignals <- LinearT
  NoSignal = none
  MaxQueue = 2
  CountModulus = 4
  MaxSigno = 4
  MaxUses = 1
  MaxRemovals = 2
  DomainFirst = FALSE
INVARIANTS LinkInv SubscriptionAgrees RequestsAnswered
CHECK_DEADLOCK FALSE
