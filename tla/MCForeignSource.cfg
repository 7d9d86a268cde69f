SPECIFICATION ForeignSpec
CONSTANTS
  v = v
  t = t
  none = none
  Signals <- ValueAndDomain
  TableOf <- DomainT
  LinearSignals <- LinearT
  NoSignal = none
  MaxQueue = 2
  MaxUses = 1
  MaxNumber = 2
  MaxWithdrawals = 2
INVARIANTS NumbersResolve ShownAsAdvertised StreamedSubscribed
CHECK_DEADLOCK FALSE
