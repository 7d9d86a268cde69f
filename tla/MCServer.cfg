SPECIFICATION FairSpec
CONSTANTS
  Sockets = {a, b}
  Signals = {s1}
  MaxRequests = 2
INVARIANTS ListsExact SignalsEverywhere ReportsComplete UpgradedUndisturbed
PROPERTIES QuietAfterClose StaysUsable
CHECK_DEADLOCK FALSE
