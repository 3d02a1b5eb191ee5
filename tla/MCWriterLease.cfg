CONSTANTS
  a1 = a1 a2 = a2
  h1 = h1 h2 = h2 h3 = h3
  p1 = p1 p2 = p2
  Legacy = Legacy
  Garbled = Garbled
  None = None
  Attempts <- PairAttempts
  Hosts <- MCHosts
  Pids <- MCPids
  HostOf <- PairHostOf
  PidOf <- PairPidOf
  LegacyPid = p2
  LeftOver = {Legacy, Garbled}
  MaxFaults = 1
SPECIFICATION FairSpec
INVARIANTS TypeOK MutualExclusion RecordsSurvive FailsClosed RefusalNamesOwner EndedLeavesNothing StaleRecordsGone
PROPERTIES ImplementsLock Settles
