SPECIFICATION FairSpec
CONSTANTS
  Never = Never
  NoRecord = NoRecord
  NoConn = NoConn
  Missing = Missing
  Conns = {c1, c2}
  Symbols <- MCSymbols
  Keys <- MCOneKey
  Values <- MCOneValue
  Ttls <- MCTtls
  Ops <- MCLiveOps
  Faults <- MCAllFaults
  MaxRequests = 2
  MaxCrashes = 1
  MaxTime = 1
PROPERTIES
  ThreadsProceed
  StartEnds
