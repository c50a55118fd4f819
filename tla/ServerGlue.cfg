SPECIFICATION Spec
CONSTANTS
  Never = Never
  NoRecord = NoRecord
  NoConn = NoConn
  Missing = Missing
  Conns = {c1, c2}
  Symbols <- MCSymbols
  Keys <- MCKeys
  Values <- MCOneValue
  Ttls <- MCTtls
  Ops <- MCWrites
  Faults = {"kill_in_append"}
  MaxRequests = 3
  MaxCrashes = 1
  MaxTime = 0
SYMMETRY ConnSymmetry
INVARIANT OkSurvives
