SPECIFICATION Spec
CONSTANTS
  Never = Never
  NoRecord = NoRecord
  NoConn = NoConn
  Missing = Missing
  Conns = {c1, c2}
  Symbols <- MCSymbols
  Keys <- MCKeys
  Values <- MCOneValue
  Ttls <- MCTtls
  Ops <- MCLookOps
  Faults = {"kill", "open_error"}
  MaxRequests = 3
  MaxCrashes = 1
  MaxTime = 2
SYMMETRY ConnSymmetry
INVARIANTS
  ServerTypeOK
  AckedSurvives
PROPERTIES
  ImplementsDurableKV
