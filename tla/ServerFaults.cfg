SPECIFICATION Spec
CONSTANTS
  Never = Never
  NoRecord = NoRecord
  NoConn = NoConn
  Missing = Missing
  Conns = {c1, c2}
  Symbols <- MCSymbols
  Keys <- MCKeys
  Values <- MCOneValue
  Ttls <- MCTtls
  Ops <- MCAllOps
  Faults <- MCAllFaults
  MaxRequests = 3
  MaxCrashes = 1
  MaxTime = 1
SYMMETRY ConnSymmetry
INVARIANTS
  ConnectionsCounted
  LockCoversExecute
  LoggedBeforeApplied
  MemoryOnFile
PROPERTY RefusedWritesKeepMemory
