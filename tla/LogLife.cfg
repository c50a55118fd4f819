SPECIFICATION LifeSpec
CONSTANTS
  Never = Never
  NoRecord = NoRecord
  Symbols <- MCSymbols
  Keys <- MCKeys
  Values <- MCValues
  Faults <- MCAllFaults
  MaxLines = 2
  MaxTail = 4
INVARIANTS
  LogTypeOK
  ReplayFollowsLog
PROPERTIES
  RecoversAllOrNothing
  AppendReadsBack
