SPECIFICATION LifeSpec
CONSTANTS
  Never = Never
  NoRecord = NoRecord
  Symbols <- MCSymbols
  Keys <- MCKeys
  Values <- MCOneValue
  Faults <- MCKills
  MaxLines = 2
  MaxTail = 4
PROPERTY TruncationDetected
