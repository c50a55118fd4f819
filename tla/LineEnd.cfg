SPECIFICATION TextSpec
CONSTANTS
  Never = Never
  Symbols <- MCSymbols
  Chars <- MCWebChars
  FormChars = {}
  MaxLen = 8
  MaxTtl = 1
  MaxU64 = 10
  MaxTyped = 8
INVARIANT FormRecordsReplay
CONSTRAINT Worthwhile
CHECK_DEADLOCK FALSE
