SPECIFICATION TextSpec
CONSTANTS
  Never = Never
  Symbols <- MCSymbols
  Chars <- MCChars
  FormChars <- MCFormChars
  MaxLen = 8
  MaxTtl = 1
  MaxU64 = 10
  MaxTyped = 8
INVARIANTS
  ParsesByWords
  RecordsReplay
  ServerAgrees
  FormDelivers
  PageShowsText
  PageReadsReplies
CONSTRAINT Worthwhile
CHECK_DEADLOCK FALSE
