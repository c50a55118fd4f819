SPECIFICATION FairSpec
CONSTANTS
  Never = Never
  Free = Free
  Gone = Gone
  Browsers = {b1, b2}
  Requests <- MCRequests
  Calls <- MCCalls
  Keys <- MCKeys
  Kept <- MCKept
  Values <- MCValues
  MaxCalls = 1
  MaxTime = 1
INVARIANTS
  WebTypeOK
  PageIsOneMoment
  ResultOnPage
  UserCommandsCounted
PROPERTIES
  OnlyWholeWrites
  TcpProceeds
  BrowsersServed
CHECK_DEADLOCK FALSE
