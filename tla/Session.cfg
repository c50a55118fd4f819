SPECIFICATION FairSpec
CONSTANTS
  Asks = {"call", "exit"}
  ReplyLines = {1}
  Faults <- MCAllFaults
  MaxRequests = 4
INVARIANT SessionTypeOK
PROPERTIES
  RepliesMatch
  ImplementsAtMostOnce
  WaitEnds
  ThreadEnds
  ExitEnds
