SPECIFICATION FairSpec
CONSTANTS
  p1 = p1
  Peers <- MCPeers
  MaxNotes = 1
  MaxPSN = 0
INVARIANTS
  TypeOK
  DefinedUnlessRefused
  RepliesAreAnswers
PROPERTY CloseReturns
CHECK_DEADLOCK FALSE
