\* Two consoles open connections to each other; one of them may stop.
CONSTANTS
  A = A  B = B  R = R
  Nodes = {A, B}
  Strangers = {}
  MaxInits <- OneEach
  MaxStops <- None
  MaxQueue = 2
  MayExpire = FALSE
SPECIFICATION FairSpec
INVARIANTS AckIsRepeated
PROPERTIES HandshakeCompletes
\* RPCN may refuse and leave nothing to do.
CHECK_DEADLOCK FALSE
