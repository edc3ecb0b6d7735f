\* One console and a peer that may send anything.
CONSTANTS
  A = A  B = B  R = R
  Nodes = {A}
  Strangers = {R}
  MaxInits <- TwoEach
  MaxStops <- TwoEach
  MaxQueue = 4
  MayExpire = TRUE
SPECIFICATION Spec
INVARIANTS TypeOK PendingIsPursued OnePingEach StatusIsTold
\* RPCN may refuse and leave nothing to do.
CHECK_DEADLOCK FALSE
