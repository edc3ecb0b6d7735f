SPECIFICATION Spec
CONSTANTS
  p1 = p1
  Peers = {}
  MaxNotes = 2
  MaxPSN = 2
INVARIANT EventsAreAnnounced
CHECK_DEADLOCK FALSE
