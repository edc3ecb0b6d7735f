\* Two resources; one is unloaded while its bytes are being read.
CONSTANTS
  Resources = {1, 2}
  Temporary = {}
  Asks <- MCAsks
  Waits <- MCWaits
  MaxUnloads = 1
  MaxCopies = 1
  MayClose = FALSE
SPECIFICATION Spec
INVARIANTS UnwantedIsDiscarded
\* The main thread may have nothing left to ask.
CHECK_DEADLOCK FALSE
