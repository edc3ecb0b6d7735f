\* An ordinary, a streamed and a temporary resource; one may be unloaded at any
\* time when the main thread is idle.
CONSTANTS
  Resources = {1, 2, 3}
  Temporary = {3}
  Asks <- MCAsks
  Waits <- MCWaits
  MaxUnloads = 1
  MaxCopies = 2
  MayClose = TRUE
SPECIFICATION FairSpec
INVARIANTS TypeOK AnswerIsSound LoadingIsUnderWay
PROPERTIES EndedStaysEnded WaitsEnd
\* A system that was closed has stopped.
CHECK_DEADLOCK FALSE
