\* Two callers, two workers, the PS3 order of DoAbort.
CONSTANTS
  c1 = c1
  c2 = c2
  Callers = {c1, c2}
  Workers = {w1, w2}
  Closer = main
  Requests <- MCRequests
  MaxCalls <- MCMaxCalls
  AbortTokens = 2
  FlagFirst = TRUE
SPECIFICATION FairSpec
INVARIANTS TypeOK WakeupsMatchWork PeekersFindWork CountsAreExact IDsDistinctPerCaller
PROPERTIES ImplementsPool JobsFinish ShutdownCompletes
\* A pool nobody uses any more rests, and a closed one has stopped.
CHECK_DEADLOCK FALSE
