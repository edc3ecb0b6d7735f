CONSTANTS
  small = small
  large = large
  Files <- MCFiles
  SizeOf <- MCSizeOf
  NumSlots = 3
  CacheFATSize = 1
  CacheSize = 5
  Readers = {1, 2}
  MaxHead = 6
  MaxPuts = 3
  MaxStarts = 2
SPECIFICATION Spec
INVARIANTS SyncedEntriesIntact LoadsAreSound AtMostTwoFiles
\* The calls are bounded.
CHECK_DEADLOCK FALSE
