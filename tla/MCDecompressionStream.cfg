\* Windows of two units: two small blocks, or one large one, ahead of the reader.
CONSTANTS
  Streams <- MCStreams
  Window = 2
  PoolSize = 2
  RawBytes = 1
  MaxRead = 2
SPECIFICATION FairSpec
INVARIANTS TypeOK WakeupsCoverBlocks OutstandingIsExact HeadIsDispatched DeliveredInOrder FreedAfterWritten
PROPERTIES ReadsReturn
\* A caller may stop reading, and a closed stream has ended.
CHECK_DEADLOCK FALSE
