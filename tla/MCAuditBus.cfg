SPECIFICATION FairSpec
CONSTANTS
  a1 = a1
  a2 = a2
  a3 = a3
  s1 = s1
  s2 = s2
  Entries <- MCEntries
  Streams <- MCStreams
  BufferSize = 2
CHECK_DEADLOCK FALSE
INVARIANTS TypeOK NoSendOnClosed InOrderOnce BurstArrives
PROPERTY LogReturns
