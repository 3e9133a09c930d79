\* The transfer ends, so the system stops; TransferEnds finds whoever waits
\* for ever.
SPECIFICATION FairSpec
CONSTANTS
  N = 3
  Total = 10
  Ends <- MCEnds
  BucketSize = 2
INVARIANTS
  BufferIsQuiet
  NothingLeft
PROPERTIES
  StreamsWeights
  TransferEnds
CHECK_DEADLOCK FALSE
