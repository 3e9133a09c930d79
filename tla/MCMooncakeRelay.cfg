\* The first of two receivers shares its buffer with the second.
SPECIFICATION Spec
CONSTANTS
  N = 2
  Total = 6
  Ends <- MCEnds
  BucketSize = 2
INVARIANT
  WeightsEqual
CHECK_DEADLOCK FALSE
