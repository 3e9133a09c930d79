\* Every oracle and every request on 0..6; the search stops when it is done.
SPECIFICATION FairSpec
CONSTANTS
  Top = 6
  MaxTolerance = 2
  MaxIterations = 3
  MaxScan = 4
  None = None
INVARIANTS
  Bracket
  BoundaryIsReported
  MonotoneIsExact
CHECK_DEADLOCK FALSE
PROPERTIES
  SearchEnds
