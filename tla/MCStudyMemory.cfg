\* Two processes share the memory directory; each may fail or stop anywhere.
SPECIFICATION Spec
CONSTANTS
  Processes = {p1, p2}
  Studies = {s1, s2, s3}
  MaxFaults = 2
PROPERTIES
  KeepsStudies
  LedgerIsCurrent
CHECK_DEADLOCK FALSE
