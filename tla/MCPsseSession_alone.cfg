\* One episode, two request ids, two steps, an instance that is renewed; every
\* call ends though the worker is not required to do anything.
SPECIFICATION FairSpec
CONSTANTS
  Jobs = {j1, j2}
  NoJob = NoJob
  Episodes = {e1}
  Requests = {r1, r2}
  NoRequest = NoRequest
  PerCall = FALSE
  MaxSteps = 2
  MaxPolls = 1
  MaxLives = 2
INVARIANTS
  RequestRunsOnce
  HistoryIsTrue
  OkIsOwn
PROPERTIES
  CallEnds
