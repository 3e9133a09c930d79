\* A retry after an exception.
SPECIFICATION Spec
CONSTANTS
  Jobs = {j1, j2}
  NoJob = NoJob
  Episodes = {e1}
  Requests = {r1}
  NoRequest = NoRequest
  PerCall = FALSE
  MaxSteps = 2
  MaxPolls = 1
  MaxLives = 1
INVARIANT
  RequestIsIdempotent
