\* Two jobs, two handler threads, an except clause that fails, one restart. No
\* symmetry: the refinement and the action property are checked in the same run.
SPECIFICATION Spec
CONSTANTS
  Jobs = {j1, j2}
  NoJob = NoJob
  Handlers = {h1, h2}
  FaultsPerJob = 2
  MaxRestarts = 1
PROPERTIES
  ToldIsFinal
  ServedInOrder

INVARIANTS
  PendingIsAccounted
  ToldFinishedThenResult
  ResultMatchesStatus
