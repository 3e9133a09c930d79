\* Liveness, two jobs in line: at most one exception per job, so the except
\* clause itself never fails; a restart may come at any moment.
SPECIFICATION FairSpec
CONSTANTS
  Jobs = {j1, j2}
  NoJob = NoJob
  Handlers = {h1}
  FaultsPerJob = 1
  MaxRestarts = 1
PROPERTIES
  QueuedJobEnds
