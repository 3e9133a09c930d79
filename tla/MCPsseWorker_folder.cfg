\* One job whose execution fails once.
SPECIFICATION Spec
CONSTANTS
  Jobs = {j1}
  NoJob = NoJob
  Handlers = {h1}
  FaultsPerJob = 1
  MaxRestarts = 0
INVARIANT
  ResultBesideRequest
