\* Versions of two batches of one sample; one sample may be carried over, which is
\* less room than for the two tasks, so the Rollouter and the Trainer may starve.
\* Seven samples, or one generation that raises, leave the last version incomplete.
SPECIFICATION FairSpec
CONSTANTS
  Required = 1
  SyncStep = 2
  MaxRequired = 3
  MaxConcurrent = 2
  Total = 7
  PendingSize = 1
  SaveFreq = 2
  TestFreq = 2
  MaxFailures = 1
INVARIANTS
  EverySampleAccounted
  EndIsLast
  RolloutNum
  AllTrained
  OverCount
  LastVersionSaved
PROPERTIES
  StaleShare
  TrainingEnds
