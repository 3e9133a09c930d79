SPECIFICATION FairSpec
CONSTANTS
  Conversations = {c1, c2}
  Standalone = {s1, s2}
  Hybrid = {h1}
  None = None
  c1 = c1
  c2 = c2
  Prompt <- BothLongest
  PromptLength = 2
  ResponseLength = 2
  ToolLength = 0
  CacheSize = 1
  PartialRollout = TRUE
  FreeCacheEngine = TRUE
  Unpaused = {s1}
  ValBeforeTrain = FALSE
  TestFreq = 1
  MaxTurns <- TwoAndOne
  MaxVersion = 1
INVARIANTS
  CountsTrue
  PoolIsAwake
  OneVersionServes
  NeverOlder
  LengthBound
PROPERTIES
  CallEnds
