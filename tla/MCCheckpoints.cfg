\* Two ranks; an actor with one checkpoint, a critic with two; two crashes. A job
\* may stop when it has trained enough, or cannot be resumed.
SPECIFICATION Spec
CONSTANTS
  Roles <- TwoRoles
  Ranks = {k1, k2}
  Keep <- KeepOneAndTwo
  SaveFreq = 2
  MaxVersion = 4
  MaxPrompts = 4
  MaxLives = 3
  None = None
  Torn = Torn
INVARIANTS
  TrackedIsWhole
  RestartSucceeds
  NothingTwice
  RotationIsExact
PROPERTIES
  NoSaveLost
CHECK_DEADLOCK FALSE
