SPECIFICATION Spec
CONSTANTS
  FxWords = 4
  First = 1
  Again <- MCAgain
  Rounds = 3
  Vectors <- MCVectors
  Depths = {1, 4}
  MaxWords = 60
  MaxStrays = 2
INVARIANTS
  ContextKept
  SleepersResumable
PROPERTIES
  Alternates
CHECK_DEADLOCK FALSE
