SPECIFICATION FairSpec
CONSTANTS
  Calls = {c1, c2}
  Builtin = {c1}
  None = None
  MaxAttempts = 1
  ShouldBreak = TRUE
PROPERTIES CleanupEnds
CHECK_DEADLOCK FALSE
