SPECIFICATION FairSpec
CONSTANTS
  Calls = {c1, c2}
  Builtin = {c1}
  None = None
  MaxAttempts = 2
  ShouldBreak = TRUE
PROPERTIES ResultKept
CHECK_DEADLOCK FALSE
