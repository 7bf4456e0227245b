SPECIFICATION Spec
CONSTANTS
  Calls = {c1, c2}
  Builtin = {c1}
  None = None
  MaxAttempts = 2
  ShouldBreak = TRUE
INVARIANTS InterruptAlwaysMarked
CHECK_DEADLOCK FALSE
