SPECIFICATION Spec
CONSTANTS
  Calls = {c1, c2}
  Builtin = {c1}
  None = None
  MaxAttempts = 2
  ShouldBreak = TRUE
INVARIANTS TypeOK EndedClean InterruptMarked
PROPERTIES OutcomeStays
CHECK_DEADLOCK FALSE
