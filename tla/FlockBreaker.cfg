SPECIFICATION Spec
CONSTANTS
  Procs = {p1, p2, p3, p4}
  None = None
  MaxCrashes = 2
  Heartbeat = TRUE
  Pauses = FALSE
INVARIANTS OneHolder
CHECK_DEADLOCK FALSE
