SPECIFICATION SessionSpec
CONSTANTS
  Callers = {c1, c2}
  Objs = {r1, r2, r3}
  MaxId = 4
  Outcomes = {"settled"}
  Latches = {"closed"}
  NoCaller = NoCaller
  NoObj = NoObj
  InterruptBeforeStart = FALSE
  AbortCancel = FALSE
SYMMETRY Symmetry
INVARIANTS WorkAccounted StatusAtRest
PROPERTIES EvictedByCancel
CHECK_DEADLOCK FALSE
