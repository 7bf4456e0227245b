SPECIFICATION SessionSpec
CONSTANTS
  Callers = {c1, c2}
  Objs = {r1, r2, r3}
  MaxId = 3
  Outcomes = {"settled", "interrupt"}
  Latches = {"closed"}
  NoCaller = NoCaller
  NoObj = NoObj
  InterruptBeforeStart = FALSE
  AbortCancel = FALSE
SYMMETRY Symmetry
INVARIANTS BusyVisible
CHECK_DEADLOCK FALSE
