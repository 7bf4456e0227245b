SPECIFICATION Spec
CONSTANTS
  Callers = {c1, c2, c3}
  Objs = {r1}
  MaxId = 3
  Outcomes = {"settled", "mixed"}
  Latches = {"closed"}
  NoCaller = NoCaller
  NoObj = NoObj
  InterruptBeforeStart = FALSE
  AbortCancel = TRUE
SYMMETRY Symmetry
INVARIANTS TypeOK BusyHasFiber FallbackOnlyIfInterrupted
PROPERTIES ImplementsRunSlot
CHECK_DEADLOCK FALSE
