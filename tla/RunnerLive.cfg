SPECIFICATION FairSpec
CONSTANTS
  Callers = {c1, c2}
  Objs = {r1}
  MaxId = 3
  Outcomes = {"interrupt"}
  Latches = {"none", "closed"}
  NoCaller = NoCaller
  NoObj = NoObj
  InterruptBeforeStart = FALSE
  AbortCancel = FALSE
INVARIANTS ExclusiveWork NoLostCaller
PROPERTIES CancelReturns CancelSettlesCallers
CHECK_DEADLOCK FALSE
