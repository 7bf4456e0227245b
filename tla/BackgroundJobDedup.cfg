SPECIFICATION Spec
CONSTANTS
  Callers = {c1, c2, c3}
  JobIds = {k1}
  MaxJobs = 3
  NoJob = NoJob
INVARIANTS OneFiberPerId
CHECK_DEADLOCK FALSE
