SPECIFICATION FairSpec
CONSTANTS
  Callers = {c1, c2}
  JobIds = {k1}
  MaxJobs = 3
  NoJob = NoJob
INVARIANTS TypeOK OneFiberUnlessStruck OwnOutcome TableIsCurrent
PROPERTIES EndedStaysEnded StruckByCancel CancelEnds
CHECK_DEADLOCK FALSE
