SPECIFICATION FairSpec
CONSTANTS
  Procs = {p1, p2, p3}
  None = None
  MaxCrashes = 2
  Heartbeat = TRUE
  Pauses = TRUE
INVARIANTS TypeOK MutualExclusion
PROPERTIES CrashRecovers
CHECK_DEADLOCK FALSE
