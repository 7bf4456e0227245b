SPECIFICATION Spec
CONSTANTS
  Devices = {w, r1}
  Writers = {w}
  Replicas = {r1}
  Runners = {m1, m2}
  Replayers = {f1, f2}
  Owners = {o1}
  NoOwner = NoOwner
  None = None
  MaxEvents = 4
  MaxBatch = 2
INVARIANTS TypeOK LogMatchesProjection PrefixAgreement ForeignBounded
CHECK_DEADLOCK FALSE
