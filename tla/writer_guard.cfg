CONSTANTS
  p1 = p1
  p2 = p2
  Procs = {p1, p2}
  Operation <- AllCensus
  stale_seconds = 4
  MinInterval = 1
  MaxCall = 1
  MaxLate = 1
  MaxOutage = 20
  LaggingReads = FALSE
  MaxFailures = 1
SPECIFICATION FairGuardSpec
INVARIANTS
  GuardTypeOK
  HealthyLapseBounded
PROPERTIES
  ExcludesUnlessLapsed
  LockRecovers
