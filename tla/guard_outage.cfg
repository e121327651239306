CONSTANTS
  p1 = p1
  p2 = p2
  Procs = {p1, p2}
  Operation <- AllCensus
  stale_seconds = 6
  MinInterval = 1
  MaxCall = 0
  MaxLate = 0
  MaxOutage = 20
  LaggingReads = FALSE
  MaxFailures = 0
SPECIFICATION GuardSpec
INVARIANTS
  AtMostOneHolder
