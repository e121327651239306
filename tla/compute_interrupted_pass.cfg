CONSTANTS
  t1 = t1
  t2 = t2
  t3 = t3
  Work <- OneJob
  Concurrency = 1
  Recent = TRUE
  Waits = TRUE
  WaitPolls = 2
  MaxFaults = 1
  MaxSlow = 0
SPECIFICATION Spec
INVARIANTS
  NoPartialDay
