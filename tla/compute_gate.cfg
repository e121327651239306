CONSTANTS
  t1 = t1
  t2 = t2
  t3 = t3
  Work <- TwoJobs
  Concurrency = 2
  Recent = TRUE
  Waits = TRUE
  WaitPolls = 4
  MaxFaults = 2
  MaxSlow = 1
SPECIFICATION FairSpec
INVARIANTS
  TypeOK
  UndisturbedDayIsWhole
PROPERTIES
  WholeDayNotRefused
  EventuallyComputed
