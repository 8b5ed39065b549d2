SPECIFICATION FairSpec
CONSTANTS
  c1 = c1
  NoJob = NoJob
  Categories = {c1}
  Days <- SixDays
  Day = 2
  Payloads <- PostedJobs
  Runners = {"cron", "manual"}
  FirstRows <- FirstDays
  MaxRequests = 1
  MaxQueue = 2
  MaxNow = 3
INVARIANTS
  NoDuplicateRows
  BatchesCovered
  NoGap
PROPERTIES
  JobEnds
CHECK_DEADLOCK FALSE
