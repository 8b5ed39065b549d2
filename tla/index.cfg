SPECIFICATION FairSpec
CONSTANTS
  NoJob = NoJob
  Hotels = {h1}
  MaxVersion = 3
  MaxPending = 2
  MaxQueue = 2
INVARIANTS
  SettledIsCurrent
  GhostsWereRevived
PROPERTIES
  IndexNeverOlder
  ChangeIsFound
CHECK_DEADLOCK FALSE
