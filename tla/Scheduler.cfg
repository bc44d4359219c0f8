SPECIFICATION Spec
CONSTANTS
  Owners = {u1, u2}
  Jobs = {j1, j2}
  NoJob = NoJob
  PendingPage = 1
  EndedPage = 1
  MaxStalled = 1
  MaxCrashes = 2
INVARIANTS
  TypeOK
  RerunsAreCrashes
  PendingJobsAreListed
PROPERTIES
  CancelledNeverBegins
  EveryJobSettles
CHECK_DEADLOCK FALSE
