SPECIFICATION MCSpec
CONSTANTS
  b = b
  q1 = q1
  q2 = q2
  j1 = j1
  j2 = j2
  Jobs = {j1, j2}
  BatchSize = 2
  Builtin = b
  Adapters = {q1, q2}
  NoQueue = NoQueue
  Faults <- AllFaults
  Limits <- LimitsQueue
INVARIANTS
  QueuesKeepJobs
  OneHandlerUnlessLapsed
  CurrentKeepsWorker
  LeftBehindOnlyIfCut
PROPERTIES
  LeasedJobsHandled
CHECK_DEADLOCK FALSE
