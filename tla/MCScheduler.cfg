SPECIFICATION Spec
CONSTANTS
  NWorkers = 3
  MaxJobs = 5
INVARIANTS
  TypeOK
  NoLostWakeup
  JobIsHead
  RunOnce
PROPERTIES
  InOrder
  WaitBarrier
  WaitReturns
  DestructorReturns
  JobsRun
  ImplementsPool
