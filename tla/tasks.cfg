SPECIFICATION Spec
CONSTANTS
  t1 = t1
  t2 = t2
  d1 = d1
  d2 = d2
  m1 = m1
  Schedules = {"clock", "interval"}
  Policies = {"run_once", "skip"}
  Null = Null
  Deleted = Deleted
  Tasks = {t1}
  DispatchWorkers = {d1}
  ManualWorkers = {m1}
  Period = 2
  Lease = 2
  MaxTime = 5
  MaxRuns = 2
  MaxConcurrent = 2
  DispatchQueueSize = 1
  ManualQueueSize = 1
  MaxBoots = 2
  MaxEdits = 1
  MaxFaults = 1
INVARIANTS
  LockMatchesRun
  FiresOnce
  NothingForgotten
  DisabledIsParked
PROPERTIES
  SkipsWhatItMissed
  ImplementsLease
CONSTRAINT ByHandOrFault
CHECK_DEADLOCK FALSE
